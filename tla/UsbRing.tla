------------------------------ MODULE UsbRing ------------------------------
(***************************************************************************)
(* The device's USB transport: the loop of main.cpp that makes one session *)
(* after another (RunUsbLoop), ClientUsbTransport and its FunctionFS       *)
(* endpoints (usb_client.cpp), and the bulk transfer over io_uring         *)
(* (usb_iouring.cpp: usb_ffs_do_aio, read and write alike).                *)
(*                                                                         *)
(* A transfer of len units is cut into requests of IoSize; a batch of them *)
(* is submitted as one hard-linked chain.  The kernel carries out a chain  *)
(* in order, but two chains in any order.  A unit of the buffer is paired  *)
(* with the unit of the byte stream that it was filled from (or sent as).  *)
(***************************************************************************)
EXTENDS Integers, Sequences

CONSTANTS
  IoSize,       \* kFbFfsBufSize
  QueueDepth,   \* kFbFfsNumBufs, the depth of the ring
  Lengths,      \* transfer lengths; one of at most IoSize may be a command
  MaxUsbSessions \* bound on the sessions made

ASSUME UsbRingAssumption ==
  /\ IoSize \in Nat \ {0} /\ QueueDepth \in Nat \ {0}
  /\ Lengths \subseteq Nat \ {0} /\ MaxUsbSessions \in Nat

VARIABLES
  ep0,      \* the control endpoint: closed or bound
  session,  \* down; up; closed: it failed, and its transport is to be closed
  rings,    \* io_uring instances made; none is given back
  xfer,     \* idle, loop, wait, drain: where usb_ffs_do_aio is
  want,     \* len
  prepared, completed, \* sqes_submitted, sqes_completed
  success, res,        \* success, res
  sq,       \* requests prepared and not yet taken by the kernel
  chains,   \* the chains the kernel is working on
  cq,       \* completions: units moved, or -1
  at,       \* units of the stream moved in this transfer
  buf,      \* the unit of the stream in each unit of the buffer, or -1
  result    \* what the last transfer returned

counters == <<prepared, completed, success, res>>
kernel == <<sq, chains, cq, at, buf>>
usbVars == <<ep0, session, rings, xfer, want, counters, kernel, result>>

total_requests == (want + IoSize - 1) \div IoSize
in_flight == prepared - completed
Smaller(m, n) == IF m < n THEN m ELSE n

UsbInit ==
  /\ ep0 = "closed" /\ session = "down" /\ rings = 0
  /\ xfer = "idle" /\ want = 0
  /\ prepared = 0 /\ completed = 0 /\ success = TRUE /\ res = 0
  /\ sq = <<>> /\ chains = <<>> /\ cq = <<>> /\ at = 0 /\ buf = <<>> /\ result = 0
----------------------------------------------------------------------------
\* FastbootDevice("usb"): a new ring; ep0 is opened, and its descriptors are
\* written, only by the first session that can; then the bulk endpoints.
InitFunctionFs ==
  /\ session = "down" /\ rings < MaxUsbSessions
  /\ rings' = rings + 1
  /\ sq' = <<>> /\ chains' = <<>> /\ cq' = <<>> /\ at' = 0 /\ buf' = <<>>
  /\ \/ ep0 = "closed" /\ UNCHANGED ep0 /\ session' = "closed"
     \/ ep0' = "bound" /\ session' \in {"up", "closed"}
  /\ UNCHANGED <<xfer, want, counters, result>>

\* A session that failed, or has no handle, is destroyed and the loop goes on.
CloseFunctionFs ==
  /\ session = "closed"
  /\ session' = "down"
  /\ UNCHANGED <<ep0, rings, xfer, want, counters, kernel, result>>
----------------------------------------------------------------------------
\* ClientUsbTransport::Read or Write of n units.
StartTransfer(n) ==
  /\ session = "up" /\ xfer = "idle"
  /\ xfer' = "loop" /\ want' = n
  /\ prepared' = 0 /\ completed' = 0 /\ success' = TRUE /\ res' = 0
  /\ at' = 0 /\ buf' = [i \in 1 .. n |-> -1]
  /\ UNCHANGED <<ep0, session, rings, sq, chains, cq, result>>

\* The end of a transfer, and what the session makes of it: an error ends it,
\* and so does a data phase that came up short.
Return(r) ==
  /\ xfer' = "idle" /\ result' = r
  /\ session' \in IF r < 0 THEN {"closed"}
                  ELSE IF r < want THEN {s \in {"up", "closed"} : s = "closed" \/ want <= IoSize}
                  ELSE {"up"}

Request(i) == [at |-> (i - 1) * IoSize, len |-> Smaller(want - (i - 1) * IoSize, IoSize)]

\* The requests for which the ring has room, prepared and submitted as a chain;
\* io_uring_submit may fail, or take fewer than were prepared.
SubmitBatch ==
  LET n == Smaller(total_requests - prepared, QueueDepth - Len(sq))
      batch == sq \o [i \in 1 .. n |-> Request(prepared + i)]
  IN  \E taken \in -1 .. Len(batch) :
        LET k == IF taken < 0 THEN 0 ELSE taken
        IN  /\ prepared' = prepared + n
            /\ sq' = SubSeq(batch, k + 1, Len(batch))
            /\ chains' = IF k = 0 THEN chains ELSE Append(chains, SubSeq(batch, 1, k))
            /\ success' = (success /\ taken >= 0)
            \* usb_iouring.cpp:125,127 - "nothing in flight" counts what was prepared
            /\ IF taken <= 0 /\ prepared + n = completed
               THEN Return(-1)
               ELSE xfer' = "wait" /\ UNCHANGED <<session, result>>
            /\ UNCHANGED <<ep0, rings, want, completed, res, cq, at, buf>>

\* Mutant of QueueRequests: the next batch does not wait for the last one.
QueueRequestsEager ==
  /\ xfer = "loop" /\ success /\ prepared < total_requests
  /\ SubmitBatch

\* A batch is queued only when the previous one has fully drained.
QueueRequests ==
  /\ xfer = "loop" /\ completed < total_requests
  /\ success /\ in_flight = 0
  /\ SubmitBatch

\* All requests are done, or none is in flight: the transfer returns.
FinishTransfer ==
  /\ xfer = "loop"
  /\ completed >= total_requests \/ (~success /\ in_flight <= 0)
  /\ Return(IF success THEN res ELSE -1)
  /\ UNCHANGED <<ep0, rings, want, counters, kernel>>

AwaitMore ==
  /\ xfer = "loop" /\ completed < total_requests /\ in_flight > 0
  /\ xfer' = "wait"
  /\ UNCHANGED <<ep0, session, rings, want, counters, kernel, result>>

\* The kernel (external) carries out the first request of a chain: all of it,
\* less (a short packet), or none of it (the host has gone, or -EPIPE).
KernelCompletes ==
  \E c \in 1 .. Len(chains) :
    LET r == chains[c][1]
        rest == SubSeq(chains, 1, c - 1) \o SubSeq(chains, c + 1, Len(chains))
    IN  /\ chains' = IF Len(chains[c]) = 1 THEN rest
                     ELSE [chains EXCEPT ![c] = Tail(@)]
        /\ \E n \in -1 .. r.len :
             LET got == IF n < 0 THEN 0 ELSE n
             IN  /\ cq' = Append(cq, n)
                 /\ at' = at + got
                 /\ buf' = [i \in DOMAIN buf |->
                              IF i - r.at \in 1 .. got THEN at + (i - r.at) ELSE buf[i]]
        /\ UNCHANGED <<ep0, session, rings, xfer, want, counters, sq, result>>

\* One completion is counted: the one waited for, then any that are ready.
CountCompletion ==
  /\ xfer = "wait" \/ (xfer = "drain" /\ in_flight > 0)
  /\ cq # <<>>
  /\ cq' = Tail(cq)
  /\ completed' = completed + 1
  /\ success' = (success /\ cq[1] >= 0)
  /\ res' = IF cq[1] < 0 THEN res ELSE res + cq[1]
  /\ xfer' = "drain"
  /\ UNCHANGED <<ep0, session, rings, want, prepared, sq, chains, at, buf, result>>

\* io_uring_wait_cqe fails: requests may still be in flight.
WaitFails ==
  /\ xfer = "wait"
  /\ Return(-1)
  /\ UNCHANGED <<ep0, rings, want, counters, kernel>>

NothingReady ==
  /\ xfer = "drain" /\ (cq = <<>> \/ in_flight = 0)
  /\ xfer' = "loop"
  /\ UNCHANGED <<ep0, session, rings, want, counters, kernel, result>>

UsbThread ==
  \/ InitFunctionFs \/ CloseFunctionFs
  \/ QueueRequests \/ FinishTransfer \/ AwaitMore \/ CountCompletion \/ NothingReady

UsbNext ==
  \/ UsbThread \/ KernelCompletes \/ WaitFails
  \/ \E n \in Lengths : StartTransfer(n)

UsbSpec == UsbInit /\ [][UsbNext]_usbVars

\* The thread runs, and the kernel completes what it has taken: the host goes on
\* with its transfer, or the controller reports that it has gone.
UsbFairness == WF_usbVars(UsbThread) /\ WF_usbVars(KernelCompletes)
----------------------------------------------------------------------------
\* usb_iouring.cpp:97-102 - a transfer that returns its whole length has every
\* unit in its place: no two chains race for the endpoint, and a short request
\* leaves a hole only where the length tells.
ExactTransfer ==
  (xfer = "idle" /\ session = "up" /\ result = want) => \A i \in DOMAIN buf : buf[i] = i

\* While a session goes on, nothing is left in the ring between transfers that
\* could take the next one's bytes or be counted as its completion.
RingQuiet ==
  (xfer = "idle" /\ session = "up") => sq = <<>> /\ chains = <<>> /\ cq = <<>>

\* The two together keep the byte stream of a session intact, from one transfer
\* to the next.
StreamIntact == ExactTransfer /\ RingQuiet

\* usb_iouring.cpp:127-136 - a transfer always returns: what was submitted is
\* completed, or an error is reported.  The one exception is a submission that
\* left requests in the queue: they count as in flight, and are waited for.
TransferReturns == xfer # "idle" ~> (xfer = "idle" \/ (xfer = "wait" /\ sq # <<>>))
============================================================================
