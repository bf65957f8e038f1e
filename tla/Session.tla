------------------------------ MODULE Session ------------------------------
(***************************************************************************)
(* One fastboot session over TCP: FastbootDevice::ExecuteCommands, the     *)
(* reply bookkeeping of WriteStatus, HandleData and DecideAfterCommand     *)
(* (fastboot/device/fastboot_device.cpp, session_policy.h), the download   *)
(* and upload handlers, and the framing of ClientTcpTransport::Read and    *)
(* Write (tcp_client.cpp) over Socket::ReceiveAll (socket.cpp).            *)
(*                                                                         *)
(* The host sends messages, [length][payload]; payload is counted in units *)
(* of which the command buffer holds Cap.  The host (fastboot_driver.cpp)  *)
(* may vanish at any moment, in the middle of a message too: what it had   *)
(* sent reaches the device only up to some unit.  The content of a command *)
(* is what its handler will do.                                            *)
(***************************************************************************)
EXTENDS Naturals, Sequences

CONSTANTS Cap,        \* FB_RESPONSE_SZ: the room in ExecuteCommands' buffer
          MaxLen,     \* bound on the length of a command message
          DataSize,   \* the size of every download
          MaxCommands \* bound on the commands a host sends

ASSUME SizesAssumption ==
  /\ Cap \in Nat \ {0} /\ MaxLen \in Nat \ {0} /\ DataSize \in Nat \ {0}
  /\ MaxCommands \in Nat

\* What a handler does: reply once; fail without replying; throw; receive an
\* image; send one; use one.  "unknown" is no command, or has control characters.
Kinds == {"reply", "silent", "throws", "download", "upload", "flash", "unknown"}

VARIABLES
  host,      \* the host: idle, waiting for a status, sending or receiving data,
             \* finishing (waiting for the last status), or gone
  sent,      \* commands sent so far: [kind, len] of each
  inbox,     \* replies on their way to the host: [to, type]
  wire,      \* units on their way to the device: [msg, at, len]; at = 0 is a header
  socket,    \* whether socket_ is set
  left,      \* message_bytes_left_
  downloading, \* downloading_
  total,     \* total_read of the Read() of a data phase
  pc,        \* where ExecuteCommands is
  cmd,       \* the command being handled
  staged,    \* download_data(): empty, partly received or full
  replied,   \* replied_
  failed,    \* transport_failed_
  answers    \* OKAYs and FAILs written for cmd

transport == <<socket, left, downloading, total>>
vars == <<host, sent, inbox, wire, transport, pc, cmd, staged, replied, failed,
          answers>>

Gone == host = "gone"
DataMsg == 0     \* the number that data messages carry in place of a command's
NoCommand == [kind |-> "none", msg |-> DataMsg, whole |-> TRUE]

\* A message as the device sees it arrive: a header and its units.
Message(m, n) == [i \in 1..(n + 1) |-> [msg |-> m, at |-> i - 1, len |-> n]]
----------------------------------------------------------------------------
Init ==
  /\ host = "idle" /\ sent = <<>> /\ inbox = <<>> /\ wire = <<>>
  /\ socket = TRUE /\ left = 0 /\ downloading = FALSE /\ total = 0
  /\ pc = "command" /\ cmd = NoCommand
  /\ staged = "empty" /\ replied = FALSE /\ failed = FALSE /\ answers = 0

\* The host's FastBootDriver, one command at a time.  RawCommand: a command may
\* be longer than the device's buffer (FB_COMMAND_SZ against FB_RESPONSE_SZ).
RawCommand(k, n) ==
  /\ host = "idle" /\ Len(sent) < MaxCommands
  /\ sent' = Append(sent, [kind |-> k, len |-> n])
  /\ wire' = wire \o Message(Len(sent) + 1, n)
  /\ host' = "waiting"
  /\ UNCHANGED <<inbox, transport, pc, cmd, staged, replied, failed, answers>>

\* Download: DownloadCommand takes an OKAY for a DATA.
DownloadNext(t) == IF t = "FAIL" THEN "idle" ELSE "data"
\* RunAndReadBuffer: with no DATA there is no size, and nothing to read.
UploadNext(t) == IF t = "DATA" THEN "receiving" ELSE "idle"

\* HandleResponse.  INFO and TEXT are displayed, and the wait goes on; a payload
\* that is taken for a status may begin with any of them, or with none: an error.
HandleResponse ==
  /\ host \in {"waiting", "finishing"} /\ inbox # <<>>
  /\ inbox' = Tail(inbox)
  /\ LET statuses == IF Head(inbox).type # "payload" THEN {Head(inbox).type}
                     ELSE {"OKAY", "FAIL", "DATA", "INFO"}
         kind == sent[Len(sent)].kind
     IN  \E t \in statuses :
           host' = CASE t = "INFO" -> host
                     [] t # "INFO" /\ host = "finishing" -> "idle"
                     [] t # "INFO" /\ host = "waiting" /\ kind = "download" -> DownloadNext(t)
                     [] t # "INFO" /\ host = "waiting" /\ kind = "upload" -> UploadNext(t)
                     [] OTHER -> "idle"
  /\ UNCHANGED <<sent, wire, transport, pc, cmd, staged, replied, failed, answers>>

\* ReadBuffer: the next message is the data; a status in its place is too short.
ReadBuffer ==
  /\ host = "receiving" /\ inbox # <<>>
  /\ inbox' = Tail(inbox)
  /\ host' = IF Head(inbox).type = "payload" THEN "finishing" ELSE "idle"
  /\ UNCHANGED <<sent, wire, transport, pc, cmd, staged, replied, failed, answers>>

\* SendBuffer: the image goes out in one message ...
SendBuffer ==
  /\ host = "data"
  /\ wire' = wire \o Message(DataMsg, DataSize)
  /\ host' = "finishing"
  /\ UNCHANGED <<sent, inbox, transport, pc, cmd, staged, replied, failed, answers>>

\* ... or, from SparseWriteCallback, a full buffer and then what is left.
SparseWriteCallback(cut) ==
  /\ host = "data"
  /\ wire' = wire \o Message(DataMsg, cut) \o Message(DataMsg, DataSize - cut)
  /\ host' = "finishing"
  /\ UNCHANGED <<sent, inbox, transport, pc, cmd, staged, replied, failed, answers>>

\* The host process dies or the link goes: only a prefix of what it sent arrives.
HostVanish ==
  /\ ~Gone
  /\ host' = "gone"
  /\ inbox' = <<>>
  /\ \E n \in 0..Len(wire) : wire' = SubSeq(wire, 1, n)
  /\ UNCHANGED <<sent, transport, pc, cmd, staged, replied, failed, answers>>
----------------------------------------------------------------------------
\* ClientTcpTransport::Write and what FastbootDevice makes of its result.  A
\* send to a host that has gone may still be buffered, or fails and drops the
\* socket.  Only a reply beginning with DATA starts a data phase.
SendOk(type) ==
  /\ socket
  /\ inbox' = IF Gone THEN inbox ELSE Append(inbox, [to |-> cmd.msg, type |-> type])
  /\ \E b \in BOOLEAN :          \* an upload may begin with the bytes "DATA"
        /\ type # "payload" => (b <=> type = "DATA")
        /\ downloading' = b
  /\ answers' = IF type \in {"OKAY", "FAIL"} THEN answers + 1 ELSE answers
  /\ replied' = (replied \/ type \in {"OKAY", "FAIL"})
  /\ UNCHANGED <<socket, failed>>

SendFails ==
  /\ ~socket \/ Gone
  /\ socket' = FALSE
  /\ failed' = TRUE
  /\ UNCHANGED <<inbox, downloading, answers, replied>>

Send(type) == SendOk(type) \/ SendFails

\* The payload units of the current message at the front of the wire.
Arrived == IF wire # <<>> /\ wire[1].at # 0 THEN Len(wire) ELSE 0
\* What ReceiveAll(n) gets: n units, or fewer if the host has gone.
Received(n) == IF Arrived < n THEN Arrived ELSE n

\* Read(): the next message's header.  With a host that has gone it ends the
\* socket; between commands that is the end of the session, in a data phase an
\* error.  A message of length 0 would be skipped; hosts send none.
ReadHeader ==
  /\ pc \in {"command", "data"} /\ left = 0 /\ socket
  /\ \/ /\ wire # <<>>
        /\ left' = wire[1].len
        /\ wire' = Tail(wire)
        /\ UNCHANGED <<socket, pc, failed>>
     \/ /\ wire = <<>> /\ Gone
        /\ socket' = FALSE
        /\ pc' = IF pc = "data" THEN "shortdata" ELSE pc
        /\ failed' = (failed \/ pc = "data")
        /\ UNCHANGED <<left, wire>>
  /\ UNCHANGED <<host, sent, inbox, downloading, total, cmd, staged, replied,
                 answers>>

\* Mutant of ReadClosed: the worker waits for another connection.
ReadClosedWaits ==
  /\ pc = "command" /\ left = 0 /\ ~socket
  /\ UNCHANGED vars

\* ... and with no socket: 0, the peer closed connection, the session ends.
ReadClosed ==
  /\ pc = "command" /\ left = 0 /\ ~socket
  /\ pc' = "ended"
  /\ UNCHANGED <<host, sent, inbox, wire, transport, cmd, staged, replied, failed,
                 answers>>

\* Mutant of ReadCommand: the size of the buffer is counted, not the bytes read.
ReadCommandMiscounts ==
  /\ pc = "command" /\ left > 0 /\ socket /\ wire # <<>>
  /\ left' = left - Cap
  /\ wire' = SubSeq(wire, Received(left) + 1, Len(wire))
  /\ cmd' = [kind |-> "reply", msg |-> wire[1].msg, whole |-> TRUE]
  /\ pc' = "dispatch"
  /\ answers' = 0
  /\ UNCHANGED <<host, sent, inbox, socket, downloading, total, staged, replied, failed>>

\* Read(command, FB_RESPONSE_SZ): one message, or as much of it as fits or as
\* arrived.  A piece of a message can be any command.
ReadCommand ==
  /\ pc = "command" /\ left > 0 /\ socket
  /\ LET want == IF left < Cap THEN left ELSE Cap
         got == Received(want)
     IN  /\ got = want \/ Gone
         /\ \/ /\ got = 0                      \* ReceiveAll returned -1
               /\ socket' = FALSE /\ pc' = "ended"
               /\ UNCHANGED <<left, wire, cmd, answers>>
            \/ /\ got > 0
               /\ answers' = 0
               /\ left' = left - got
               /\ wire' = SubSeq(wire, got + 1, Len(wire))
               /\ LET m == wire[1].msg
                      whole == wire[1].at = 1 /\ got = wire[1].len
                  IN  \E k \in Kinds :
                        /\ (whole /\ m # DataMsg) => k = sent[m].kind
                        /\ cmd' = [kind |-> k, msg |-> m, whole |-> whole]
               /\ pc' = "dispatch"
               /\ UNCHANGED socket
  /\ UNCHANGED <<host, sent, inbox, downloading, total, staged, replied, failed>>

\* message_bytes_left_ outlives the socket: Read() then calls ReceiveAll
\* through the null socket_.
ReadNull ==
  /\ pc = "command" /\ left > 0 /\ ~socket
  /\ pc' = "crashed"
  /\ UNCHANGED <<host, sent, inbox, wire, transport, cmd, staged, replied, failed,
                 answers>>

\* HandleData(true) over Read() with downloading_ set: message after message
\* until the buffer is full; ReceiveAll's -1 fails the transport.
ReadData ==
  /\ pc = "data" /\ left > 0 /\ socket
  /\ LET want == IF left < DataSize - total THEN left ELSE DataSize - total
         got == Received(want)
     IN  /\ got = want \/ Gone
         /\ left' = left - got
         /\ total' = total + got
         /\ wire' = SubSeq(wire, got + 1, Len(wire))
         /\ socket' = (got > 0)
         /\ failed' = (failed \/ got = 0)
         /\ pc' = IF got = 0 THEN "shortdata"
                  ELSE IF total' = DataSize THEN "stageddata" ELSE pc
  /\ UNCHANGED <<host, sent, inbox, downloading, cmd, staged, replied, answers>>
----------------------------------------------------------------------------
\* A message with control characters or no entry in kCommandMap is answered
\* with FAIL; `continue` goes to the next Read whatever became of the reply.
Reject ==
  /\ pc = "dispatch" /\ cmd.kind = "unknown"
  /\ Send("FAIL")
  /\ pc' = "command"
  /\ UNCHANGED <<host, sent, wire, left, total, cmd, staged>>

\* The dispatch of a known command resets replied_.
Dispatch ==
  /\ pc = "dispatch" /\ cmd.kind # "unknown"
  /\ replied' = FALSE
  /\ pc' = cmd.kind
  /\ UNCHANGED <<host, sent, inbox, wire, transport, cmd, staged, failed, answers>>

\* A handler that replies once, OKAY or FAIL.
HandleReply ==
  /\ pc = "reply"
  /\ \E type \in {"OKAY", "FAIL"} : Send(type)
  /\ pc' = "after"
  /\ UNCHANGED <<host, sent, wire, left, total, cmd, staged>>

\* FlashHandler: Flash() consumes the staged image once it has the device.
HandleFlash ==
  /\ pc = "flash"
  /\ \/ staged # "empty" /\ staged' = "empty" /\ \E type \in {"OKAY", "FAIL"} : Send(type)
     \/ UNCHANGED staged /\ Send("FAIL")
  /\ pc' = "after"
  /\ UNCHANGED <<host, sent, wire, left, total, cmd>>

HandleSilent ==
  /\ pc = "silent"
  /\ pc' = "after"
  /\ UNCHANGED <<host, sent, inbox, wire, transport, cmd, staged, replied, failed,
                 answers>>

\* The backstop: FAIL "internal error", and the session ends.
HandleThrows ==
  /\ pc = "throws"
  /\ Send("FAIL")
  /\ pc' = "ended"
  /\ UNCHANGED <<host, sent, wire, left, total, cmd, staged>>

\* Mutant of DownloadBegin: the buffer is resized before the size is checked.
DownloadBeginResizesFirst ==
  /\ pc = "download"
  /\ staged' = "partial"
  /\ total' = 0
  /\ \/ Send("FAIL") /\ pc' = "after"
     \/ Send("DATA") /\ pc' = IF failed' THEN "after" ELSE "data"
  /\ UNCHANGED <<host, sent, wire, left, cmd>>

\* DownloadHandler: a bad size is refused; else the buffer is resized, which
\* loses what it held, and DATA announces the data phase.
DownloadBegin ==
  /\ pc = "download"
  /\ \/ Send("FAIL") /\ pc' = "after" /\ UNCHANGED <<staged, total>>
     \/ /\ Send("DATA")
        /\ staged' = "partial"
        /\ total' = 0
        /\ pc' = IF failed' THEN "after" ELSE "data"
  /\ UNCHANGED <<host, sent, wire, left, cmd>>

DownloadEnd ==
  /\ \/ pc = "stageddata" /\ staged' = "full" /\ Send("OKAY")
     \/ pc = "shortdata" /\ UNCHANGED staged /\ Send("FAIL")
  /\ pc' = "after"
  /\ UNCHANGED <<host, sent, wire, left, total, cmd>>

\* UploadHandler: DATA, the staged bytes, OKAY; the buffer is then cleared.
Upload ==
  \/ /\ pc = "upload"
     /\ \/ staged = "empty" /\ Send("FAIL") /\ pc' = "after"
        \/ staged # "empty" /\ Send("DATA") /\ pc' = IF failed' THEN "after" ELSE "payload"
     /\ UNCHANGED <<host, sent, wire, left, total, cmd, staged>>
  \/ /\ pc = "payload"
     /\ Send("payload")
     /\ staged' = IF failed' THEN staged ELSE "empty"
     /\ pc' = IF failed' THEN "upfail" ELSE "upokay"
     /\ UNCHANGED <<host, sent, wire, left, total, cmd>>
  \/ /\ pc \in {"upfail", "upokay"}
     /\ Send(IF pc = "upfail" THEN "FAIL" ELSE "OKAY")
     /\ pc' = "after"
     /\ UNCHANGED <<host, sent, wire, left, total, cmd, staged>>

\* Mutants of AfterCommand: a silent failure is not answered; the loop answers
\* for a handler that already did.
AfterCommandMute ==
  /\ pc = "after"
  /\ pc' = IF failed THEN "ended" ELSE "command"
  /\ UNCHANGED <<host, sent, inbox, wire, transport, cmd, staged, replied, failed,
                 answers>>
AfterCommandEager ==
  /\ pc = "after"
  /\ \/ failed /\ pc' = "ended" /\ UNCHANGED <<inbox, downloading, answers, replied, socket, failed>>
     \/ /\ ~failed
        /\ Send("FAIL")
        /\ pc' = IF failed' THEN "ended" ELSE "command"
  /\ UNCHANGED <<host, sent, wire, left, total, cmd, staged>>

\* DecideAfterCommand: end the session on a failed transport; answer for a
\* handler that failed without a word; else go on.
AfterCommand ==
  /\ pc = "after"
  /\ \/ /\ failed
        /\ pc' = "ended"
        /\ UNCHANGED <<inbox, downloading, answers, replied, socket, failed>>
     \/ /\ ~failed /\ ~replied /\ cmd.kind = "silent"
        /\ Send("FAIL")
        /\ pc' = IF failed' THEN "ended" ELSE "command"
     \/ /\ ~failed /\ (replied \/ cmd.kind # "silent")
        /\ pc' = "command"
        /\ UNCHANGED <<inbox, downloading, answers, replied, socket, failed>>
  /\ UNCHANGED <<host, sent, wire, left, total, cmd, staged>>

HostStep ==
  \/ \E k \in Kinds, n \in 1..MaxLen : RawCommand(k, n)
  \/ HandleResponse \/ ReadBuffer \/ SendBuffer
  \/ \E cut \in 1..(DataSize - 1) : SparseWriteCallback(cut)
  \/ HostVanish

DeviceStep ==
  \/ ReadHeader \/ ReadClosed \/ ReadCommand \/ ReadNull \/ ReadData
  \/ Reject \/ Dispatch \/ HandleReply \/ HandleFlash \/ HandleSilent
  \/ HandleThrows \/ DownloadBegin \/ DownloadEnd \/ Upload \/ AfterCommand

Next == HostStep \/ DeviceStep

Spec == Init /\ [][Next]_vars

\* The session's thread keeps running.  Nothing is asked of the host.
FairSpec == Spec /\ WF_vars(DeviceStep)
----------------------------------------------------------------------------
Handling == {"reply", "flash", "silent", "throws", "download", "data", "stageddata",
             "shortdata", "upload", "payload", "upfail", "upokay"}
Over == {"ended", "crashed"}

\* Every variable has its type.
TypeOK ==
  /\ host \in {"idle", "waiting", "data", "receiving", "finishing", "gone"}
  /\ sent \in Seq([kind : Kinds, len : 1..MaxLen]) /\ Len(sent) <= MaxCommands
  /\ \A i \in 1..Len(inbox) :
        /\ inbox[i].to \in 0..Len(sent)
        /\ inbox[i].type \in {"OKAY", "FAIL", "DATA", "payload"}
  /\ \A i \in 1..Len(wire) : wire[i].msg \in 0..Len(sent) /\ wire[i].at \in 0..wire[i].len
  /\ socket \in BOOLEAN /\ downloading \in BOOLEAN
  /\ left \in Nat /\ total \in 0..DataSize
  /\ pc \in {"command", "dispatch", "after"} \cup Handling \cup Over
  /\ cmd.kind \in Kinds \cup {"none"} /\ cmd.msg \in 0..Len(sent) /\ cmd.whole \in BOOLEAN
  /\ staged \in {"empty", "partial", "full"}
  /\ replied \in BOOLEAN /\ failed \in BOOLEAN /\ answers \in Nat

\* Every command gets exactly one OKAY or FAIL before the next is read, unless
\* the transport cannot carry it: a silent handler is answered for, one that
\* replied is not answered for twice (DecideAfterCommand, replied_).
OneAnswerEach ==
  /\ answers <= 1
  /\ (pc = "command" /\ cmd # NoCommand /\ ~failed) => answers = 1

\* As long as commands fit the buffer, the host and the device stay in step: a
\* reply on its way answers the command the host is waiting for, and while the
\* host is not waiting none is on its way.
InStep ==
  (\A i \in 1..Len(sent) : sent[i].len <= Cap) =>
     /\ \A i \in 1..Len(inbox) : inbox[i].to = Len(sent)
     /\ host \in {"idle", "data"} => inbox = <<>>

\* No command runs with a half-received image in the buffer: a transfer cut
\* short ends the session (HandleData, transport_failed_).
PartialNeverUsed == staged = "partial" => pc \notin {"dispatch", "flash", "upload"}

\* The session ends after its host has gone, whatever it was doing: the worker
\* is free for the next client.
SessionEnds == Gone ~> pc \in Over

\* tcp_client.cpp:106-110 - a Read after the peer has closed returns; it does
\* not go through the socket that is no longer there.
ReadHasSocket == ~(pc = "command" /\ left > 0 /\ ~socket)
============================================================================
