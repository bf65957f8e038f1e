------------------------------ MODULE UdpLink ------------------------------
(***************************************************************************)
(* The host's UDP transport (fastboot/udp.cpp: InitializeProtocol,         *)
(* SendData, SendSinglePacketHelper, Read, Write) over a network that may  *)
(* lose, repeat and reorder packets: a packet once sent may arrive any     *)
(* number of times, at any time after.                                     *)
(*                                                                         *)
(* The target is not part of the repository.  It is modelled from what the *)
(* host relies on: a packet with the sequence number it expects is acted   *)
(* on and answered, the previous one is answered again as before, any      *)
(* other is dropped; a query is always answered with the expected number.  *)
(* Data is counted in packets' worth; sequence numbers are mod SeqMod.     *)
(***************************************************************************)
EXTENDS Integers, Sequences

CONSTANTS
  SeqMod,      \* 2^16; more than any two packets in the network are apart
  Attempts,    \* kMaxConnectAttempts, kMaxTransmissionAttempts
  MaxChunks,   \* bound on the packets' worth of one Write, or of one answer
  RoomChunks,  \* the room in the buffer given to Read
  MaxTransfers \* bound on the Reads and Writes made

ASSUME UdpLinkAssumption ==
  /\ SeqMod \in Nat \ {0, 1} /\ Attempts \in Nat \ {0}
  /\ MaxChunks \in Nat \ {0} /\ RoomChunks \in Nat /\ MaxTransfers \in Nat

VARIABLES
  udp,       \* [op, busy]: what is being sent, or idle, or failed
  sequence,  \* sequence_
  header,    \* the packet being sent: [id, seq, data], data = 0 for none
  attemptsLeft, \* attempts_left
  txLeft,    \* packets' worth of this Write still to be sent after this one
  rxGot,     \* packets' worth received by this SendData
  transfers, \* Reads and Writes begun
  toTarget, toHost, \* the packets in the network
  expected,  \* target: the sequence number it acts on next
  lastReply, \* target: its last answer
  pending,   \* target: packets' worth it still has to answer with
  posted, delivered, \* host to target: data handed over, data acted on
  offered, taken     \* target to host

hostVars == <<udp, sequence, header, attemptsLeft, txLeft, rxGot, transfers>>
netVars == <<toTarget, toHost>>
targetVars == <<expected, lastReply, pending>>
linkVars == <<posted, delivered, offered, taken>>
udpVars == <<hostVars, netVars, targetVars, linkVars>>

NoPacket == [id |-> "none", seq |-> 0, data |-> 0, more |-> FALSE]
Plus1(s) == (s + 1) % SeqMod

UdpInit ==
  /\ udp = "idle" /\ sequence = -1 /\ header = NoPacket /\ attemptsLeft = 0
  /\ txLeft = 0 /\ rxGot = 0 /\ transfers = 0
  /\ toTarget = {} /\ toHost = {}
  /\ expected \in 0 .. SeqMod - 1 /\ lastReply = NoPacket /\ pending = 0
  /\ posted = <<>> /\ delivered = <<>> /\ offered = <<>> /\ taken = <<>>

\* Header::Set and the first Send; a Write's data is posted with it.
SendPacket(id, seq, data, more) ==
  /\ header' = [id |-> id, seq |-> seq, data |-> data, more |-> more]
  /\ toTarget' = toTarget \union {header'}
  /\ attemptsLeft' = Attempts
  /\ posted' = IF data = 0 THEN posted ELSE Append(posted, data)

\* InitializeProtocol: the query, which carries sequence number 0.
SendQuery ==
  /\ udp = "idle" /\ sequence = -1
  /\ udp' = "query" /\ sequence' = 0
  /\ txLeft' = 0 /\ rxGot' = 0 /\ transfers' = 0
  /\ SendPacket("query", 0, 0, FALSE)
  /\ UNCHANGED <<toHost, targetVars, delivered, offered, taken>>

\* Write: the first of n packets, with the continuation flag if more follow.
UdpWrite(n) ==
  /\ udp = "idle" /\ sequence # -1 /\ transfers < MaxTransfers
  /\ udp' = "write" /\ transfers' = transfers + 1
  /\ txLeft' = n - 1 /\ rxGot' = 0
  /\ SendPacket("fastboot", sequence, Len(posted) + 1, n > 1)
  /\ UNCHANGED <<sequence, toHost, targetVars, delivered, offered, taken>>

\* Read: an empty packet asks for data.
UdpRead ==
  /\ udp = "idle" /\ sequence # -1 /\ transfers < MaxTransfers
  /\ udp' = "read" /\ transfers' = transfers + 1
  /\ txLeft' = 0 /\ rxGot' = 0
  /\ SendPacket("fastboot", sequence, 0, FALSE)
  /\ UNCHANGED <<sequence, toHost, targetVars, delivered, offered, taken>>

Waiting == udp \in {"query", "initialize", "write", "read"}

\* Header::Matches: the sequence number, and the id or an error.
Matches(p) == p.seq = header.seq /\ (p.id = header.id \/ p.id = "error")

\* Mutants of UdpTimeout: the attempts are not counted; a packet is sent again
\* as a new one.
UdpTimeoutForever == Waiting /\ UNCHANGED udpVars
UdpTimeoutAnew ==
  /\ Waiting
  /\ attemptsLeft' = attemptsLeft - 1
  /\ udp' = IF attemptsLeft = 1 THEN "failed" ELSE udp
  /\ sequence' = Plus1(sequence)
  /\ header' = [header EXCEPT !.seq = Plus1(@)]
  /\ toTarget' = toTarget \union {header'}
  /\ UNCHANGED <<txLeft, rxGot, transfers, toHost, targetVars, linkVars>>

\* No matching answer within kResponseTimeoutMs: send it again, or give up.
UdpTimeout ==
  /\ Waiting
  /\ attemptsLeft' = attemptsLeft - 1
  /\ udp' = IF attemptsLeft = 1 THEN "failed" ELSE udp
  /\ UNCHANGED <<sequence, header, txLeft, rxGot, transfers, netVars, targetVars, linkVars>>

\* A matching answer: the sequence number goes on, data is stored (or only
\* counted, when there is no room), a continuation is asked for, the next packet
\* of a Write is sent, or SendData returns.
Accept(p) ==
  LET next == IF udp = "query" THEN p.data ELSE Plus1(sequence)
      got == rxGot + (IF p.id = "fastboot" /\ p.data # 0 THEN 1 ELSE 0)
      stored == p.id = "fastboot" /\ p.data # 0 /\ udp = "read" /\ got <= RoomChunks
  IN  /\ sequence' = next
      /\ rxGot' = got
      /\ taken' = IF stored THEN Append(taken, p.data) ELSE taken
      /\ \/ /\ p.more /\ p.id # "query"
            /\ SendPacket(p.id, next, 0, FALSE)
            /\ UNCHANGED <<udp, txLeft>>
         \/ /\ ~p.more /\ p.id = "error"
            /\ udp' = "failed"
            /\ UNCHANGED <<header, toTarget, attemptsLeft, posted, txLeft>>
         \/ /\ p.id = "query"
            /\ udp' = "initialize"
            /\ SendPacket("init", next, 0, FALSE)
            /\ UNCHANGED txLeft
         \/ /\ ~p.more /\ p.id \notin {"error", "query"} /\ txLeft > 0
            /\ txLeft' = txLeft - 1
            /\ SendPacket("fastboot", next, Len(posted) + 1, txLeft > 1)
            /\ UNCHANGED udp
         \/ /\ ~p.more /\ p.id \notin {"error", "query"} /\ txLeft = 0
            /\ udp' = IF (udp = "write" /\ got > 0) \/ (udp = "read" /\ got > RoomChunks)
                      THEN "failed" ELSE "idle"
            /\ UNCHANGED <<header, toTarget, attemptsLeft, posted, txLeft>>

\* Receive until an answer matches; the ones that do not are dropped.
HostReceives ==
  /\ Waiting
  /\ \E p \in toHost : Matches(p) /\ Accept(p)
  /\ UNCHANGED <<transfers, toHost, targetVars, delivered, offered>>
----------------------------------------------------------------------------
\* The target (external).  Answering a read, it may offer up to MaxChunks.
Answer(p, reply) ==
  /\ lastReply' = reply
  /\ toHost' = toHost \union {reply}
  /\ expected' = Plus1(expected)
  /\ delivered' = IF p.data = 0 THEN delivered ELSE Append(delivered, p.data)

TargetActs(p) ==
  /\ p.id # "query" /\ p.seq = expected
  /\ \/ /\ p.id = "init" \/ p.data # 0
        /\ Answer(p, [id |-> p.id, seq |-> p.seq, data |-> 0, more |-> FALSE])
        /\ UNCHANGED <<pending, offered>>
     \/ /\ p.id = "fastboot" /\ p.data = 0
        /\ \E n \in (IF pending > 0 THEN {pending} ELSE 1 .. MaxChunks) :
             /\ pending' = n - 1
             /\ offered' = Append(offered, Len(offered) + 1)
             /\ Answer(p, [id |-> "fastboot", seq |-> p.seq, data |-> Len(offered) + 1,
                           more |-> n > 1])
     \/ /\ Answer(p, [id |-> "error", seq |-> p.seq, data |-> 0, more |-> FALSE])
        /\ UNCHANGED <<pending, offered>>

TargetReceives ==
  /\ \E p \in toTarget :
       \/ TargetActs(p)
       \/ /\ p.id # "query" /\ Plus1(p.seq) = expected /\ lastReply # NoPacket
          /\ toHost' = toHost \union {lastReply}
          /\ UNCHANGED <<targetVars, delivered, offered>>
       \/ /\ p.id = "query"
          /\ toHost' = toHost \union {[id |-> "query", seq |-> p.seq, data |-> expected,
                                       more |-> FALSE]}
          /\ UNCHANGED <<targetVars, delivered, offered>>
  /\ UNCHANGED <<hostVars, toTarget, posted, taken>>

UdpHost == HostReceives \/ UdpTimeout

UdpNext ==
  \/ SendQuery \/ UdpRead \/ UdpHost \/ TargetReceives
  \/ \E n \in 1 .. MaxChunks : UdpWrite(n)

UdpSpec == UdpInit /\ [][UdpNext]_udpVars

\* The host process runs, so its receive timeouts fire.
UdpFairness == WF_udpVars(UdpHost)
----------------------------------------------------------------------------
\* A Read or a Write that succeeded left nothing behind: the target has acted
\* on all that was written, and all that it offered was read.
TransferComplete ==
  udp = "idle" => delivered = posted /\ taken = offered

Down == INSTANCE FifoLink WITH sentOn <- posted, received <- delivered
Up == INSTANCE FifoLink WITH sentOn <- offered, received <- taken

\* udp.cpp:277-319 - retransmission and the sequence numbers make the lossy,
\* repeating, reordering network a reliable link each way, continuation packets
\* included: nothing is acted on or read twice or out of order, and between
\* transfers nothing is missing.
LinkIsReliable == Down!LinkSpec /\ Up!LinkSpec /\ []TransferComplete

\* Whatever the network does, a transfer ends, in success or in an error.
UdpTransferEnds == Waiting ~> ~Waiting
============================================================================
