--------------------------- MODULE SessionProofs ---------------------------
(***************************************************************************)
(* What holds of a session for any sizes of buffer, message and image and  *)
(* any number of commands: the state is well typed, every command gets one *)
(* answer, no image that was half received is used, and host and device    *)
(* stay in step.  None is inductive by itself: what has been answered      *)
(* depends on where the handler is, a half-received image is harmless only *)
(* because the ways out of the data phase lead to the end of the session,  *)
(* and whether the two are in step depends on all that is on the wire.     *)
(***************************************************************************)
EXTENDS Session, TLAPS

\* A handler has not answered before its last step, and replied_ agrees.  After
\* it, a command that was not answered is one that AfterCommand answers for.
AnswerInv ==
  /\ answers \in {0, 1}
  /\ replied \in BOOLEAN /\ failed \in BOOLEAN
  /\ pc = "dispatch" => answers = 0 /\ cmd.kind \in Kinds
  /\ pc \in Handling => answers = 0 /\ replied = FALSE
  /\ pc = "silent" => cmd.kind = "silent"
  /\ (pc = "after" /\ failed = FALSE) =>
       \/ answers = 1 /\ replied = TRUE
       \/ answers = 0 /\ replied = FALSE /\ cmd.kind = "silent"
  /\ (pc = "command" /\ cmd # NoCommand /\ failed = FALSE) => answers = 1

\* Where the session may be while the buffer is partly filled: in the data phase,
\* or on its way to the end with a failed transport.
PartialInv ==
  staged = "partial" =>
    \/ pc \in {"data", "stageddata", "ended"}
    \/ pc \in {"shortdata", "after"} /\ failed = TRUE

SessionInv == AnswerInv /\ PartialInv

\* SessionInv holds before the host connects.
LEMMA SessionInvInit == Init => SessionInv
BY DEF Init, SessionInv, AnswerInv, PartialInv, Handling, NoCommand

\* What a reply does to the bookkeeping: an OKAY or FAIL that gets out is counted
\* and noted in replied_, one that does not fails the transport.
Answered ==
  \/ failed' = TRUE /\ answers' = answers /\ replied' = replied
  \/ failed' = failed /\ answers' = answers + 1 /\ replied' = TRUE

\* DATA and payload are not answers.
Announced ==
  failed' \in {TRUE, failed} /\ answers' = answers /\ replied' = replied

\* An OKAY or FAIL that is sent answers the command.
LEMMA SendAnswer ==
  ASSUME NEW type \in {"OKAY", "FAIL"}, Send(type), AnswerInv
  PROVE  Answered
<1>1. CASE SendOk(type)
  BY <1>1 DEF SendOk, Answered, AnswerInv
<1>2. CASE SendFails
  BY <1>2 DEF SendFails, Answered
<1> QED BY <1>1, <1>2 DEF Send

\* DATA and payloads announce an answer still to come.
LEMMA SendData ==
  ASSUME NEW type \in {"DATA", "payload"}, Send(type), AnswerInv
  PROVE  Announced
<1>1. CASE SendOk(type)
  BY <1>1 DEF SendOk, Announced, AnswerInv
<1>2. CASE SendFails
  BY <1>2 DEF SendFails, Announced
<1> QED BY <1>1, <1>2 DEF Send

\* Steps of the host leave the device alone.
LEMMA HostKeeps ==
  ASSUME SessionInv, HostStep
  PROVE  SessionInv'
<1>1. UNCHANGED <<pc, cmd, staged, replied, failed, answers>>
  BY DEF HostStep, RawCommand, HandleResponse, ReadBuffer, SendBuffer, SparseWriteCallback,
         HostVanish
<1> QED BY <1>1 DEF SessionInv, AnswerInv, PartialInv

\* The steps of Read: only a command that was read starts a new count.
LEMMA ReadKeeps ==
  ASSUME SessionInv, ReadHeader \/ ReadClosed \/ ReadCommand \/ ReadNull \/ ReadData
  PROVE  SessionInv'
<1> USE DEF SessionInv, AnswerInv, PartialInv, Handling
<1>1. CASE ReadHeader
  BY <1>1 DEF ReadHeader
<1>2. CASE ReadClosed
  BY <1>2 DEF ReadClosed, transport
<1>3. CASE ReadCommand
  <2>1. UNCHANGED <<staged, replied, failed>> /\ pc = "command"
    BY <1>3 DEF ReadCommand
  <2>2. \/ pc' = "ended" /\ UNCHANGED <<answers, cmd>>
        \/ pc' = "dispatch" /\ answers' = 0 /\ cmd'.kind \in Kinds
    <3>1. \/ pc' = "ended" /\ UNCHANGED <<answers, cmd>>
          \/ /\ pc' = "dispatch" /\ answers' = 0
             /\ \E k \in Kinds : \E m, w : cmd' = [kind |-> k, msg |-> m, whole |-> w]
      BY <1>3, ZenonT(60) DEF ReadCommand
    <3> QED BY <3>1
  <2> QED BY <2>1, <2>2
<1>4. CASE ReadNull
  BY <1>4 DEF ReadNull, transport
<1>5. CASE ReadData
  <2>1. UNCHANGED <<staged, replied, answers, cmd>> /\ pc = "data"
    BY <1>5 DEF ReadData
  <2>2. \/ pc' = "shortdata" /\ failed' = TRUE
        \/ pc' \in {"data", "stageddata"} /\ failed' \in BOOLEAN
    BY <1>5 DEF ReadData
  <2> QED BY <2>1, <2>2
<1> QED BY <1>1, <1>2, <1>3, <1>4, <1>5

\* A step that answers, from where nothing has been answered yet to where the
\* handler is over.
LEMMA AnswerKeeps ==
  ASSUME SessionInv, Answered, answers = 0, staged' \in {"empty", "full", staged},
         staged' = "partial" => failed = TRUE, UNCHANGED cmd,
         pc' = "after" \/ (pc' = "command" /\ staged' # "partial") \/ pc' = "ended"
  PROVE  SessionInv'
<1>a. 0 + 1 = 1
  OBVIOUS
<1>1. /\ answers' \in {0, 1} /\ replied' \in BOOLEAN /\ failed' \in BOOLEAN
      /\ failed = TRUE => failed' = TRUE
      /\ failed' = FALSE => answers' = 1 /\ replied' = TRUE
  <2>1. CASE failed' = TRUE /\ answers' = answers /\ replied' = replied
    BY <2>1 DEF SessionInv, AnswerInv
  <2>2. CASE failed' = failed /\ answers' = answers + 1 /\ replied' = TRUE
    BY <1>a, <2>2, Zenon DEF SessionInv, AnswerInv
  <2> QED BY <2>1, <2>2 DEF Answered
<1>2. AnswerInv'
  BY <1>1 DEF AnswerInv, Handling
<1>3. PartialInv'
  BY <1>1 DEF SessionInv, PartialInv
<1> QED BY <1>2, <1>3 DEF SessionInv

\* Dispatch, the rejection of what is no command, and the handlers that do one
\* thing.
LEMMA HandlersKeep ==
  ASSUME SessionInv,
         Reject \/ Dispatch \/ HandleReply \/ HandleFlash \/ HandleSilent \/ HandleThrows
  PROVE  SessionInv'
<1>a. AnswerInv /\ PartialInv
  BY DEF SessionInv
<1>1. CASE Reject
  <2>1. Answered
    BY <1>1, <1>a, SendAnswer DEF Reject
  <2>2. answers = 0 /\ staged # "partial" /\ UNCHANGED <<cmd, staged>> /\ pc' = "command"
    BY <1>1, <1>a DEF Reject, AnswerInv, PartialInv
  <2> QED BY <2>1, <2>2, AnswerKeeps
<1>2. CASE Dispatch
  BY <1>2 DEF Dispatch, Kinds, transport, SessionInv, AnswerInv, PartialInv, Handling
<1>3. CASE HandleReply
  <2>1. Answered
    BY <1>3, <1>a, SendAnswer DEF HandleReply
  <2>2. answers = 0 /\ staged # "partial" /\ UNCHANGED <<cmd, staged>> /\ pc' = "after"
    BY <1>3, <1>a DEF HandleReply, AnswerInv, PartialInv, Handling
  <2> QED BY <2>1, <2>2, AnswerKeeps
<1>4. CASE HandleFlash
  <2>1. Answered
    BY <1>4, <1>a, SendAnswer DEF HandleFlash
  <2>2. answers = 0 /\ staged # "partial" /\ staged' \in {"empty", staged}
        /\ UNCHANGED cmd /\ pc' = "after"
    BY <1>4, <1>a DEF HandleFlash, AnswerInv, PartialInv, Handling
  <2> QED BY <2>1, <2>2, AnswerKeeps
<1>5. CASE HandleSilent
  BY <1>5 DEF HandleSilent, transport, SessionInv, AnswerInv, PartialInv, Handling
<1>6. CASE HandleThrows
  <2>1. Answered
    BY <1>6, <1>a, SendAnswer DEF HandleThrows
  <2>2. answers = 0 /\ staged # "partial" /\ UNCHANGED <<cmd, staged>> /\ pc' = "ended"
    BY <1>6, <1>a DEF HandleThrows, AnswerInv, PartialInv, Handling
  <2> QED BY <2>1, <2>2, AnswerKeeps
<1> QED BY <1>1, <1>2, <1>3, <1>4, <1>5, <1>6

\* The handlers with a data phase.
LEMMA DownloadKeeps ==
  ASSUME SessionInv, DownloadBegin \/ DownloadEnd
  PROVE  SessionInv'
<1>a. AnswerInv /\ PartialInv
  BY DEF SessionInv
<1>1. CASE DownloadBegin
  <2>1. answers = 0 /\ replied = FALSE /\ staged # "partial" /\ UNCHANGED cmd
    BY <1>1, <1>a DEF DownloadBegin, AnswerInv, PartialInv, Handling
  <2>2. CASE Send("FAIL") /\ pc' = "after" /\ UNCHANGED staged
    <3>1. Answered
      BY <2>2, <1>a, SendAnswer
    <3> QED BY <2>1, <2>2, <3>1, AnswerKeeps
  <2>3. CASE Send("DATA") /\ pc' = IF failed' THEN "after" ELSE "data"
    <3>1. Announced
      BY <2>3, <1>a, SendData
    <3>2. failed' \in BOOLEAN
      BY <3>1, <1>a DEF Announced, AnswerInv
    <3>3. pc' = "data" \/ (pc' = "after" /\ failed' = TRUE)
      BY <2>3, <3>2
    <3> QED BY <2>1, <3>1, <3>2, <3>3 DEF Announced, SessionInv, AnswerInv, PartialInv, Handling
  <2> QED BY <1>1, <2>2, <2>3 DEF DownloadBegin
<1>2. CASE DownloadEnd
  <2>1. answers = 0 /\ UNCHANGED cmd /\ pc' = "after"
    BY <1>2, <1>a DEF DownloadEnd, AnswerInv, Handling
  <2>2. Answered
    BY <1>2, <1>a, SendAnswer DEF DownloadEnd
  <2>3. staged' = "full" \/ (staged' = staged /\ (staged = "partial" => failed = TRUE))
    BY <1>2, <1>a DEF DownloadEnd, PartialInv
  <2> QED BY <2>1, <2>2, <2>3, AnswerKeeps
<1> QED BY <1>1, <1>2

\* upload keeps SessionInv.
LEMMA UploadKeeps ==
  ASSUME SessionInv, Upload
  PROVE  SessionInv'
<1>a. AnswerInv /\ PartialInv
  BY DEF SessionInv
<1>b. pc \in {"upload", "payload", "upfail", "upokay"} /\ UNCHANGED cmd
  BY DEF Upload
<1>c. answers = 0 /\ replied = FALSE /\ staged # "partial"
  BY <1>a, <1>b DEF AnswerInv, PartialInv, Handling
<1>d. staged' \in {"empty", staged}
  BY DEF Upload
<1>1. CASE Send("FAIL") /\ pc' = "after"
  <2>1. Answered
    BY <1>1, <1>a, SendAnswer
  <2> QED BY <1>1, <1>b, <1>c, <1>d, <2>1, AnswerKeeps
<1>2. CASE Send("OKAY") /\ pc' = "after"
  <2>1. Answered
    BY <1>2, <1>a, SendAnswer
  <2> QED BY <1>2, <1>b, <1>c, <1>d, <2>1, AnswerKeeps
<1>3. CASE /\ Send("DATA") \/ Send("payload")
           /\ pc' \in {"payload", "upfail", "upokay"} \/ (pc' = "after" /\ failed' = TRUE)
  <2>1. Announced
    BY <1>3, <1>a, SendData
  <2>2. failed' \in BOOLEAN
    BY <2>1, <1>a DEF Announced, AnswerInv
  <2> QED BY <1>3, <1>b, <1>c, <1>d, <2>1, <2>2
          DEF Announced, SessionInv, AnswerInv, PartialInv, Handling
<1>4. CASE pc = "upload"
  <2>1. CASE Send("DATA") /\ pc' = IF failed' THEN "after" ELSE "payload"
    <3>1. Announced
      BY <2>1, <1>a, SendData
    <3>2. failed' \in BOOLEAN
      BY <3>1, <1>a DEF Announced, AnswerInv
    <3> QED BY <2>1, <3>2, <1>3
  <2> QED BY <1>1, <1>4, <2>1 DEF Upload
<1>5. CASE pc = "payload"
  BY <1>3, <1>5 DEF Upload
<1>6. CASE pc \in {"upfail", "upokay"}
  BY <1>1, <1>2, <1>6 DEF Upload
<1> QED BY <1>b, <1>4, <1>5, <1>6

\* DecideAfterCommand answers for the silent handler, and for no other.
LEMMA AfterKeeps ==
  ASSUME SessionInv, AfterCommand
  PROVE  SessionInv'
<1>a. AnswerInv /\ PartialInv
  BY DEF SessionInv
<1>1. pc = "after" /\ UNCHANGED <<cmd, staged>>
  BY DEF AfterCommand
<1>2. CASE failed /\ pc' = "ended" /\ UNCHANGED <<answers, replied, failed>>
  BY <1>1, <1>2 DEF SessionInv, AnswerInv, PartialInv, Handling
<1>3. CASE /\ ~failed /\ ~replied
           /\ Send("FAIL") /\ pc' = IF failed' THEN "ended" ELSE "command"
  <2>1. Answered
    BY <1>3, <1>a, SendAnswer
  <2>2. failed = FALSE /\ replied = FALSE
    BY <1>3, <1>a DEF AnswerInv
  <2>3. answers = 0 /\ staged # "partial"
    BY <1>1, <1>a, <2>2 DEF AnswerInv, PartialInv
  <2>4. pc' \in {"ended", "command"}
    BY <1>3
  <2> QED BY <1>1, <2>1, <2>3, <2>4, AnswerKeeps
<1>4. CASE /\ ~failed /\ (replied \/ cmd.kind # "silent")
           /\ pc' = "command" /\ UNCHANGED <<answers, replied, failed>>
  <2>1. failed = FALSE /\ (replied = TRUE \/ cmd.kind # "silent")
    BY <1>4, <1>a DEF AnswerInv
  <2>2. answers = 1 /\ staged # "partial"
    BY <1>1, <1>a, <2>1 DEF AnswerInv, PartialInv
  <2> QED BY <1>1, <1>4, <2>2 DEF SessionInv, AnswerInv, PartialInv, Handling
<1> QED BY <1>2, <1>3, <1>4 DEF AfterCommand

\* SessionInv is an invariant of Session.
LEMMA SessionInvHolds == Spec => []SessionInv
<1>1. ASSUME SessionInv, UNCHANGED vars PROVE SessionInv'
  BY <1>1 DEF vars, SessionInv, AnswerInv, PartialInv
<1>2. SessionInv /\ [Next]_vars => SessionInv'
  BY <1>1, HostKeeps, ReadKeeps, HandlersKeep, DownloadKeeps, UploadKeeps, AfterKeeps DEF Next, DeviceStep
<1> QED BY SessionInvInit, <1>2, PTL DEF Spec

\* Every command gets one OKAY or FAIL before the next one is read, unless the
\* transport has failed: for any lengths of messages and any number of commands.
THEOREM EveryCommandOneAnswer == Spec => []OneAnswerEach
<1>1. SessionInv => OneAnswerEach
  BY DEF SessionInv, AnswerInv, OneAnswerEach
<1> QED BY SessionInvHolds, <1>1, PTL

\* No command runs while the buffer holds part of an image, wherever the host
\* vanished and however the image was cut into messages.
THEOREM PartialIsNeverUsed == Spec => []PartialNeverUsed
<1>1. SessionInv => PartialNeverUsed
  BY DEF SessionInv, PartialInv, PartialNeverUsed
<1> QED BY SessionInvHolds, <1>1, PTL
----------------------------------------------------------------------------
\* Type correctness, for any sizes.  TypeOK looks into the two queues element by
\* element; that they are sequences of records is part of the invariant.
Unit == [msg : Nat, at : Nat, len : Nat]
Note == [to : Nat, type : {"OKAY", "FAIL", "DATA", "payload"}]

HostType ==
  /\ host \in {"idle", "waiting", "data", "receiving", "finishing", "gone"}
  /\ sent \in Seq([kind : Kinds, len : 1..MaxLen]) /\ Len(sent) <= MaxCommands
InboxType == inbox \in Seq(Note) /\ \A i \in 1..Len(inbox) : inbox[i].to \in 0..Len(sent)
WireType ==
  /\ wire \in Seq(Unit)
  /\ \A i \in 1..Len(wire) : wire[i].msg \in 0..Len(sent) /\ wire[i].at \in 0..wire[i].len
LinkType ==
  /\ socket \in BOOLEAN /\ downloading \in BOOLEAN
  /\ left \in Nat /\ total \in 0..DataSize
LoopType ==
  /\ pc \in {"command", "dispatch", "after"} \cup Handling \cup Over
  /\ cmd.kind \in Kinds \cup {"none"} /\ cmd.msg \in 0..Len(sent) /\ cmd.whole \in BOOLEAN
  /\ staged \in {"empty", "partial", "full"}
TypeInv == HostType /\ InboxType /\ WireType /\ LinkType /\ LoopType

\* Types, at the start.
LEMMA TypeInvInit == Init => TypeInv
<1> SUFFICES ASSUME Init PROVE TypeInv
  OBVIOUS
<1>1. Len(sent) = 0 /\ sent = <<>>
  BY DEF Init
<1>2. HostType /\ InboxType /\ WireType
  <2>1. host = "idle" /\ inbox = <<>> /\ wire = <<>>
    BY DEF Init
  <2>2. MaxCommands \in Nat
    BY SizesAssumption
  <2>3. HostType
    BY <1>1, <2>1, <2>2 DEF HostType
  <2>4. InboxType
    BY <2>1 DEF InboxType
  <2>5. WireType
    BY <2>1 DEF WireType
  <2> QED BY <2>3, <2>4, <2>5
<1>3. LinkType
  <2>1. socket \in BOOLEAN /\ downloading \in BOOLEAN
    BY Zenon DEF Init
  <2>2. left \in Nat /\ total \in 0..DataSize
    <3>1. left = 0 /\ total = 0
      BY DEF Init
    <3> QED BY <3>1, SizesAssumption
  <2> QED BY <2>1, <2>2 DEF LinkType
<1>4. LoopType
  <2>1. pc = "command" /\ staged = "empty" /\ cmd = NoCommand
    BY DEF Init
  <2>2. cmd.kind = "none" /\ cmd.msg = 0 /\ cmd.whole = TRUE
    BY <2>1 DEF NoCommand, DataMsg
  <2>3. cmd.whole \in BOOLEAN /\ cmd.kind \in Kinds \cup {"none"}
    BY <2>2, Zenon
  <2>4. cmd.msg \in 0..Len(sent)
    BY <1>1, <2>2
  <2> QED BY <2>1, <2>3, <2>4 DEF LoopType
<1> QED BY <1>2, <1>3, <1>4 DEF TypeInv

\* A message on the wire, unit by unit.
LEMMA Messages ==
  ASSUME NEW m \in Nat, NEW n \in Nat
  PROVE  /\ Message(m, n) \in Seq(Unit) /\ Len(Message(m, n)) = n + 1
         /\ \A i \in 1..(n + 1) : Message(m, n)[i] = [msg |-> m, at |-> i - 1, len |-> n]
<1>1. \A i \in 1..(n + 1) : Message(m, n)[i] = [msg |-> m, at |-> i - 1, len |-> n]
  BY DEF Message
<1>2. \A i \in 1..(n + 1) : [msg |-> m, at |-> i - 1, len |-> n] \in Unit
  BY DEF Unit
<1>3. Message(m, n) \in [1..(n + 1) -> Unit] /\ n + 1 \in Nat
  BY <1>2 DEF Message
<1>4. Message(m, n) \in Seq(Unit) /\ Len(Message(m, n)) = n + 1
  BY <1>3
<1> QED BY <1>1, <1>4

\* The units of a message that was sent are of a known message.
LEMMA KnownMessage ==
  ASSUME NEW m \in Nat, NEW n \in Nat, NEW c \in Nat, m <= c
  PROVE  \A i \in 1..Len(Message(m, n)) :
            Message(m, n)[i].msg \in 0..c /\ Message(m, n)[i].at \in 0..Message(m, n)[i].len
<1> TAKE i \in 1..Len(Message(m, n))
<1>1. i \in 1..(n + 1)
  BY Messages
<1>2. Message(m, n)[i] = [msg |-> m, at |-> i - 1, len |-> n]
  BY <1>1, Messages, ZenonT(60)
<1> QED BY <1>1, <1>2

\* So are those of a download.
LEMMA DataKnown ==
  ASSUME NEW n \in Nat, NEW c \in Nat
  PROVE  /\ Message(DataMsg, n) \in Seq(Unit)
         /\ \A i \in 1..Len(Message(DataMsg, n)) :
              /\ Message(DataMsg, n)[i].msg \in 0..c
              /\ Message(DataMsg, n)[i].at \in 0..Message(DataMsg, n)[i].len
<1>1. DataMsg \in Nat /\ DataMsg <= c
  BY DEF DataMsg
<1>2. Message(DataMsg, n) \in Seq(Unit)
  BY <1>1, Messages
<1> HIDE DEF DataMsg
<1> QED BY <1>1, <1>2, KnownMessage

\* And those of two stretches of the wire together.
LEMMA Joined ==
  ASSUME NEW v \in Seq(Unit), NEW w \in Seq(Unit), NEW c \in Nat,
         \A i \in 1..Len(v) : v[i].msg \in 0..c /\ v[i].at \in 0..v[i].len,
         \A i \in 1..Len(w) : w[i].msg \in 0..c /\ w[i].at \in 0..w[i].len
  PROVE  /\ v \o w \in Seq(Unit)
         /\ \A i \in 1..Len(v \o w) : (v \o w)[i].msg \in 0..c /\ (v \o w)[i].at \in 0..(v \o w)[i].len
<1>1. v \o w \in Seq(Unit) /\ Len(v \o w) = Len(v) + Len(w) /\ Len(v) \in Nat /\ Len(w) \in Nat
  OBVIOUS
<1>2. ASSUME NEW i \in 1..Len(v \o w)
      PROVE  (v \o w)[i].msg \in 0..c /\ (v \o w)[i].at \in 0..(v \o w)[i].len
  <2>1. CASE i <= Len(v)
    <3>1. i \in 1..Len(v) /\ (v \o w)[i] = v[i]
      BY <1>1, <2>1
    <3> QED BY <3>1
  <2>2. CASE i > Len(v)
    <3>1. i - Len(v) \in 1..Len(w) /\ (v \o w)[i] = w[i - Len(v)]
      BY <1>1, <2>2
    <3> QED BY <3>1
  <2> QED BY <1>1, <2>1, <2>2
<1> QED BY <1>1, <1>2

\* What ReceiveAll gets is no more than was asked for or has arrived.
LEMMA Receives ==
  ASSUME WireType, NEW n \in Nat
  PROVE  /\ Received(n) \in 0..n /\ Received(n) <= Len(wire)
         /\ Received(n) > 0 => Len(wire) > 0 /\ wire[1].at # 0
<1>1. Len(wire) \in Nat
  BY DEF WireType
<1>2. Arrived \in 0..Len(wire) /\ (Arrived > 0 => Len(wire) > 0 /\ wire[1].at # 0)
  BY <1>1 DEF Arrived, WireType
<1> QED BY <1>1, <1>2 DEF Received

\* Sending keeps the types.
LEMMA SendTypes ==
  ASSUME TypeInv, NEW type \in {"OKAY", "FAIL", "DATA", "payload"}, Send(type), UNCHANGED sent
  PROVE  InboxType' /\ socket' \in BOOLEAN /\ downloading' \in BOOLEAN
<1>1. CASE SendOk(type)
  <2>1. socket' \in BOOLEAN /\ downloading' \in BOOLEAN
    BY <1>1 DEF SendOk, TypeInv, LinkType
  <2>2. CASE inbox' = inbox
    BY <2>1, <2>2 DEF TypeInv, InboxType
  <2>3. CASE inbox' = Append(inbox, [to |-> cmd.msg, type |-> type])
    <3>1. cmd.msg \in 0..Len(sent) /\ [to |-> cmd.msg, type |-> type] \in Note
      BY DEF TypeInv, LoopType, HostType, Note
    <3> QED BY <2>1, <2>3, <3>1 DEF TypeInv, InboxType
  <2> QED BY <1>1, <2>2, <2>3 DEF SendOk
<1>2. CASE SendFails
  BY <1>2 DEF SendFails, TypeInv, InboxType, LinkType
<1> QED BY <1>1, <1>2 DEF Send

\* The steps of the host keep the types.
LEMMA HostTypes ==
  ASSUME TypeInv, HostStep
  PROVE  TypeInv'
<1>a. UNCHANGED <<transport, pc, cmd, staged>>
  BY DEF HostStep, RawCommand, HandleResponse, ReadBuffer, SendBuffer, SparseWriteCallback, HostVanish
<1>b. LinkType'
  BY <1>a DEF TypeInv, LinkType, transport
<1>c. ASSUME UNCHANGED sent PROVE LoopType'
  BY <1>a, <1>c DEF TypeInv, LoopType
<1>d. sent \in Seq([kind : Kinds, len : 1..MaxLen]) /\ Len(sent) \in Nat
  BY DEF TypeInv, HostType
<1>1. ASSUME NEW k \in Kinds, NEW n \in 1..MaxLen, RawCommand(k, n) PROVE TypeInv'
  <2>1. sent' = Append(sent, [kind |-> k, len |-> n]) /\ host' = "waiting" /\ inbox' = inbox
        /\ Len(sent) < MaxCommands /\ wire' = wire \o Message(Len(sent) + 1, n)
    BY <1>1 DEF RawCommand
  <2>2. Len(sent') = Len(sent) + 1
    BY <2>1, <1>d
  <2>3. HostType'
    BY <2>1, <2>2, <1>d, SizesAssumption DEF HostType
  <2>4. InboxType'
    BY <2>1, <2>2, <1>d, SMTT(40) DEF TypeInv, InboxType
  <2>5. WireType'
    <3>1. n \in Nat /\ Len(sent) + 1 \in Nat
      BY <1>d, SizesAssumption
    <3> DEFINE c == Len(sent) + 1
               msg == Message(c, n)
    <3>2. /\ msg \in Seq(Unit)
          /\ \A i \in 1..Len(msg) : msg[i].msg \in 0..c /\ msg[i].at \in 0..msg[i].len
      <4>1. c \in Nat /\ n \in Nat /\ c <= c
        BY <3>1
      <4> HIDE DEF c
      <4>2. msg \in Seq(Unit)
        BY <4>1, Messages
      <4> QED BY <4>1, <4>2, KnownMessage
    <3>3. wire \in Seq(Unit) /\ \A i \in 1..Len(wire) : wire[i].msg \in 0..c /\ wire[i].at \in 0..wire[i].len
      BY <3>1, <1>d DEF TypeInv, WireType
    <3>4. wire' = wire \o msg /\ Len(sent') = c /\ c \in Nat
      BY <2>1, <2>2, <3>1
    <3> HIDE DEF msg, c
    <3> QED BY <3>2, <3>3, <3>4, Joined DEF WireType
  <2>6. LoopType'
    BY <1>a, <2>2, <1>d DEF TypeInv, LoopType
  <2> QED BY <2>3, <2>4, <2>5, <2>6, <1>b DEF TypeInv
<1>2. ASSUME HandleResponse \/ ReadBuffer PROVE TypeInv'
  <2>1. inbox # <<>> /\ inbox' = Tail(inbox) /\ UNCHANGED <<sent, wire>>
    BY <1>2 DEF HandleResponse, ReadBuffer
  <2>2. host' \in {"idle", "waiting", "data", "receiving", "finishing", "gone"}
    <3>1. CASE ReadBuffer
      BY <3>1 DEF ReadBuffer
    <3>2. CASE HandleResponse
      BY <3>2 DEF HandleResponse, DownloadNext, UploadNext
    <3> QED BY <1>2, <3>1, <3>2
  <2>3. InboxType'
    BY <2>1 DEF TypeInv, InboxType
  <2> QED BY <2>1, <2>2, <2>3, <1>b, <1>c DEF TypeInv, HostType, WireType
<1>3. ASSUME SendBuffer PROVE TypeInv'
  <2>1. wire' = wire \o Message(DataMsg, DataSize) /\ host' = "finishing" /\ UNCHANGED <<sent, inbox>>
    BY <1>3 DEF SendBuffer
  <2>2. WireType'
    <3> DEFINE msg == Message(DataMsg, DataSize)
    <3>1. DataSize \in Nat
      BY SizesAssumption
    <3>2. /\ msg \in Seq(Unit)
          /\ \A i \in 1..Len(msg) : msg[i].msg \in 0..Len(sent) /\ msg[i].at \in 0..msg[i].len
      BY <3>1, <1>d, DataKnown
    <3>3. wire' = wire \o msg
      BY <2>1
    <3> HIDE DEF msg
    <3> QED BY <2>1, <3>2, <3>3, <1>d, Joined DEF TypeInv, WireType
  <2> QED BY <2>1, <2>2, <1>b, <1>c DEF TypeInv, HostType, InboxType
<1>4. ASSUME NEW cut \in 1..(DataSize - 1), SparseWriteCallback(cut) PROVE TypeInv'
  <2>1. wire' = wire \o Message(DataMsg, cut) \o Message(DataMsg, DataSize - cut)
        /\ host' = "finishing" /\ UNCHANGED <<sent, inbox>>
    BY <1>4, SMTT(40) DEF SparseWriteCallback
  <2>2. WireType'
    <3> DEFINE a == Message(DataMsg, cut)
               b == Message(DataMsg, DataSize - cut)
               w == wire \o a
    <3>1. cut \in Nat /\ DataSize - cut \in Nat
      BY SizesAssumption
    <3>2. /\ a \in Seq(Unit)
          /\ \A i \in 1..Len(a) : a[i].msg \in 0..Len(sent) /\ a[i].at \in 0..a[i].len
      BY <3>1, <1>d, DataKnown
    <3>3. /\ b \in Seq(Unit)
          /\ \A i \in 1..Len(b) : b[i].msg \in 0..Len(sent) /\ b[i].at \in 0..b[i].len
      <4> DEFINE d == DataSize - cut
      <4>1. d \in Nat
        BY <3>1
      <4> HIDE DEF d
      <4>2. /\ Message(DataMsg, d) \in Seq(Unit)
            /\ \A i \in 1..Len(Message(DataMsg, d)) :
                  /\ Message(DataMsg, d)[i].msg \in 0..Len(sent)
                  /\ Message(DataMsg, d)[i].at \in 0..Message(DataMsg, d)[i].len
        BY <4>1, <1>d, DataKnown
      <4> QED BY <4>2 DEF d
    <3>4. wire' = w \o b
      BY <2>1
    <3> HIDE DEF a, b
    <3>5. /\ w \in Seq(Unit)
          /\ \A i \in 1..Len(w) : w[i].msg \in 0..Len(sent) /\ w[i].at \in 0..w[i].len
      BY <3>2, <1>d, Joined DEF TypeInv, WireType
    <3> HIDE DEF w
    <3> QED BY <2>1, <3>3, <3>4, <3>5, <1>d, Joined, ZenonT(60) DEF WireType
  <2> QED BY <2>1, <2>2, <1>b, <1>c DEF TypeInv, HostType, InboxType
<1>5. ASSUME HostVanish PROVE TypeInv'
  <2>1. PICK n \in 0..Len(wire) : wire' = SubSeq(wire, 1, n)
    BY <1>5 DEF HostVanish
  <2>2. host' = "gone" /\ inbox' = <<>> /\ UNCHANGED sent
    BY <1>5 DEF HostVanish
  <2>3. WireType'
    BY <2>1, <2>2 DEF TypeInv, WireType
  <2> QED BY <2>2, <2>3, <1>b, <1>c DEF TypeInv, HostType, InboxType
<1> QED BY <1>1, <1>2, <1>3, <1>4, <1>5 DEF HostStep

\* A step that takes got units off the front of the wire.
LEMMA Taken ==
  ASSUME WireType, NEW got \in 0..Len(wire), wire' = SubSeq(wire, got + 1, Len(wire)), UNCHANGED sent
  PROVE  WireType'
<1>1. wire \in Seq(Unit) /\ Len(wire) \in Nat
  BY DEF WireType
<1>2. wire' \in Seq(Unit) /\ Len(wire') = Len(wire) - got
  BY <1>1
<1>3. \A i \in 1..Len(wire') : i + got \in 1..Len(wire) /\ wire'[i] = wire[i + got]
  BY <1>1, <1>2
<1> QED BY <1>2, <1>3 DEF WireType

\* Reading from the wire keeps the types.
LEMMA ReadTypes ==
  ASSUME TypeInv, ReadHeader \/ ReadClosed \/ ReadCommand \/ ReadNull \/ ReadData
  PROVE  TypeInv'
<1>a. UNCHANGED <<host, sent, inbox, downloading, staged>>
  BY DEF ReadHeader, ReadClosed, ReadCommand, ReadNull, ReadData, transport
<1>b. HostType' /\ InboxType'
  BY <1>a DEF TypeInv, HostType, InboxType
<1>c. wire \in Seq(Unit) /\ Len(wire) \in Nat /\ left \in Nat /\ total \in Nat /\ total <= DataSize /\ DataSize \in Nat
  BY SizesAssumption DEF TypeInv, WireType, LinkType
<1>1. CASE ReadHeader
  <2>1. UNCHANGED <<total, cmd>>
    BY <1>1 DEF ReadHeader
  <2>2. CASE wire # <<>> /\ left' = wire[1].len /\ wire' = Tail(wire) /\ UNCHANGED <<socket, pc>>
    <3>1. Len(wire) > 0 /\ wire[1] \in Unit
      BY <1>c, <2>2
    <3>2. left' \in Nat
      BY <2>2, <3>1 DEF Unit
    <3>3. wire' \in Seq(Unit) /\ Len(wire') = Len(wire) - 1 /\ \A i \in 1..Len(wire') : wire'[i] = wire[i + 1]
      BY <1>c, <2>2, <3>1
    <3>4. WireType'
      BY <1>a, <1>c, <3>1, <3>3, SMTT(40) DEF TypeInv, WireType
    <3> QED BY <1>a, <1>b, <2>1, <2>2, <3>2, <3>4 DEF TypeInv, LinkType, LoopType
  <2>3. CASE socket' = FALSE /\ pc' = (IF pc = "data" THEN "shortdata" ELSE pc) /\ UNCHANGED <<left, wire>>
    BY <1>a, <1>b, <2>1, <2>3 DEF TypeInv, LinkType, LoopType, WireType, Handling
  <2> QED BY <1>1, <2>2, <2>3 DEF ReadHeader
<1>2. CASE ReadClosed \/ ReadNull
  BY <1>2, <1>a, <1>b DEF ReadClosed, ReadNull, TypeInv, LinkType, LoopType, WireType, Over, transport
<1>3. CASE ReadCommand
  <2> DEFINE want == IF left < Cap THEN left ELSE Cap
             got == Received(want)
  <2>1. UNCHANGED total
    BY <1>3 DEF ReadCommand
  <2>2. CASE socket' = FALSE /\ pc' = "ended" /\ UNCHANGED <<left, wire, cmd>>
    BY <2>1, <2>2, <1>a, <1>b DEF TypeInv, LinkType, LoopType, WireType, Over
  <2>3. CASE /\ got > 0 /\ left' = left - got /\ wire' = SubSeq(wire, got + 1, Len(wire))
             /\ pc' = "dispatch" /\ UNCHANGED socket
             /\ \E k \in Kinds : cmd' = [kind |-> k, msg |-> wire[1].msg,
                                         whole |-> wire[1].at = 1 /\ got = wire[1].len]
    <3>1. want \in Nat /\ want <= left
      BY <1>c, SizesAssumption
    <3> HIDE DEF want
    <3>2. got \in 0..want /\ got <= Len(wire) /\ Len(wire) > 0
      BY <2>3, <3>1, Receives DEF TypeInv
    <3> HIDE DEF got
    <3>3. WireType'
      BY <2>3, <3>2, <1>a, <1>c, Taken DEF TypeInv
    <3>4. left' \in Nat
      BY <2>3, <3>1, <3>2, <1>c
    <3>5. wire[1].msg \in 0..Len(sent)
      BY <3>2, <1>c DEF TypeInv, WireType
    <3>6. PICK k \in Kinds : cmd' = [kind |-> k, msg |-> wire[1].msg,
                                     whole |-> wire[1].at = 1 /\ got = wire[1].len]
      BY <2>3
    <3>7. cmd'.kind \in Kinds /\ cmd'.msg \in 0..Len(sent) /\ cmd'.whole \in BOOLEAN
      BY <3>5, <3>6
    <3> QED BY <2>1, <2>3, <3>3, <3>4, <3>7, <1>a, <1>b DEF TypeInv, LinkType, LoopType
  <2> QED BY <1>3, <2>2, <2>3, ZenonT(60) DEF ReadCommand
<1>4. CASE ReadData
  <2> DEFINE want == IF left < DataSize - total THEN left ELSE DataSize - total
             got == Received(want)
  <2>1. /\ left' = left - got /\ total' = total + got
        /\ wire' = SubSeq(wire, got + 1, Len(wire))
        /\ socket' \in BOOLEAN /\ pc' \in {"shortdata", "stageddata", "data"} /\ UNCHANGED cmd
    BY <1>4 DEF ReadData
  <2>2. want \in Nat /\ want <= left /\ want <= DataSize - total
    BY <1>c
  <2> HIDE DEF want
  <2>3. got \in 0..want /\ got <= Len(wire)
    BY <2>2, Receives DEF TypeInv
  <2> HIDE DEF got
  <2>4. WireType'
    BY <2>1, <2>3, <1>a, <1>c, Taken DEF TypeInv
  <2>5. left' \in Nat /\ total' \in 0..DataSize
    BY <2>1, <2>2, <2>3, <1>c
  <2> QED BY <2>1, <2>4, <2>5, <1>a, <1>b DEF TypeInv, LinkType, LoopType, Handling
<1> QED BY <1>1, <1>2, <1>3, <1>4

\* The handlers send at most one thing and leave the wire alone.
LEMMA HandlerTypes ==
  ASSUME TypeInv, SessionInv,
         \/ Reject \/ Dispatch \/ HandleReply \/ HandleFlash \/ HandleSilent
         \/ HandleThrows \/ DownloadBegin \/ DownloadEnd \/ Upload \/ AfterCommand
  PROVE  TypeInv'
<1>a. UNCHANGED <<host, sent, wire, left, cmd>>
  BY DEF Reject, Dispatch, HandleReply, HandleFlash, HandleSilent, HandleThrows, DownloadBegin,
         DownloadEnd, Upload, AfterCommand, transport
<1>b. HostType' /\ WireType'
  BY <1>a DEF TypeInv, HostType, WireType
<1>c. total' \in {0, total}
  BY DEF Reject, Dispatch, HandleReply, HandleFlash, HandleSilent, HandleThrows, DownloadBegin,
         DownloadEnd, Upload, AfterCommand, transport
<1>d. staged' \in {"empty", "partial", "full"}
  BY DEF TypeInv, LoopType, Reject, Dispatch, HandleReply, HandleFlash, HandleSilent, HandleThrows,
         DownloadBegin, DownloadEnd, Upload, AfterCommand
<1>e. pc' \in {"command", "dispatch", "after"} \cup Handling \cup Over
  <2>1. CASE Dispatch
    <3>1. cmd.kind \in Kinds \ {"unknown"} /\ pc' = cmd.kind
      BY <2>1 DEF Dispatch, SessionInv, AnswerInv
    <3> QED BY <3>1 DEF Kinds, Handling
  <2> QED BY <2>1 DEF Reject, HandleReply, HandleFlash, HandleSilent, HandleThrows, DownloadBegin,
                      DownloadEnd, Upload, AfterCommand, Handling, Over
<1>f. InboxType' /\ socket' \in BOOLEAN /\ downloading' \in BOOLEAN
  <2>1. CASE UNCHANGED <<inbox, socket, downloading>>
    BY <2>1, <1>a DEF TypeInv, InboxType, LinkType
  <2>2. CASE \E type \in {"OKAY", "FAIL", "DATA", "payload"} : Send(type)
    BY <2>2, <1>a, SendTypes
  <2>3. CASE Dispatch \/ HandleSilent
    BY <2>1, <2>3 DEF Dispatch, HandleSilent, transport
  <2>4. CASE Reject \/ HandleReply \/ HandleFlash \/ HandleThrows \/ DownloadBegin \/ DownloadEnd \/ Upload
    BY <2>2, <2>4 DEF Reject, HandleReply, HandleFlash, HandleThrows, DownloadBegin, DownloadEnd, Upload
  <2>5. CASE AfterCommand
    BY <2>1, <2>2, <2>5 DEF AfterCommand
  <2> QED BY <2>3, <2>4, <2>5
<1>g. LinkType'
  BY <1>a, <1>c, <1>f, SizesAssumption DEF TypeInv, LinkType
<1>h. LoopType'
  BY <1>a, <1>d, <1>e DEF TypeInv, LoopType
<1> QED BY <1>b, <1>f, <1>g, <1>h DEF TypeInv

\* The types hold throughout.
LEMMA TypeInvHolds == Spec => []TypeInv
<1>1. ASSUME TypeInv, UNCHANGED vars PROVE TypeInv'
  BY <1>1 DEF vars, transport, TypeInv, HostType, InboxType, WireType, LinkType, LoopType
<1>2. TypeInv /\ SessionInv /\ [Next]_vars => TypeInv'
  BY <1>1, HostTypes, ReadTypes, HandlerTypes DEF Next, DeviceStep
<1> QED BY TypeInvInit, SessionInvHolds, <1>2, PTL DEF Spec

\* Every variable has its type: in particular message_bytes_left_ and total_read
\* are never driven below zero or past the buffer, whatever message the counts
\* were taken from and wherever it was cut off.
THEOREM SessionTypes == Spec => []TypeOK
<1>1. TypeInv /\ SessionInv => TypeOK
  <2> SUFFICES ASSUME TypeInv, SessionInv PROVE TypeOK
    OBVIOUS
  <2>1. \A i \in 1..Len(inbox) : inbox[i].to \in 0..Len(sent)
                                 /\ inbox[i].type \in {"OKAY", "FAIL", "DATA", "payload"}
    <3>1. \A i \in 1..Len(inbox) : inbox[i] \in Note
      BY DEF TypeInv, InboxType
    <3> QED BY <3>1 DEF TypeInv, InboxType, Note
  <2>2. replied \in BOOLEAN /\ failed \in BOOLEAN /\ answers \in Nat
    BY DEF SessionInv, AnswerInv
  <2> QED BY <2>1, <2>2 DEF TypeInv, HostType, WireType, LinkType, LoopType, TypeOK
<1> QED BY TypeInvHolds, SessionInvHolds, <1>1, PTL

----------------------------------------------------------------------------
(***************************************************************************)
(* The host and the device in step.  InStep speaks of replies only; what   *)
(* makes it true is a conversation in phases, each of which says where     *)
(* both sides are, what is on the wire and what is in the inbox.  While    *)
(* the host is there and its commands fit the buffer, the two are always   *)
(* in one of them.                                                         *)
(***************************************************************************)
Fits == \A i \in 1..Len(sent) : sent[i].len <= Cap

\* w is the message m of n units from its unit k on: k = 0 is the header.
Carries(w, m, n, k) ==
  /\ Len(w) = n + 1 - k
  /\ \A i \in 1..Len(w) : w[i] = [msg |-> m, at |-> i - 1 + k, len |-> n]

\* w is the two data messages of SparseWriteCallback, the first from unit k on.
CarriesTwo(w, n, k) ==
  /\ Len(w) = (n + 1 - k) + (DataSize - n + 1)
  /\ \A i \in 1..(n + 1 - k) : w[i] = [msg |-> DataMsg, at |-> i - 1 + k, len |-> n]
  /\ \A i \in (n + 2 - k)..Len(w) :
        w[i] = [msg |-> DataMsg, at |-> i - (n + 2 - k), len |-> DataSize - n]

Reply(t) == [to |-> Len(sent), type |-> t]
Asked == sent[Len(sent)]          \* the last command
Silence == left = 0 /\ Len(wire) = 0
\* The device is through with a command, or with all of them.
Free == pc \in {"command", "ended"} \/ (pc = "after" /\ replied = TRUE)
\* The device handles the last command.
Serving == Len(sent) > 0 /\ cmd.msg = Len(sent) /\ cmd.kind = Asked.kind

Resting == host = "idle" /\ inbox = <<>> /\ Silence /\ Free
CommandSent ==
  /\ host = "waiting" /\ inbox = <<>> /\ Len(sent) > 0
  /\ \/ left = 0 /\ Carries(wire, Len(sent), Asked.len, 0) /\ Free
     \/ left = Asked.len /\ Carries(wire, Len(sent), Asked.len, 1) /\ pc = "command"
Served ==
  /\ host = "waiting" /\ inbox = <<>> /\ Silence /\ Serving
  /\ \/ pc = "dispatch"
     \/ pc \in Kinds \ {"unknown"} /\ pc = cmd.kind
     \/ pc = "after" /\ replied = FALSE /\ cmd.kind = "silent"
ReplySent ==
  /\ Silence /\ Free /\ Len(sent) > 0
  /\ \/ host = "finishing" /\ inbox \in {<<Reply("OKAY")>>, <<Reply("FAIL")>>}
     \/ host = "waiting" /\ inbox = <<Reply("FAIL")>>
     \/ host = "waiting" /\ inbox = <<Reply("OKAY")>> /\ Asked.kind # "download"
DataAsked ==
  /\ pc = "data" /\ Silence /\ total = 0 /\ Serving /\ Asked.kind = "download"
  /\ \/ host = "waiting" /\ inbox = <<Reply("DATA")>>
     \/ host = "data" /\ inbox = <<>>
DataSent ==
  /\ host = "finishing" /\ inbox = <<>> /\ Serving
  /\ \/ pc = "stageddata" /\ Silence
     \/ /\ pc = "data"
        /\ total \in 0..(DataSize - 1)
        /\ \/ left = 0 /\ Carries(wire, DataMsg, DataSize - total, 0)
           \/ left = DataSize - total /\ Carries(wire, DataMsg, DataSize - total, 1)
           \/ total = 0 /\ left = 0 /\ \E n \in 1..(DataSize - 1) : CarriesTwo(wire, n, 0)
           \/ total = 0 /\ left \in 1..(DataSize - 1) /\ CarriesTwo(wire, left, 1)
Uploading ==
  /\ Silence /\ Serving /\ Asked.kind = "upload"
  /\ \/ /\ pc = "payload"
        /\ \/ host = "waiting" /\ inbox = <<Reply("DATA")>>
           \/ host = "receiving" /\ inbox = <<>>
     \/ /\ pc = "upokay"
        /\ \/ host = "waiting" /\ inbox = <<Reply("DATA"), Reply("payload")>>
           \/ host = "receiving" /\ inbox = <<Reply("payload")>>
           \/ host = "finishing" /\ inbox = <<>>
     \/ /\ Free
        /\ \/ host = "waiting" /\ inbox = <<Reply("DATA"), Reply("payload"), Reply("OKAY")>>
           \/ host = "receiving" /\ inbox = <<Reply("payload"), Reply("OKAY")>>

Conversation ==
  \/ Resting \/ CommandSent \/ Served \/ ReplySent \/ DataAsked \/ DataSent \/ Uploading

SyncInv ==
  /\ pc = "data" => total < DataSize
  /\ Gone => inbox = <<>>
  /\ ~Gone => socket = TRUE /\ failed = FALSE
  /\ (Fits /\ ~Gone) => Conversation

\* Host and device start in step.
LEMMA SyncInit == Init => SyncInv
BY SizesAssumption DEF Init, SyncInv, Gone, Conversation, Resting, Silence, Free

\* A command that no longer fits leaves the host's promise broken for good.
LEMMA FitsBefore ==
  ASSUME TypeInv, Fits', UNCHANGED sent \/ \E r : sent' = Append(sent, r)
  PROVE  Fits
<1>1. sent \in Seq([kind : Kinds, len : 1..MaxLen]) /\ Len(sent) \in Nat
  BY DEF TypeInv, HostType
<1>2. CASE UNCHANGED sent
  BY <1>2 DEF Fits
<1>3. CASE \E r : sent' = Append(sent, r)
  <2>1. PICK r : sent' = Append(sent, r)
    BY <1>3
  <2>2. \A i \in 1..Len(sent) : i \in 1..Len(sent') /\ sent'[i] = sent[i]
    BY <1>1, <2>1
  <2> QED BY <2>2 DEF Fits
<1> QED BY <1>2, <1>3

\* The inbox is at most three replies long.
LEMMA Inbox ==
  ASSUME NEW a, NEW b, NEW c
  PROVE  /\ Head(<<a>>) = a /\ Head(<<a, b>>) = a /\ Head(<<a, b, c>>) = a
         /\ Tail(<<a>>) = <<>> /\ Tail(<<a, b>>) = <<b>> /\ Tail(<<a, b, c>>) = <<b, c>>
OBVIOUS

\* Sequences of up to three answers, spelled out.
LEMMA InboxGrows ==
  \A a, b, c : /\ Append(<<>>, a) = <<a>> /\ Append(<<a>>, b) = <<a, b>>
               /\ Append(<<a, b>>, c) = <<a, b, c>>
<1> TAKE a, b, c
<1> DEFINE S == {a, b, c}
<1>1. ASSUME NEW s \in Seq(S), NEW t \in Seq(S), Len(s) = Len(t), \A i \in 1..Len(s) : s[i] = t[i]
      PROVE  s = t
  BY <1>1
<1>2. Append(<<a>>, b) = <<a, b>>
  <2>1. <<a>> \in Seq(S) /\ <<a, b>> \in Seq(S) /\ Append(<<a>>, b) \in Seq(S)
    OBVIOUS
  <2>2. Len(Append(<<a>>, b)) = 2 /\ Append(<<a>>, b)[1] = a /\ Append(<<a>>, b)[2] = b
    OBVIOUS
  <2>3. Len(<<a, b>>) = 2 /\ \A i \in 1..2 : i = 1 \/ i = 2
    OBVIOUS
  <2>4. \A i \in 1..2 : Append(<<a>>, b)[i] = <<a, b>>[i]
    BY <2>2, <2>3
  <2> QED BY <2>1, <2>2, <2>3, <2>4, <1>1
<1>3. Append(<<a, b>>, c) = <<a, b, c>>
  <2>1. <<a, b>> \in Seq(S) /\ <<a, b, c>> \in Seq(S) /\ Append(<<a, b>>, c) \in Seq(S)
    OBVIOUS
  <2>2. Len(Append(<<a, b>>, c)) = 3 /\ Append(<<a, b>>, c)[1] = a
        /\ Append(<<a, b>>, c)[2] = b /\ Append(<<a, b>>, c)[3] = c
    OBVIOUS
  <2>3. Len(<<a, b, c>>) = 3 /\ \A i \in 1..3 : i = 1 \/ i = 2 \/ i = 3
    OBVIOUS
  <2>4. \A i \in 1..3 : Append(<<a, b>>, c)[i] = <<a, b, c>>[i]
    BY <2>2, <2>3
  <2> QED BY <2>1, <2>2, <2>3, <2>4, <1>1
<1> QED BY <1>2, <1>3

\* What the host makes of a status, by what it waits for.
LEMMA Heard ==
  ASSUME HandleResponse, NEW t \in {"OKAY", "FAIL", "DATA"}, Head(inbox).type = t
  PROVE  /\ inbox' = Tail(inbox) /\ UNCHANGED <<sent, wire>>
         /\ host = "finishing" => host' = "idle"
         /\ (host = "waiting" /\ t = "FAIL") => host' = "idle"
         /\ (host = "waiting" /\ t = "OKAY" /\ Asked.kind # "download") => host' = "idle"
         /\ (host = "waiting" /\ t = "DATA" /\ Asked.kind = "download") => host' = "data"
         /\ (host = "waiting" /\ t = "DATA" /\ Asked.kind = "upload") => host' = "receiving"
BY DEF HandleResponse, Asked, DownloadNext, UploadNext

\* The steps of the host keep the two in step.
LEMMA HostSync ==
  ASSUME TypeInv, SessionInv, SyncInv, HostStep
  PROVE  SyncInv'
<1>a. UNCHANGED <<transport, pc, cmd, staged, replied, failed>>
  BY DEF HostStep, RawCommand, HandleResponse, ReadBuffer, SendBuffer, SparseWriteCallback, HostVanish
<1>b. /\ sent \in Seq([kind : Kinds, len : 1..MaxLen]) /\ Len(sent) \in Nat
      /\ wire \in Seq(Unit) /\ Len(wire) \in Nat /\ DataSize \in Nat \ {0}
  BY SizesAssumption DEF TypeInv, HostType, WireType
<1>c. (pc = "data" => total < DataSize)'
  BY <1>a DEF SyncInv, transport
<1>1. CASE HostVanish
  BY <1>1, <1>c DEF HostVanish, SyncInv, Gone
<1>2. ASSUME ~HostVanish PROVE ~Gone /\ ~Gone' /\ UNCHANGED <<socket, failed>>
  BY <1>2, <1>a DEF Gone, transport, HostStep, RawCommand, HandleResponse, ReadBuffer, SendBuffer, SparseWriteCallback,
                    DownloadNext, UploadNext
<1> SUFFICES ASSUME ~HostVanish, Fits' PROVE Conversation'
  BY <1>1, <1>2, <1>c DEF SyncInv
<1>3. Fits
  BY FitsBefore DEF HostStep, RawCommand, HandleResponse, ReadBuffer, SendBuffer, SparseWriteCallback, HostVanish
<1>4. Conversation /\ ~Gone
  BY <1>2, <1>3 DEF SyncInv
<1>5. ASSUME NEW k \in Kinds, NEW n \in 1..MaxLen, RawCommand(k, n) PROVE Conversation'
  <2>1. Resting
    BY <1>4, <1>5 DEF RawCommand, Conversation, Resting, CommandSent, Served, ReplySent, DataAsked, DataSent, Uploading
  <2>2. /\ sent' = Append(sent, [kind |-> k, len |-> n]) /\ host' = "waiting" /\ inbox' = <<>>
        /\ wire' = wire \o Message(Len(sent) + 1, n)
    BY <1>5, <2>1 DEF RawCommand, Resting
  <2>3. Len(sent') = Len(sent) + 1 /\ sent'[Len(sent')] = [kind |-> k, len |-> n]
    BY <2>2, <1>b
  <2>4. n \in Nat /\ Len(sent) + 1 \in Nat
    BY <1>b, SizesAssumption
  <2>5. Carries(wire', Len(sent) + 1, n, 0)
    <3> DEFINE msg == Message(Len(sent) + 1, n)
    <3>1. /\ msg \in Seq(Unit) /\ Len(msg) = n + 1
          /\ \A i \in 1..(n + 1) : msg[i] = [msg |-> Len(sent) + 1, at |-> i - 1, len |-> n]
      BY <2>4, Messages
    <3>2. wire' = wire \o msg /\ Len(wire) = 0
      BY <2>1, <2>2 DEF Resting, Silence
    <3> HIDE DEF msg
    <3>3. Len(wire') = n + 1 /\ \A i \in 1..(n + 1) : wire'[i] = msg[i]
      BY <1>b, <2>4, <3>1, <3>2, SMTT(40)
    <3> QED BY <2>4, <3>1, <3>3 DEF Carries
  <2>6. left' = 0 /\ Free'
    BY <2>1, <1>a DEF Resting, Silence, Free, transport
  <2> QED BY <1>b, <2>2, <2>3, <2>5, <2>6 DEF Conversation, CommandSent, Asked
<1>6. ASSUME HandleResponse PROVE Conversation'
  <2>1. CASE Served \/ CommandSent \/ Resting \/ DataSent
    BY <1>6, <2>1 DEF HandleResponse, Served, CommandSent, Resting, DataSent
  <2>a. ASSUME NEW t \in {"OKAY", "FAIL", "DATA"}, NEW rest, Head(inbox) = Reply(t), Tail(inbox) = rest
        PROVE  /\ inbox' = rest /\ UNCHANGED <<sent, wire>>
               /\ host = "finishing" => host' = "idle"
               /\ (host = "waiting" /\ t = "FAIL") => host' = "idle"
               /\ (host = "waiting" /\ t = "OKAY" /\ Asked.kind # "download") => host' = "idle"
               /\ (host = "waiting" /\ t = "DATA" /\ Asked.kind = "download") => host' = "data"
               /\ (host = "waiting" /\ t = "DATA" /\ Asked.kind = "upload") => host' = "receiving"
    <3>1. Head(inbox).type = t
      BY <2>a DEF Reply
    <3> QED BY <1>6, <2>a, <3>1, Heard
  <2>b. ASSUME UNCHANGED <<sent, wire>> 
        PROVE  /\ Silence => Silence'
               /\ Free => Free'
               /\ Serving => Serving'
               /\ UNCHANGED <<Asked, pc, total>>
               /\ \A t \in {"OKAY", "FAIL", "DATA", "payload"} : Reply(t)' = Reply(t)
    BY <2>b, <1>a DEF Silence, Free, Serving, Asked, Reply, transport
  <2>2. CASE ReplySent
    <3>1. PICK t \in {"OKAY", "FAIL"} : inbox = <<Reply(t)>> /\ (host = "waiting" /\ t = "OKAY" => Asked.kind # "download")
      BY <2>2 DEF ReplySent
    <3>2. host' = "idle" /\ inbox' = <<>> /\ UNCHANGED <<sent, wire>>
      BY <2>2, <2>a, <3>1, Inbox DEF ReplySent
    <3> QED BY <2>2, <2>b, <3>2 DEF ReplySent, Conversation, Resting
  <2>3. CASE DataAsked
    <3>1. host = "waiting" /\ inbox = <<Reply("DATA")>> /\ Asked.kind = "download"
      BY <2>3, <1>6 DEF DataAsked, HandleResponse
    <3>2. host' = "data" /\ inbox' = <<>> /\ UNCHANGED <<sent, wire>>
      BY <2>a, <3>1, Inbox
    <3> QED BY <2>3, <2>b, <3>2 DEF DataAsked, Conversation
  <2>4. CASE Uploading
    <3>1. /\ host = "waiting" /\ Asked.kind = "upload"
          /\ \/ inbox = <<Reply("DATA")>> /\ pc = "payload"
             \/ inbox = <<Reply("DATA"), Reply("payload")>> /\ pc = "upokay"
             \/ inbox = <<Reply("DATA"), Reply("payload"), Reply("OKAY")>> /\ Free
      BY <2>4, <1>6 DEF Uploading, HandleResponse
    <3>2. Head(inbox) = Reply("DATA")
      BY <3>1, Inbox
    <3>3. host' = "receiving" /\ inbox' = Tail(inbox) /\ UNCHANGED <<sent, wire>>
      BY <2>a, <3>1, <3>2
    <3>4. \/ inbox' = <<>> /\ pc = "payload"
          \/ inbox' = <<Reply("payload")>> /\ pc = "upokay"
          \/ inbox' = <<Reply("payload"), Reply("OKAY")>> /\ Free
      <4>1. CASE inbox = <<Reply("DATA")>> /\ pc = "payload"
        BY <3>3, <4>1, Inbox
      <4>2. CASE inbox = <<Reply("DATA"), Reply("payload")>> /\ pc = "upokay"
        BY <3>3, <4>2, Inbox
      <4>3. CASE inbox = <<Reply("DATA"), Reply("payload"), Reply("OKAY")>> /\ Free
        BY <3>3, <4>3, Inbox
      <4> QED BY <3>1, <4>1, <4>2, <4>3
    <3> QED BY <2>4, <2>b, <3>3, <3>4 DEF Uploading, Conversation
  <2> QED BY <1>4, <2>1, <2>2, <2>3, <2>4 DEF Conversation
<1>7. ASSUME ReadBuffer PROVE Conversation'
  <2>1. Uploading
    BY <1>4, <1>7 DEF ReadBuffer, Conversation, Resting, CommandSent, Served, ReplySent, DataAsked, DataSent
  <2>2. inbox' = Tail(inbox) /\ host = "receiving" /\ UNCHANGED <<sent, wire>>
        /\ (Head(inbox).type = "payload" => host' = "finishing")
    BY <1>7 DEF ReadBuffer
  <2>3. \/ inbox = <<Reply("payload")>> /\ pc = "upokay"
        \/ inbox = <<Reply("payload"), Reply("OKAY")>> /\ Free
    BY <1>7, <2>1, <2>2 DEF Uploading, ReadBuffer
  <2>4. Head(inbox) = Reply("payload") /\ Reply("payload").type = "payload"
    BY <2>3, Inbox DEF Reply
  <2>5. \/ inbox' = <<>> /\ pc = "upokay"
        \/ inbox' = <<Reply("OKAY")>> /\ Free
    <3>1. CASE inbox = <<Reply("payload")>> /\ pc = "upokay"
      BY <2>2, <3>1, Inbox
    <3>2. CASE inbox = <<Reply("payload"), Reply("OKAY")>> /\ Free
      BY <2>2, <3>2, Inbox
    <3> QED BY <2>3, <3>1, <3>2
  <2>6. Silence' /\ Serving' /\ (Free => Free') /\ UNCHANGED <<Asked, pc>> /\ Reply("OKAY")' = Reply("OKAY")
    BY <1>a, <2>1, <2>2 DEF Uploading, Silence, Free, Serving, Asked, Reply, transport
  <2>7. host' = "finishing"
    BY <2>2, <2>4
  <2> QED BY <2>1, <2>2, <2>5, <2>6, <2>7 DEF Conversation, Uploading, ReplySent, Serving
<1>8. ASSUME SendBuffer PROVE Conversation'
  <2>1. DataAsked
    BY <1>4, <1>8 DEF SendBuffer, Conversation, Resting, CommandSent, Served, ReplySent, DataSent, Uploading
  <2>2. wire' = wire \o Message(DataMsg, DataSize) /\ host' = "finishing" /\ UNCHANGED <<sent, inbox>>
    BY <1>8 DEF SendBuffer
  <2>3. Carries(wire', DataMsg, DataSize, 0)
    <3> DEFINE msg == Message(DataMsg, DataSize)
    <3>1. /\ msg \in Seq(Unit) /\ Len(msg) = DataSize + 1
          /\ \A i \in 1..(DataSize + 1) : msg[i] = [msg |-> DataMsg, at |-> i - 1, len |-> DataSize]
      BY <1>b, Messages, ZenonT(60) DEF DataMsg
    <3>2. wire' = wire \o msg /\ Len(wire) = 0
      BY <2>1, <2>2 DEF DataAsked, Silence
    <3> HIDE DEF msg
    <3>3. Len(wire') = DataSize + 1 /\ \A i \in 1..(DataSize + 1) : wire'[i] = msg[i]
      BY <1>b, <3>1, <3>2
    <3> QED BY <1>b, <3>1, <3>3 DEF Carries
  <2>4. pc' = "data" /\ total' = 0 /\ left' = 0 /\ inbox' = <<>> /\ Serving' /\ DataSize - 0 = DataSize
    BY <1>a, <1>b, <1>8, <2>1, <2>2 DEF SendBuffer, DataAsked, Silence, Serving, Asked, transport
  <2>5. Carries(wire', DataMsg, DataSize - total', 0)
    BY <2>3, <2>4
  <2>6. total' \in 0..(DataSize - 1)
    BY <2>4, <1>b
  <2> QED BY <2>2, <2>4, <2>5, <2>6 DEF Conversation, DataSent
<1>9. ASSUME NEW cut \in 1..(DataSize - 1), SparseWriteCallback(cut) PROVE Conversation'
  <2>1. DataAsked
    BY <1>4, <1>9 DEF SparseWriteCallback, Conversation, Resting, CommandSent, Served, ReplySent, DataSent, Uploading
  <2>2. /\ wire' = wire \o Message(DataMsg, cut) \o Message(DataMsg, DataSize - cut)
        /\ host' = "finishing" /\ UNCHANGED <<sent, inbox>>
    BY <1>9 DEF SparseWriteCallback
  <2>3. CarriesTwo(wire', cut, 0)
    <3> DEFINE rest == DataSize - cut
               a == Message(DataMsg, cut)
               b == Message(DataMsg, rest)
    <3>1. cut \in Nat /\ rest \in Nat /\ rest = DataSize - cut
      BY <1>b
    <3>2. wire' = wire \o a \o b /\ Len(wire) = 0
      BY <2>1, <2>2 DEF DataAsked, Silence
    <3> HIDE DEF rest
    <3>3. /\ a \in Seq(Unit) /\ Len(a) = cut + 1
          /\ \A i \in 1..(cut + 1) : a[i] = [msg |-> DataMsg, at |-> i - 1, len |-> cut]
      BY <3>1, Messages DEF DataMsg
    <3>4. /\ b \in Seq(Unit) /\ Len(b) = rest + 1
          /\ \A i \in 1..(rest + 1) : b[i] = [msg |-> DataMsg, at |-> i - 1, len |-> rest]
      BY <3>1, Messages, ZenonT(60) DEF DataMsg
    <3> HIDE DEF a, b
    <3>5. /\ Len(wire') = (cut + 1) + (rest + 1)
          /\ \A i \in 1..(cut + 1) : wire'[i] = a[i]
          /\ \A i \in (cut + 2)..((cut + 1) + (rest + 1)) : wire'[i] = b[i - (cut + 1)]
      <4> DEFINE w == wire \o a
      <4>1. w \in Seq(Unit) /\ Len(w) = cut + 1 /\ \A i \in 1..(cut + 1) : w[i] = a[i]
        <5>1. w \in Seq(Unit) /\ Len(w) = cut + 1
          BY <1>b, <3>1, <3>2, <3>3
        <5>2. ASSUME NEW i \in 1..(cut + 1) PROVE w[i] = a[i]
          BY <1>b, <3>1, <3>2, <3>3, <5>2
        <5> QED BY <5>1, <5>2
      <4>2. wire' = w \o b
        BY <3>2
      <4> HIDE DEF w
      <4>a. w \in Seq(Unit) /\ b \in Seq(Unit)
        BY <3>4, <4>1
      <4>b. Len(wire') = Len(w) + Len(b)
        BY <4>a, <4>2
      <4>3. Len(wire') = (cut + 1) + (rest + 1)
        BY <3>4, <4>1, <4>b
      <4>4. \A i \in 1..(cut + 1) : wire'[i] = a[i]
        BY <3>1, <3>4, <4>1, <4>2, SMTT(40)
      <4>5. \A i \in (cut + 2)..((cut + 1) + (rest + 1)) : wire'[i] = b[i - (cut + 1)]
        BY <3>1, <3>4, <4>1, <4>2, SMTT(40)
      <4> QED BY <4>3, <4>4, <4>5
    <3>6. \A i \in (cut + 2)..Len(wire') :
             wire'[i] = [msg |-> DataMsg, at |-> i - (cut + 2), len |-> rest]
      <4> TAKE i \in (cut + 2)..Len(wire')
      <4>1. i - (cut + 1) \in 1..(rest + 1) /\ (i - (cut + 1)) - 1 = i - (cut + 2)
        BY <3>1, <3>5
      <4>2. wire'[i] = b[i - (cut + 1)]
        BY <3>5
      <4> QED BY <3>4, <4>1, <4>2
    <3>7. \A i \in 1..(cut + 1) : wire'[i] = [msg |-> DataMsg, at |-> i - 1, len |-> cut]
      BY <3>3, <3>5
    <3>8. (cut + 1 - 0 = cut + 1) /\ (cut + 2 - 0 = cut + 2)
          /\ \A i \in 1..(cut + 1) : i - 1 + 0 = i - 1
      BY <3>1
    <3> QED BY <3>1, <3>5, <3>6, <3>7, <3>8, ZenonT(60) DEF CarriesTwo
  <2>4. pc' = "data" /\ total' = 0 /\ left' = 0 /\ inbox' = <<>> /\ Serving'
    BY <1>a, <1>9, <2>1, <2>2 DEF SparseWriteCallback, DataAsked, Silence, Serving, Asked, transport
  <2>6. total' \in 0..(DataSize - 1)
    BY <2>4, <1>b
  <2> QED BY <2>2, <2>3, <2>4, <2>6 DEF Conversation, DataSent
<1> QED BY <1>5, <1>6, <1>7, <1>8, <1>9 DEF HostStep

\* A send while the host is there succeeds, and what is sent is the next to arrive.
LEMMA SendSync ==
  ASSUME SyncInv, ~Gone, NEW type, Send(type)
  PROVE  /\ inbox' = Append(inbox, [to |-> cmd.msg, type |-> type])
         /\ socket' = TRUE /\ failed' = FALSE
         /\ type \in {"OKAY", "FAIL"} => replied' = TRUE
         /\ (replied = FALSE /\ type \notin {"OKAY", "FAIL"}) => replied' = FALSE
<1>1. socket = TRUE /\ failed = FALSE
  BY DEF SyncInv
<1>2. SendOk(type)
  BY <1>1 DEF Send, SendFails
<1> QED BY <1>1, <1>2, Zenon DEF SendOk

\* With the host gone nothing reaches the inbox; with the host there no step of
\* the device loses the transport.
LEMMA DeviceLink ==
  ASSUME TypeInv, SessionInv, SyncInv, DeviceStep
  PROVE  /\ Gone' = Gone /\ (Gone => inbox' = <<>>) /\ UNCHANGED sent
         /\ ~Gone => socket' = TRUE /\ failed' = FALSE
<1>a. UNCHANGED <<host, sent>>
  BY DEF DeviceStep, ReadHeader, ReadClosed, ReadCommand, ReadNull, ReadData, Reject, Dispatch, HandleReply,
         HandleFlash, HandleSilent, HandleThrows, DownloadBegin, DownloadEnd, Upload, AfterCommand
<1>b. Gone' = Gone
  BY <1>a DEF Gone
<1>1. ASSUME UNCHANGED <<inbox, socket, failed>>
      PROVE  (Gone => inbox' = <<>>) /\ (~Gone => socket' = TRUE /\ failed' = FALSE)
  BY <1>1 DEF SyncInv
<1>2. ASSUME NEW type, Send(type)
      PROVE  (Gone => inbox' = <<>>) /\ (~Gone => socket' = TRUE /\ failed' = FALSE)
  <2>1. CASE Gone
    BY <1>2, <2>1 DEF SyncInv, Send, SendOk, SendFails
  <2>2. CASE ~Gone
    BY <1>2, <2>2, SendSync
  <2> QED BY <2>1, <2>2
<1>3. CASE ReadHeader
  BY <1>3, <1>1, <1>a, <1>b DEF ReadHeader, SyncInv
<1>4. CASE ReadClosed \/ ReadNull \/ Dispatch \/ HandleSilent
  BY <1>4, <1>a, <1>b, <1>1 DEF ReadClosed, ReadNull, Dispatch, HandleSilent, transport
<1>5. CASE ReadCommand
  <2> DEFINE want == IF left < Cap THEN left ELSE Cap
  <2>1. UNCHANGED <<inbox, failed>> /\ left > 0 /\ (Received(want) = want \/ Gone)
        /\ (Received(want) = 0 \/ UNCHANGED socket)
    BY <1>5, Zenon DEF ReadCommand
  <2>2. want # 0
    BY <2>1, SizesAssumption DEF TypeInv, LinkType
  <2> QED BY <1>a, <1>b, <2>1, <2>2 DEF SyncInv
<1>6. CASE ReadData
  <2> DEFINE want == IF left < DataSize - total THEN left ELSE DataSize - total
  <2>1. UNCHANGED inbox /\ left > 0 /\ pc = "data" /\ (Received(want) = want \/ Gone)
        /\ socket' = (Received(want) > 0) /\ failed' = (failed \/ Received(want) = 0)
    BY <1>6 DEF ReadData
  <2>2. want # 0 /\ want \in Nat
    BY <2>1, SizesAssumption DEF TypeInv, LinkType, SyncInv
  <2>3. CASE Gone
    BY <1>a, <1>b, <2>1, <2>3 DEF SyncInv
  <2>4. CASE ~Gone
    <3>1. Received(want) > 0 /\ Received(want) # 0
      BY <2>1, <2>2, <2>4
    <3> QED BY <1>a, <1>b, <2>1, <2>4, <3>1 DEF SyncInv
  <2> QED BY <2>3, <2>4
<1>7. CASE Reject \/ HandleReply \/ HandleFlash \/ HandleThrows \/ DownloadBegin \/ DownloadEnd \/ Upload
  BY <1>7, <1>2, <1>a, <1>b DEF Reject, HandleReply, HandleFlash, HandleThrows, DownloadBegin, DownloadEnd, Upload
<1>8. CASE AfterCommand
  BY <1>8, <1>1, <1>2, <1>a, <1>b DEF AfterCommand
<1> QED BY <1>a, <1>b, <1>3, <1>4, <1>5, <1>6, <1>7, <1>8 DEF DeviceStep

\* total_read stays short of the buffer for as long as the data phase lasts.
LEMMA DataShort ==
  ASSUME TypeInv, TypeInv', SyncInv, DeviceStep
  PROVE  (pc = "data" => total < DataSize)'
<1>1. CASE ReadData
  <2>1. total' \in Nat /\ DataSize \in Nat /\ total' <= DataSize
    BY SizesAssumption DEF TypeInv, LinkType
  <2>2. pc' = "data" => total' # DataSize
    BY <1>1 DEF ReadData
  <2> QED BY <2>1, <2>2
<1>2. CASE DownloadBegin
  BY <1>2, SizesAssumption DEF DownloadBegin
<1>3. CASE Dispatch
  BY <1>3 DEF Dispatch, TypeInv, LoopType, Kinds
<1>4. CASE ReadHeader \/ ReadClosed \/ ReadNull \/ ReadCommand \/ Reject \/ HandleReply \/ HandleFlash \/ HandleSilent
           \/ HandleThrows \/ DownloadEnd \/ Upload \/ AfterCommand
  <2>1. pc' = "data" => pc = "data" /\ UNCHANGED total
    BY <1>4 DEF ReadHeader, ReadClosed, ReadNull, ReadCommand, Reject, HandleReply, HandleFlash, HandleSilent,
                HandleThrows, DownloadEnd, Upload, AfterCommand
  <2> QED BY <2>1 DEF SyncInv
<1> QED BY <1>1, <1>2, <1>3, <1>4 DEF DeviceStep

\* The steps of Read, in step: each takes off the wire what the phase put there.
LEMMA ReadSync ==
  ASSUME TypeInv, SessionInv, SyncInv, Fits, ~Gone, Conversation,
         ReadHeader \/ ReadClosed \/ ReadCommand \/ ReadNull \/ ReadData
  PROVE  Conversation'
<1>a. /\ sent \in Seq([kind : Kinds, len : 1..MaxLen]) /\ Len(sent) \in Nat
      /\ wire \in Seq(Unit) /\ Len(wire) \in Nat /\ DataSize \in Nat \ {0}
      /\ left \in Nat /\ total \in 0..DataSize /\ Cap \in Nat \ {0}
      /\ socket = TRUE /\ failed = FALSE
  BY SizesAssumption DEF TypeInv, HostType, WireType, LinkType, SyncInv
<1>b. UNCHANGED <<host, sent, inbox, replied>>
  BY DEF ReadHeader, ReadClosed, ReadCommand, ReadNull, ReadData
<1>c. ASSUME Len(sent) > 0 PROVE Asked.len \in 1..Cap /\ Asked.len \in Nat
  <2>1. Len(sent) \in 1..Len(sent)
    BY <1>a, <1>c
  <2>2. sent[Len(sent)] \in [kind : Kinds, len : 1..MaxLen]
    <3>1. ASSUME NEW S, NEW s \in Seq(S), Len(s) > 0 PROVE s[Len(s)] \in S
      BY <3>1
    <3> QED BY <1>a, <1>c, <3>1
  <2>3. sent[Len(sent)].len <= Cap
    BY <2>1 DEF Fits
  <2> QED BY <1>a, <2>2, <2>3, SizesAssumption DEF Asked
<1>1. CASE ReadClosed \/ ReadNull
  BY <1>1, <1>a DEF ReadClosed, ReadNull
<1>2. CASE ReadHeader
  <2>1. /\ Len(wire) > 0 /\ left = 0 /\ left' = wire[1].len /\ wire' = Tail(wire)
        /\ UNCHANGED <<pc, total, cmd>> /\ pc \in {"command", "data"}
    <3>1. /\ wire # <<>> /\ left = 0 /\ left' = wire[1].len /\ wire' = Tail(wire)
          /\ UNCHANGED <<pc, total, cmd>> /\ pc \in {"command", "data"}
      BY <1>2 DEF ReadHeader
    <3> QED BY <1>a, <3>1
  <2>2. Len(wire') = Len(wire) - 1 /\ \A i \in 1..Len(wire') : wire'[i] = wire[i + 1]
    BY <1>a, <2>1
  <2>3. ASSUME NEW m, NEW n \in Nat, Carries(wire, m, n, 0) PROVE left' = n /\ Carries(wire', m, n, 1)
    BY <1>a, <2>1, <2>2, <2>3 DEF Carries
  <2>4. ASSUME NEW n \in 1..(DataSize - 1), CarriesTwo(wire, n, 0) PROVE left' = n /\ CarriesTwo(wire', n, 1)
    <3>a. n \in Nat /\ 1 \in 1..(n + 1 - 0) /\ DataSize - n \in Nat
      BY <1>a
    <3>b. /\ Len(wire) = (n + 1 - 0) + (DataSize - n + 1)
          /\ \A i \in 1..(n + 1 - 0) : wire[i] = [msg |-> DataMsg, at |-> i - 1 + 0, len |-> n]
          /\ \A i \in (n + 2 - 0)..Len(wire) :
                wire[i] = [msg |-> DataMsg, at |-> i - (n + 2 - 0), len |-> DataSize - n]
      BY <2>4 DEF CarriesTwo
    <3>c. wire[1] = [msg |-> DataMsg, at |-> 1 - 1 + 0, len |-> n]
      BY <3>a, <3>b, Zenon
    <3>1. left' = n
      BY <2>1, <3>c
    <3>2. Len(wire') = (n + 1 - 1) + (DataSize - n + 1)
      BY <1>a, <2>2, <2>4 DEF CarriesTwo
    <3>3. \A i \in 1..(n + 1 - 1) : wire'[i] = [msg |-> DataMsg, at |-> i - 1 + 1, len |-> n]
      <4> TAKE i \in 1..(n + 1 - 1)
      <4>1. i \in 1..Len(wire') /\ i + 1 \in 1..(n + 1 - 0) /\ (i + 1) - 1 + 0 = i - 1 + 1
        BY <1>a, <3>a, <3>2
      <4>2. wire[i + 1] = [msg |-> DataMsg, at |-> (i + 1) - 1 + 0, len |-> n]
        BY <3>b, <4>1, Zenon
      <4>3. wire'[i] = wire[i + 1]
        BY <2>2, <4>1
      <4> QED BY <4>1, <4>2, <4>3, Zenon
    <3>4. \A i \in (n + 2 - 1)..Len(wire') :
             wire'[i] = [msg |-> DataMsg, at |-> i - (n + 2 - 1), len |-> DataSize - n]
      <4> TAKE i \in (n + 2 - 1)..Len(wire')
      <4>1. i \in 1..Len(wire') /\ i + 1 \in (n + 2 - 0)..Len(wire) /\ (i + 1) - (n + 2 - 0) = i - (n + 2 - 1)
        BY <1>a, <3>a, <3>b, <3>2
      <4>2. wire[i + 1] = [msg |-> DataMsg, at |-> (i + 1) - (n + 2 - 0), len |-> DataSize - n]
        BY <3>b, <4>1, Zenon
      <4>3. wire'[i] = wire[i + 1]
        BY <2>2, <4>1
      <4> QED BY <4>1, <4>2, <4>3, Zenon
    <3> QED BY <3>1, <3>2, <3>3, <3>4 DEF CarriesTwo
  <2>5. CASE CommandSent
    <3>1. /\ Len(sent) > 0 /\ Carries(wire, Len(sent), Asked.len, 0) /\ pc = "command"
          /\ host = "waiting" /\ inbox = <<>>
      <4>1. Len(sent) > 0
        BY <2>5 DEF CommandSent
      <4>2. ~(left = Asked.len)
        BY <2>1, <4>1, <1>c
      <4> QED BY <2>1, <2>5, <4>2 DEF CommandSent, Free
    <3>2. left' = Asked.len /\ Carries(wire', Len(sent), Asked.len, 1)
      BY <1>a, <1>c, <2>3, <3>1
    <3> QED BY <1>b, <2>1, <3>1, <3>2 DEF Conversation, CommandSent, Asked
  <2>6. CASE DataSent
    <3>1. /\ pc = "data" /\ host = "finishing" /\ inbox = <<>> /\ Serving /\ total \in 0..(DataSize - 1)
          /\ \/ Carries(wire, DataMsg, DataSize - total, 0)
             \/ total = 0 /\ \E n \in 1..(DataSize - 1) : CarriesTwo(wire, n, 0)
      BY <1>a, <2>1, <2>6 DEF DataSent, Silence
    <3>2. Serving'
      BY <1>b, <2>1, <3>1 DEF Serving, Asked
    <3>3. CASE Carries(wire, DataMsg, DataSize - total, 0)
      <4>1. DataSize - total \in Nat
        BY <1>a
      <4>2. left' = DataSize - total /\ Carries(wire', DataMsg, DataSize - total, 1)
        BY <2>3, <3>3, <4>1
      <4> QED BY <1>b, <2>1, <3>1, <3>2, <4>2 DEF Conversation, DataSent
    <3>4. CASE total = 0 /\ \E n \in 1..(DataSize - 1) : CarriesTwo(wire, n, 0)
      <4>1. PICK n \in 1..(DataSize - 1) : CarriesTwo(wire, n, 0)
        BY <3>4
      <4>2. left' = n /\ CarriesTwo(wire', n, 1)
        BY <2>4, <4>1
      <4> QED BY <1>b, <2>1, <3>1, <3>2, <3>4, <4>2 DEF Conversation, DataSent
    <3> QED BY <3>1, <3>3, <3>4
  <2>7. CASE Resting \/ Served \/ ReplySent \/ DataAsked \/ Uploading
    BY <2>1, <2>7 DEF Resting, Served, ReplySent, DataAsked, Uploading, Silence
  <2> QED BY <2>5, <2>6, <2>7 DEF Conversation
<1>3. CASE ReadCommand
  <2>1. pc = "command" /\ left > 0
    BY <1>3 DEF ReadCommand
  <2>2. CommandSent
    BY <2>1, <1>a DEF Conversation, Resting, Served, ReplySent, DataAsked, DataSent, Uploading, Silence, Kinds
  <2>3. /\ Len(sent) > 0 /\ left = Asked.len /\ Carries(wire, Len(sent), Asked.len, 1)
        /\ host = "waiting" /\ inbox = <<>>
    BY <2>1, <2>2, <1>a DEF CommandSent
  <2>4. left \in 1..Cap /\ Len(wire) = left
        /\ wire[1] = [msg |-> Len(sent), at |-> 1, len |-> left]
    BY <1>a, <1>c, <2>3, SMTT(40) DEF Carries
  <2> DEFINE want == IF left < Cap THEN left ELSE Cap
             got == Received(want)
             whole == wire[1].at = 1 /\ got = wire[1].len
  <2>5. /\ got = want
        /\ \/ got = 0
           \/ /\ left' = left - got /\ wire' = SubSeq(wire, got + 1, Len(wire)) /\ pc' = "dispatch"
              /\ \E k \in Kinds :
                    /\ (whole /\ wire[1].msg # DataMsg) => k = sent[wire[1].msg].kind
                    /\ cmd' = [kind |-> k, msg |-> wire[1].msg, whole |-> whole]
    BY <1>3, Zenon DEF ReadCommand
  <2>6. want = left
    BY <1>a, <2>4
  <2> HIDE DEF want
  <2>7. got = left /\ whole /\ wire[1].msg = Len(sent) /\ wire[1].msg # DataMsg
    BY <1>a, <2>3, <2>4, <2>5, <2>6 DEF DataMsg
  <2>8. PICK k \in Kinds : /\ (whole /\ wire[1].msg # DataMsg) => k = sent[wire[1].msg].kind
                           /\ cmd' = [kind |-> k, msg |-> wire[1].msg, whole |-> whole]
    BY <2>4, <2>5, <2>7
  <2>9. cmd'.kind = Asked.kind /\ cmd'.msg = Len(sent)
    BY <2>7, <2>8 DEF Asked
  <2>10. pc' = "dispatch" /\ left' = 0 /\ wire' = SubSeq(wire, left + 1, Len(wire))
    BY <1>a, <2>4, <2>5, <2>7
  <2>11. Len(wire') = 0
    BY <1>a, <2>4, <2>10
  <2> QED BY <1>b, <2>3, <2>9, <2>10, <2>11 DEF Conversation, Served, Serving, Silence, Asked
<1>4. CASE ReadData
  <2>1. pc = "data" /\ left > 0
    BY <1>4 DEF ReadData
  <2>2. DataSent
    BY <2>1, <1>a DEF Conversation, Resting, CommandSent, Served, ReplySent, DataAsked, Uploading, Silence, Free, Kinds
  <2> DEFINE want == IF left < DataSize - total THEN left ELSE DataSize - total
             got == Received(want)
  <2>3. /\ got = want /\ left' = left - got /\ total' = total + got /\ UNCHANGED cmd
        /\ wire' = SubSeq(wire, got + 1, Len(wire))
        /\ got # 0 => pc' = IF total' = DataSize THEN "stageddata" ELSE pc
    BY <1>4 DEF ReadData
  <2>4. left <= DataSize - total /\ host = "finishing" /\ inbox = <<>> /\ Serving /\ total \in 0..(DataSize - 1)
    BY <1>a, <2>1, <2>2 DEF DataSent, Silence
  <2>5. want = left
    BY <1>a, <2>4
  <2> HIDE DEF want
  <2>6. left' = 0 /\ total' = total + left /\ wire' = SubSeq(wire, left + 1, Len(wire))
        /\ pc' = IF total' = DataSize THEN "stageddata" ELSE "data"
    BY <1>a, <2>1, <2>3, <2>5
  <2>7. Serving'
    BY <1>b, <2>3, <2>4 DEF Serving, Asked
  <2>8. CASE left = DataSize - total /\ Carries(wire, DataMsg, DataSize - total, 1)
    <3>1. Len(wire) = left /\ total' = DataSize
      BY <1>a, <2>6, <2>8 DEF Carries
    <3>2. Len(wire') = 0
      BY <1>a, <2>6, <3>1
    <3> QED BY <1>b, <2>4, <2>6, <2>7, <3>1, <3>2 DEF Conversation, DataSent, Silence
  <2>9. CASE total = 0 /\ left \in 1..(DataSize - 1) /\ CarriesTwo(wire, left, 1)
    <3>1. total' = left /\ pc' = "data" /\ total' \in 0..(DataSize - 1)
      BY <1>a, <2>6, <2>9
    <3>2. Len(wire) = left + (DataSize - left + 1)
      BY <1>a, <2>9 DEF CarriesTwo
    <3>3. Len(wire') = DataSize - left + 1 /\ \A i \in 1..Len(wire') : wire'[i] = wire[i + left]
      <4>1. left \in Nat /\ left + 1 \in 1..(Len(wire) + 1) /\ Len(wire) - (left + 1) + 1 = DataSize - left + 1
        BY <1>a, <2>9, <3>2
      <4>2. Len(wire') = Len(wire) - (left + 1) + 1
        BY <1>a, <2>6, <4>1
      <4>3. ASSUME NEW i \in 1..Len(wire') PROVE wire'[i] = wire[i + left]
        <5>1. i \in 1..(Len(wire) - (left + 1) + 1)
          BY <4>2
        <5>2. SubSeq(wire, left + 1, Len(wire))[i] = wire[left + 1 + i - 1]
          BY <1>a, <4>1, <5>1
        <5>3. left + 1 + i - 1 = i + left
          BY <4>1, <4>2, <1>a
        <5> QED BY <2>6, <5>2, <5>3
      <4> QED BY <4>1, <4>2, <4>3
    <3>4. ASSUME NEW i \in 1..Len(wire')
          PROVE  wire'[i] = [msg |-> DataMsg, at |-> i - 1 + 0, len |-> DataSize - left]
      <4>1. i + left \in (left + 2 - 1)..Len(wire) /\ (i + left) - (left + 2 - 1) = i - 1 + 0
        BY <1>a, <2>9, <3>2, <3>3
      <4>2. wire[i + left] = [msg |-> DataMsg, at |-> (i + left) - (left + 2 - 1), len |-> DataSize - left]
        <5> DEFINE j == i + left
        <5>1. j \in (left + 2 - 1)..Len(wire)
          BY <4>1
        <5> HIDE DEF j
        <5>2. wire[j] = [msg |-> DataMsg, at |-> j - (left + 2 - 1), len |-> DataSize - left]
          BY <2>9, <5>1 DEF CarriesTwo
        <5> QED BY <5>2 DEF j
      <4>3. wire'[i] = wire[i + left]
        BY <3>3
      <4> QED BY <4>1, <4>2, <4>3, Zenon
    <3>5. Carries(wire', DataMsg, DataSize - total', 0)
      BY <1>a, <3>1, <3>3, <3>4 DEF Carries
    <3> QED BY <1>b, <2>4, <2>6, <2>7, <3>1, <3>5 DEF Conversation, DataSent
  <2> QED BY <1>a, <2>1, <2>2, <2>8, <2>9 DEF DataSent
<1> QED BY <1>1, <1>2, <1>3, <1>4

\* A handler's step, in step: the reply it sends is the one the host's phase is
\* ready for.
LEMMA HandlerSync ==
  ASSUME TypeInv, SessionInv, SyncInv, ~Gone, Conversation,
         \/ Reject \/ Dispatch \/ HandleReply \/ HandleFlash \/ HandleSilent
         \/ HandleThrows \/ DownloadBegin \/ DownloadEnd \/ Upload \/ AfterCommand
  PROVE  Conversation'
<1>a. UNCHANGED <<host, sent, wire, left, cmd>>
  BY DEF Reject, Dispatch, HandleReply, HandleFlash, HandleSilent, HandleThrows, DownloadBegin,
         DownloadEnd, Upload, AfterCommand, transport
<1>b. /\ Silence' = Silence /\ UNCHANGED <<Asked, Serving>>
      /\ \A t \in {"OKAY", "FAIL", "DATA", "payload"} : Reply(t)' = Reply(t)
  BY <1>a DEF Silence, Asked, Serving, Reply
<1>c. failed = FALSE /\ replied \in BOOLEAN
  BY DEF SyncInv, SessionInv, AnswerInv
<1>d. ASSUME NEW t \in {"OKAY", "FAIL", "DATA", "payload"}, Send(t), Serving
      PROVE  /\ inbox' = Append(inbox, Reply(t)) /\ failed' = FALSE
             /\ t \in {"OKAY", "FAIL"} => replied' = TRUE
  <2>1. /\ inbox' = Append(inbox, [to |-> cmd.msg, type |-> t]) /\ failed' = FALSE
        /\ t \in {"OKAY", "FAIL"} => replied' = TRUE
    BY <1>d, SendSync
  <2>2. [to |-> cmd.msg, type |-> t] = Reply(t)
    BY <1>d DEF Serving, Reply
  <2> QED BY <2>1, <2>2
\* A command that is answered in one word.
<1>1. ASSUME Served, NEW t \in {"OKAY", "FAIL"}, Send(t), t = "OKAY" => Asked.kind # "download",
             pc' \in {"command", "after", "ended"}
      PROVE  Conversation'
  <2>1. inbox' = <<Reply(t)>> /\ replied' = TRUE /\ host' = "waiting"
    BY <1>1, <1>a, <1>d, InboxGrows DEF Served
  <2>2. inbox' = <<Reply(t)'>>
    BY <1>b, <2>1
  <2>3. t = "OKAY" \/ t = "FAIL"
    BY <1>1
  <2> QED BY <1>1, <1>a, <1>b, <2>1, <2>2, <2>3 DEF Served, Serving, Conversation, ReplySent, Free
<1>2. ASSUME pc \in {"dispatch", "reply", "flash", "silent", "throws", "download", "upload"} PROVE Served
  <2>1. ~Free /\ pc \notin {"command", "data", "stageddata", "payload", "upokay"}
    BY <1>2 DEF Free
  <2> QED BY <2>1 DEF Conversation, Resting, CommandSent, ReplySent, DataAsked, DataSent, Uploading
<1>3. CASE Reject
  BY <1>1, <1>2, <1>3 DEF Reject
<1>4. CASE Dispatch
  <2>1. Served /\ cmd.kind \in Kinds \ {"unknown"} /\ pc' = cmd.kind /\ inbox' = inbox
    BY <1>2, <1>4 DEF Dispatch, SessionInv, AnswerInv
  <2> QED BY <1>a, <1>b, <2>1 DEF Conversation, Served
<1>5. CASE HandleReply
  <2>1. Served /\ Asked.kind # "download"
    BY <1>2, <1>5 DEF HandleReply, Served, Serving
  <2> QED BY <1>1, <1>5, <2>1 DEF HandleReply
<1>6. CASE HandleFlash
  <2>1. Served /\ Asked.kind # "download"
    BY <1>2, <1>6 DEF HandleFlash, Served, Serving
  <2> QED BY <1>1, <1>6, <2>1 DEF HandleFlash
<1>7. CASE HandleSilent
  <2>1. Served /\ cmd.kind = "silent" /\ replied = FALSE /\ pc' = "after" /\ UNCHANGED <<inbox, replied>>
    BY <1>2, <1>7 DEF HandleSilent, SessionInv, AnswerInv, Handling
  <2> QED BY <1>a, <1>b, <2>1 DEF Conversation, Served
<1>8. CASE HandleThrows
  BY <1>1, <1>2, <1>8 DEF HandleThrows
<1>9. CASE DownloadBegin
  <2>1. Served /\ Asked.kind = "download" /\ Serving /\ inbox = <<>> /\ host = "waiting" /\ Silence
    BY <1>2, <1>9 DEF DownloadBegin, Served, Serving
  <2>2. CASE Send("FAIL") /\ pc' = "after"
    BY <1>1, <2>1, <2>2
  <2>3. CASE Send("DATA") /\ total' = 0 /\ pc' = IF failed' THEN "after" ELSE "data"
    <3>1. inbox' = <<Reply("DATA")>> /\ failed' = FALSE
      BY <1>d, InboxGrows, <2>1, <2>3
    <3>2. pc' = "data" /\ inbox' = <<Reply("DATA")'>>
      BY <1>b, <2>3, <3>1
    <3> QED BY <1>a, <1>b, <2>1, <2>3, <3>2 DEF Conversation, DataAsked
  <2> QED BY <1>9, <2>2, <2>3 DEF DownloadBegin
<1>10. CASE DownloadEnd
  <2>1. pc \in {"stageddata", "shortdata"} /\ pc' = "after"
    BY <1>10 DEF DownloadEnd
  <2>2. DataSent
    BY <2>1 DEF Conversation, Resting, CommandSent, Served, ReplySent, DataAsked, DataSent, Uploading, Free, Kinds
  <2>3. pc = "stageddata" /\ host = "finishing" /\ inbox = <<>> /\ Silence /\ Serving
    BY <2>1, <2>2 DEF DataSent
  <2>4. Send("OKAY")
    BY <1>10, <2>3 DEF DownloadEnd
  <2>5. inbox' = <<Reply("OKAY")>> /\ replied' = TRUE
    BY <1>d, InboxGrows, <2>3, <2>4
  <2>6. inbox' = <<Reply("OKAY")'>>
    BY <1>b, <2>5
  <2> QED BY <1>a, <1>b, <2>1, <2>3, <2>5, <2>6 DEF Conversation, ReplySent, Free, Serving
<1>11. CASE Upload
  <2>1. CASE pc = "upload"
    <3>1. Served /\ Asked.kind = "upload" /\ Serving /\ inbox = <<>> /\ host = "waiting" /\ Silence
      BY <1>2, <2>1 DEF Served, Serving
    <3>2. CASE Send("FAIL") /\ pc' = "after"
      BY <1>1, <3>1, <3>2
    <3>3. CASE Send("DATA") /\ pc' = IF failed' THEN "after" ELSE "payload"
      <4>1. inbox' = <<Reply("DATA")>> /\ failed' = FALSE
        BY <1>d, InboxGrows, <3>1, <3>3
      <4>2. pc' = "payload" /\ inbox' = <<Reply("DATA")'>>
        BY <1>b, <3>3, <4>1
      <4> QED BY <1>a, <1>b, <3>1, <4>2 DEF Conversation, Uploading
    <3> QED BY <1>11, <2>1, <3>2, <3>3 DEF Upload
  <2>2. ASSUME pc \in {"payload", "upfail", "upokay"} PROVE Uploading /\ pc # "upfail"
    BY <2>2 DEF Conversation, Resting, CommandSent, Served, ReplySent, DataAsked, DataSent, Uploading, Free, Kinds
  <2>3. CASE pc = "payload"
    <3>1. /\ Silence /\ Serving /\ Asked.kind = "upload"
          /\ \/ host = "waiting" /\ inbox = <<Reply("DATA")>>
             \/ host = "receiving" /\ inbox = <<>>
      BY <2>2, <2>3 DEF Uploading, Free
    <3>2. Send("payload") /\ pc' = IF failed' THEN "upfail" ELSE "upokay"
      BY <1>11, <2>3 DEF Upload
    <3>3. inbox' = Append(inbox, Reply("payload")) /\ pc' = "upokay"
      BY <1>d, <3>1, <3>2
    <3>4. \/ host' = "waiting" /\ inbox' = <<Reply("DATA")', Reply("payload")'>>
          \/ host' = "receiving" /\ inbox' = <<Reply("payload")'>>
      BY <1>a, <1>b, InboxGrows, <3>1, <3>3, ZenonT(60)
    <3> QED BY <1>b, <3>1, <3>3, <3>4 DEF Conversation, Uploading
  <2>4. CASE pc = "upokay"
    <3>1. /\ Silence /\ Serving /\ Asked.kind = "upload"
          /\ \/ host = "waiting" /\ inbox = <<Reply("DATA"), Reply("payload")>>
             \/ host = "receiving" /\ inbox = <<Reply("payload")>>
             \/ host = "finishing" /\ inbox = <<>>
      BY <2>2, <2>4 DEF Uploading, Free
    <3>2. Send("OKAY") /\ pc' = "after"
      BY <1>11, <2>4 DEF Upload
    <3>3. inbox' = Append(inbox, Reply("OKAY")) /\ Free'
      BY <1>d, <3>1, <3>2 DEF Free
    <3>4. \/ host' = "waiting" /\ inbox' = <<Reply("DATA")', Reply("payload")', Reply("OKAY")'>>
          \/ host' = "receiving" /\ inbox' = <<Reply("payload")', Reply("OKAY")'>>
          \/ host' = "finishing" /\ inbox' = <<Reply("OKAY")'>>
      <4>1. CASE host = "waiting" /\ inbox = <<Reply("DATA"), Reply("payload")>>
        BY <1>a, <1>b, InboxGrows, <3>3, <4>1
      <4>2. CASE host = "receiving" /\ inbox = <<Reply("payload")>>
        BY <1>a, <1>b, InboxGrows, <3>3, <4>2
      <4>3. CASE host = "finishing" /\ inbox = <<>>
        BY <1>a, <1>b, InboxGrows, <3>3, <4>3
      <4> QED BY <3>1, <4>1, <4>2, <4>3
    <3> QED BY <1>b, <3>1, <3>3, <3>4 DEF Conversation, Uploading, ReplySent, Serving
  <2> QED BY <1>11, <2>1, <2>2, <2>3, <2>4 DEF Upload
<1>12. CASE AfterCommand
  <2>1. pc = "after"
    BY <1>12 DEF AfterCommand
  <2>2. CASE replied = FALSE
    <3>1. Served /\ cmd.kind = "silent" /\ Asked.kind # "download"
      BY <2>1, <2>2 DEF Conversation, Resting, CommandSent, Served, Serving, ReplySent, DataAsked, DataSent, Uploading, Free, Kinds
    <3>2. Send("FAIL") /\ pc' \in {"command", "ended"}
      BY <1>12, <1>c, <2>2, <3>1 DEF AfterCommand
    <3> QED BY <1>1, <3>1, <3>2
  <2>3. CASE replied = TRUE
    <3>1. pc' = "command" /\ UNCHANGED inbox
      BY <1>12, <1>c, <2>3 DEF AfterCommand
    <3>2. Resting \/ CommandSent \/ ReplySent \/ Uploading
      BY <2>1, <2>3 DEF Conversation, Served, DataAsked, DataSent, Kinds
    <3>3. Free'
      BY <3>1 DEF Free
    <3>4. CASE Resting
      BY <1>a, <1>b, <3>1, <3>3, <3>4 DEF Conversation, Resting
    <3>5. CASE CommandSent
      BY <1>a, <1>b, <2>1, <3>1, <3>3, <3>5 DEF Conversation, CommandSent
    <3>6. CASE ReplySent
      BY <1>a, <1>b, <3>1, <3>3, <3>6 DEF Conversation, ReplySent
    <3>7. CASE Uploading
      BY <1>a, <1>b, <2>1, <3>1, <3>3, <3>7 DEF Conversation, Uploading
    <3> QED BY <3>2, <3>4, <3>5, <3>6, <3>7
  <2> QED BY <1>c, <2>2, <2>3
<1> QED BY <1>3, <1>4, <1>5, <1>6, <1>7, <1>8, <1>9, <1>10, <1>11, <1>12

\* SyncInv is an invariant of Session.
LEMMA SyncInvHolds == Spec => []SyncInv
<1>1. ASSUME SyncInv, UNCHANGED vars PROVE SyncInv'
  BY <1>1 DEF vars, transport, SyncInv, Gone, Fits, Conversation, Resting, CommandSent, Served, ReplySent,
              DataAsked, DataSent, Uploading, Silence, Serving, Free, Asked, Reply
<1>2. ASSUME TypeInv, TypeInv', SessionInv, SyncInv, DeviceStep PROVE SyncInv'
  <2>1. /\ Gone' = Gone /\ (Gone => inbox' = <<>>) /\ UNCHANGED sent
        /\ ~Gone => socket' = TRUE /\ failed' = FALSE
    BY <1>2, DeviceLink
  <2>2. (pc = "data" => total < DataSize)'
    BY <1>2, DataShort
  <2>3. ASSUME Fits', ~Gone' PROVE Conversation'
    <3>1. Fits /\ ~Gone /\ Conversation
      BY <1>2, <2>1, <2>3 DEF Fits, SyncInv
    <3> QED BY <1>2, <3>1, ReadSync, HandlerSync DEF DeviceStep
  <2> QED BY <2>1, <2>2, <2>3 DEF SyncInv
<1>3. TypeInv /\ TypeInv' /\ SessionInv /\ SyncInv /\ [Next]_vars => SyncInv'
  BY <1>1, <1>2, HostSync DEF Next
<1> QED BY SyncInit, TypeInvHolds, SessionInvHolds, <1>3, PTL DEF Spec

\* As long as the host's commands fit the device's buffer, a reply on its way
\* answers the command the host is waiting for, and none is on its way while it
\* is not: for any number of commands, any size of image, and every way
\* SparseWriteCallback cuts it.  The hypothesis is the one the code leaves
\* unenforced (FB_COMMAND_SZ is larger than FB_RESPONSE_SZ).
THEOREM AlwaysInStep == Spec => []InStep
<1>1. TypeInv /\ SyncInv => InStep
  <2> SUFFICES ASSUME TypeInv, SyncInv, Fits
               PROVE  /\ \A i \in 1..Len(inbox) : inbox[i].to = Len(sent)
                      /\ host \in {"idle", "data"} => inbox = <<>>
    BY DEF InStep, Fits
  <2>1. CASE Gone
    BY <2>1 DEF SyncInv, Gone
  <2>2. CASE ~Gone
    <3>1. Conversation
      BY <2>2 DEF SyncInv
    <3>2. host \in {"idle", "data"} => inbox = <<>>
      BY <3>1 DEF Conversation, Resting, CommandSent, Served, ReplySent, DataAsked, DataSent, Uploading
    <3>3. \E a, b, c \in {"OKAY", "FAIL", "DATA", "payload"} :
             inbox \in {<<>>, <<Reply(a)>>, <<Reply(a), Reply(b)>>, <<Reply(a), Reply(b), Reply(c)>>}
      BY <3>1 DEF Conversation, Resting, CommandSent, Served, ReplySent, DataAsked, DataSent, Uploading
    <3>4. PICK a, b, c \in {"OKAY", "FAIL", "DATA", "payload"} :
             inbox \in {<<>>, <<Reply(a)>>, <<Reply(a), Reply(b)>>, <<Reply(a), Reply(b), Reply(c)>>}
      BY <3>3
    <3>5. Reply(a).to = Len(sent) /\ Reply(b).to = Len(sent) /\ Reply(c).to = Len(sent)
      BY DEF Reply
    <3>6. \A i \in 1..Len(inbox) : inbox[i] \in {Reply(a), Reply(b), Reply(c)}
      BY <3>4
    <3> QED BY <3>2, <3>5, <3>6
  <2> QED BY <2>1, <2>2
<1> QED BY TypeInvHolds, SyncInvHolds, <1>1, PTL

============================================================================
