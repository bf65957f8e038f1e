----------------------------- MODULE BoardVars -----------------------------
(***************************************************************************)
(* What getvar says of the board itself (fastboot/device/variables.cpp,    *)
(* eeprom.cpp): the fields of its revision code, the MAC addresses of its  *)
(* interfaces, and the identity of its EEPROM chip.  Sessions ask at the   *)
(* same time.  Where the kernel does not publish OTP, each runs vcgencmd   *)
(* into the one file /tmp/otp.log, which the other may truncate; and the   *)
(* chip does not answer while a session is writing it.                     *)
(*                                                                         *)
(* An address is a pair, as the high and the low row of OTP hold it; two   *)
(* blank halves are told as an empty string: the board has no such address.*)
(***************************************************************************)
EXTENDS Integers, SequencesExt

CONSTANTS
  Boards,    \* [rev, dtRev, mac, dt, rows, nvmem, chip] of each board
  Askers,    \* the sessions
  Unset,     \* no such value
  Blank      \* an unprogrammed row

VARIABLES
  board,  \* the board this runs on
  log,    \* /tmp/otp.log: empty or dump
  busy,   \* whether the EEPROM is being written
  ask,    \* [Askers -> [what, step, todo, got]]: each session's getvar
  told    \* [Askers -> the last answer: [what, value]], Unset for a FAIL

bvVars == <<board, log, busy, ask, told>>

Macs == {"ethernet", "wifi", "bluetooth"}
Asked == Macs \cup {"revision", "jedec", "unique-id"}
MacRows(i) == CASE i = "ethernet" -> <<50, 51>> [] i = "wifi" -> <<52, 53>>
                [] OTHER -> <<54, 55>>
Idle == [what |-> "none", step |-> "idle", todo |-> <<>>, got |-> <<>>]

BoardInit ==
  /\ board \in Boards
  /\ log = "empty" /\ busy = FALSE
  /\ ask = [s \in Askers |-> Idle]
  /\ told = [s \in Askers |-> [what |-> "none", value |-> Unset]]

To(s, step) == ask' = [ask EXCEPT ![s].step = step]
\* The rows todo are to be read, next to what was got already.
ReadRows(s, todo, got) ==
  /\ ask' = [ask EXCEPT ![s] = [what |-> ask[s].what, step |-> "row", todo |-> todo, got |-> got]]
  /\ UNCHANGED told
Tell(s, v) ==
  /\ told' = [told EXCEPT ![s] = [what |-> ask[s].what, value |-> v]]
  /\ ask' = [ask EXCEPT ![s] = Idle]
----------------------------------------------------------------------------
\* local-bd-address is least significant byte first.
InOrder(i, node) == IF i = "bluetooth" THEN Reverse(node) ELSE node
NoNode(node) == node \in {Unset, <<Blank, Blank>>}

\* GetMacFromDeviceTree: a node of zeroes, or none, is no answer.
FromDeviceTree(i) == IF NoNode(board.dt[i]) THEN Unset ELSE InOrder(i, board.dt[i])

\* GetMacPreferringDeviceTree, GetRevisionBitField and QueryChipInfo begin.
GetBoardVar(s, w) ==
  /\ ask[s].step = "idle" /\ told[s].what = "none"
  /\ \/ /\ w \in Macs /\ FromDeviceTree(w) # Unset
        /\ told' = [told EXCEPT ![s] = [what |-> w, value |-> FromDeviceTree(w)]]
        /\ UNCHANGED ask
     \/ /\ ~(w \in Macs /\ FromDeviceTree(w) # Unset)
        /\ ask' = [ask EXCEPT ![s] = [Idle EXCEPT !.what = w,
                     !.step = IF w \in Macs \cup {"revision"} THEN "code" ELSE "jedec"]]
        /\ UNCHANGED told
  /\ UNCHANGED <<board, log, busy>>

\* Bit 23 marks a revision code.
HasCode(v) == v \notin {Unset, Blank} /\ v.new

\* IsBcm2712: the processor field; without a revision code, no.
Is2712(v) == v # Unset /\ v.soc = 4

\* The sources of a board agree with it (external): its device tree has the
\* addresses or none; a row that is marked as a revision code is one; on a
\* BCM2712 the rows of an address hold its halves.
ASSUME BoardsAssumption ==
  \A b \in Boards :
    /\ b.rev # Unset
    /\ \A i \in Macs : b.mac[i] # Unset /\ (NoNode(b.dt[i]) \/ InOrder(i, b.dt[i]) = b.mac[i])
    /\ HasCode(b.rows[30]) \/ HasCode(b.rows[32])
    /\ \A r \in {30, 32} : HasCode(b.rows[r]) => b.rows[r] = b.rev
    /\ b.rev.soc = 4 => \A i \in Macs : /\ b.mac[i] = <<b.rows[MacRows(i)[2]], b.rows[MacRows(i)[1]]>>
                                        /\ Unset \notin {b.rows[MacRows(i)[1]], b.rows[MacRows(i)[2]]}

\* The revision code v is known, or Unset: the field is answered, or the rows
\* of the address are read if they hold one on this SoC.
CodeKnown(s, v) ==
  \/ ask[s].what = "revision" /\ Tell(s, v)
  \/ ask[s].what # "revision" /\ Is2712(v) /\ ReadRows(s, MacRows(ask[s].what), <<>>)
  \/ ask[s].what # "revision" /\ ~Is2712(v) /\ Tell(s, Unset)

\* GetBoardRevisionCode: the device tree, else rows 32 and 30 in turn.
GetBoardRevisionCode(s) ==
  /\ ask[s].step = "code"
  /\ \/ board.dtRev /\ CodeKnown(s, board.rev)
     \/ ~board.dtRev /\ ReadRows(s, <<32, 30>>, <<>>)
  /\ UNCHANGED <<board, log, busy>>

\* Mutant of GotRow: a row that could not be read counts as unprogrammed.
GotRowAsBlank(s, v) ==
  LET got == Append(ask[s].got, IF v = Unset THEN Blank ELSE v)
      rest == Tail(ask[s].todo)
  IN  IF ask[s].todo[1] \in {30, 32}
      THEN CodeKnown(s, IF HasCode(v) THEN v ELSE Unset)
      ELSE IF rest = <<>> THEN Tell(s, Reverse(got))
      ELSE ReadRows(s, rest, got)

\* A row was read (Unset: it was not).  The first row with the mark of a revision
\* code is it; of an address both rows are needed, the low one first.
GotRow(s, v) ==
  LET a == ask[s]
      rest == Tail(a.todo)
  IN  IF a.todo[1] \in {30, 32}
      THEN \/ HasCode(v) /\ CodeKnown(s, v)
           \/ ~HasCode(v) /\ rest = <<>> /\ CodeKnown(s, Unset)
           \/ ~HasCode(v) /\ rest # <<>> /\ ReadRows(s, rest, <<>>)
      ELSE \/ v = Unset /\ Tell(s, Unset)
           \/ v # Unset /\ rest # <<>> /\ ReadRows(s, rest, <<v>>)
           \/ v # Unset /\ rest = <<>> /\ Tell(s, <<v, a.got[1]>>)

\* ReadOtpRow: from nvmem, or from a dump made for the purpose.
ReadOtpRow(s) ==
  /\ ask[s].step = "row"
  /\ \/ board.nvmem /\ GotRow(s, board.rows[ask[s].todo[1]])
     \/ ~board.nvmem /\ To(s, "open") /\ UNCHANGED told
  /\ UNCHANGED <<board, log, busy>>

\* inspectOtp: the log is truncated for vcgencmd (or the spawn fails) ...
SpawnDump(s) ==
  /\ ask[s].step = "open"
  /\ \/ log' = "empty" /\ To(s, "dumping") /\ UNCHANGED told
     \/ UNCHANGED log /\ GotRow(s, Unset)
  /\ UNCHANGED <<board, busy>>

\* ... which writes it (external), or fails ...
VcgencmdExits(s) ==
  /\ ask[s].step = "dumping"
  /\ \/ log' = "dump" /\ To(s, "read") /\ UNCHANGED told
     \/ UNCHANGED log /\ GotRow(s, Unset)
  /\ UNCHANGED <<board, busy>>

\* ... and the row is looked up in whatever the log holds by then.
inspectOtp(s) ==
  /\ ask[s].step = "read"
  /\ GotRow(s, IF log = "dump" THEN board.rows[ask[s].todo[1]] ELSE Unset)
  /\ UNCHANGED <<board, log, busy>>
----------------------------------------------------------------------------
\* What the bus reads: nothing drives it while the chip is busy, or when it does
\* not know the command.
OnBus(v) == IF busy \/ v = Unset THEN {"00", "FF"} ELSE {v}
Stuck == {"00", "FF"}

\* QueryChipInfo: the JEDEC ID; a stuck bus is not an answer.
QueryJedec(s) ==
  /\ ask[s].step = "jedec"
  /\ \E id \in OnBus(board.chip.id) :
       \/ id \in Stuck /\ Tell(s, Unset)
       \/ id \notin Stuck /\ ask[s].what = "jedec" /\ Tell(s, id)
       \/ id \notin Stuck /\ ask[s].what # "jedec" /\ To(s, "uid") /\ UNCHANGED told
  /\ UNCHANGED <<board, log, busy>>

\* ... and the unique ID, absent if all its bytes are the same.
QueryUniqueId(s) ==
  /\ ask[s].step = "uid"
  /\ \E id \in OnBus(board.chip.uid) : Tell(s, IF id \in Stuck THEN Unset ELSE id)
  /\ UNCHANGED <<board, log, busy>>

\* Another session's eeprom-update begins or ends a page.
ChipBusy ==
  /\ busy' = ~busy
  /\ UNCHANGED <<board, log, ask, told>>

\* The host has the answer and may ask again.
NextQuestion(s) ==
  /\ told[s].what # "none"
  /\ told' = [told EXCEPT ![s] = [what |-> "none", value |-> Unset]]
  /\ UNCHANGED <<board, log, busy, ask>>

BoardNext ==
  \/ \E s \in Askers : \/ \E w \in Asked : GetBoardVar(s, w)
                       \/ GetBoardRevisionCode(s) \/ ReadOtpRow(s) \/ SpawnDump(s)
                       \/ VcgencmdExits(s) \/ inspectOtp(s)
                       \/ QueryJedec(s) \/ QueryUniqueId(s) \/ NextQuestion(s)
  \/ ChipBusy

BoardSpec == BoardInit /\ [][BoardNext]_bvVars
----------------------------------------------------------------------------
\* variables.cpp:1134-1159, 407-409, eeprom.cpp:240 - an answer is about this
\* board: an address is the interface's own (or blank, when it has none), never
\* the content of rows that mean something else on this SoC, half of one, or in
\* the wrong byte order; and no ID is what an idle bus reads.  "A failed read must
\* not be answered with a MAC-shaped string."
ToldIsOfBoard ==
  \A s \in Askers :
    LET w == told[s].what
        v == told[s].value
    IN  (w # "none" /\ v # Unset) =>
          CASE w = "revision" -> v = board.rev
            [] w = "jedec" -> v = board.chip.id
            [] w = "unique-id" -> v = board.chip.uid
            [] OTHER -> v = board.mac[w]

\* An answer is not given up while there is a source for it: an address in the
\* device tree is always told, and with OTP published by the kernel no other
\* session can make a getvar fail.
SourceIsUsed ==
  \A s \in Askers :
    LET w == told[s].what
    IN  (w \in Macs /\ told[s].value = Unset) =>
          /\ NoNode(board.dt[w])
          /\ board.nvmem => ~(board.rev.soc = 4)

\* getvar tells what this board is: nothing that is not so, and nothing that a
\* source at hand would have told is withheld.
BoardAsTold == ToldIsOfBoard /\ SourceIsUsed
============================================================================
