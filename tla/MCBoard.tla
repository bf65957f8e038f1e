------------------------------ MODULE MCBoard ------------------------------
(***************************************************************************)
(* The parts of the device that stand on the board and its firmware: the   *)
(* OTP device key (OtpKey), the OTP rows (OtpRows), the LUKS key slots     *)
(* made with that key (Keyslots), the staged buffer with the EEPROM and    *)
(* the files (Staged), and what getvar says of the network (NetVars) and   *)
(* of the board (BoardVars).  One behaviour exercises one of them, the one *)
(* in focus, and leaves the others where they start.                       *)
(***************************************************************************)
EXTENDS OtpKey, OtpRows, Keyslots, Staged, NetVars, BoardVars

\* Addresses of one bit an octet, and words of up to two bits.
MacOf(bits) == [o \in 0 .. 5 |-> IF o \in bits THEN {0} ELSE {}]
SomeMacs == {MacOf(s) : s \in {{}, 0 .. 5, {0, 2}, {1, 4}, {4}, {1, 2}}}
SomeWords == {{}, {0}, {0, 1}}

\* Images older and newer than the board allows, one whose version overflows,
\* one without, one that is too long, and data that is no image.
Img(n, s, v) == [name |-> n, size |-> s, ver |-> v]
SomePayloads == {Img("old", 2, 1), Img("new", 2, 3), Img("huge", 2, 9), Img("none", 2, 0),
                 Img("long", 3, 3), Img("data", 1, 0)}
FactoryImage == Img("factory", 2, 1)
TornImage == Img("torn", 2, 3)
HalfImage == Img("half", 2, 3)

\* What NetworkAlwaysAsTold supposes of the two ways to a netmask.
ASSUME MaskHolds == \A p \in 0 .. MaskBits : MaskOf(p) = CidrToNetmask(p)

\* Boards with a BCM2712 and with a BCM2711, with and without device tree nodes
\* and OTP from the kernel, and one without a radio.
Code(s) == [new |-> TRUE, soc |-> s]
Own == [ethernet |-> <<"e1", "e2">>, wifi |-> <<"w1", "w2">>, bluetooth |-> <<"b1", "b2">>]
MacRow == (50 :> "e2") @@ (51 :> "e1") @@ (52 :> "w2") @@ (53 :> "w1") @@ (54 :> "b2") @@ (55 :> "b1")
Rows2712 == (30 :> Blank) @@ (32 :> Code(4)) @@ MacRow
Rows2711 == (30 :> Code(3)) @@ (32 :> [new |-> FALSE, soc |-> 4]) @@ [r \in 50 .. 55 |-> "other"]
Board(soc, rows, dtRev, nvmem, dt) ==
  [rev |-> Code(soc), rows |-> rows, dtRev |-> dtRev, nvmem |-> nvmem, dt |-> dt, mac |-> Own,
   chip |-> [id |-> "id", uid |-> IF soc = 4 THEN "uid" ELSE Unset]]
Nodes == [ethernet |-> Own.ethernet, wifi |-> <<Blank, Blank>>, bluetooth |-> Reverse(Own.bluetooth)]
NoNodes == [i \in Macs |-> Unset]
Bare == Board(4, Rows2712, FALSE, FALSE, NoNodes)
NoRadio == [Bare EXCEPT !.mac.wifi = <<Blank, Blank>>, !.rows[52] = Blank, !.rows[53] = Blank]
SomeBoards ==
  {NoRadio}
  \cup {Board(4, Rows2712, a, b, d) : a \in BOOLEAN, b \in BOOLEAN, d \in {Nodes, NoNodes}}
  \cup {Board(3, Rows2711, a, b, d) : a \in BOOLEAN, b \in BOOLEAN, d \in {Nodes, NoNodes}}
----------------------------------------------------------------------------
VARIABLE focus

InFocus(c) == focus = c /\ UNCHANGED focus

MCBoardInit ==
  /\ focus \in {"key", "rows", "luks", "staged", "net", "board"}
  /\ Init /\ (focus # "key" => provisioned /\ locked)
  /\ RowsInit /\ KeysInit /\ StagedInit
  /\ NetInit /\ (focus # "net" => nvKind = "address" /\ tools = {})
  /\ BoardInit /\ (focus # "board" => board = Bare)

MCBoardNext ==
  \/ InFocus("key") /\ Next /\ UNCHANGED <<rowVars, crVars, stVars, nvVars, bvVars>>
  \/ InFocus("rows") /\ RowsNext /\ UNCHANGED <<vars, crVars, stVars, nvVars, bvVars>>
  \/ InFocus("luks") /\ KeysNext /\ UNCHANGED <<vars, rowVars, stVars, nvVars, bvVars>>
  \/ InFocus("staged") /\ StagedNext /\ UNCHANGED <<vars, rowVars, crVars, nvVars, bvVars>>
  \/ InFocus("net") /\ NetNext /\ UNCHANGED <<vars, rowVars, crVars, stVars, bvVars>>
  \/ InFocus("board") /\ BoardNext /\ UNCHANGED <<vars, rowVars, crVars, stVars, nvVars>>

MCBoardSpec ==
  /\ MCBoardInit
  /\ [][MCBoardNext]_<<focus, vars, rowVars, crVars, stVars, nvVars, bvVars>>
  \* StagedFairness, while it is in focus.
  /\ WF_stVars(focus = "staged" /\ StagedHandler)
============================================================================
