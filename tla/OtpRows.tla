------------------------------ MODULE OtpRows ------------------------------
(***************************************************************************)
(* oem mac and oem otp (commands.cpp) over rpi::otp (otp.cpp): the MAC     *)
(* address of an interface is two words behind a firmware tag, the         *)
(* customer region is kCustomerRows words.  A word is the set of its bits  *)
(* that are programmed; programming adds bits and never removes one.       *)
(*                                                                         *)
(* The firmware may refuse a call, may program any part of what it was     *)
(* given (and report either success or failure), and power may go while it *)
(* does.  Only the control session has these commands.                     *)
(***************************************************************************)
EXTENDS Integers, Sequences, FiniteSets

CONSTANTS
  Ifaces,       \* MacInterface
  CustomerRows, \* kCustomerRows
  OctetBits,    \* bits of an octet: 8
  TryMacs,      \* the addresses a host asks for
  TryWords,     \* the row values a host asks for
  Malformed,    \* an argument that is not an address
  NotAcked      \* no success was reported for the word

ASSUME OtpRowsAssumption ==
  /\ CustomerRows \in Nat /\ OctetBits \in Nat \ {0}
  /\ TryMacs \subseteq [0 .. 5 -> SUBSET (0 .. OctetBits - 1)]
  /\ TryWords \subseteq SUBSET Nat
  /\ "customer" \notin Ifaces

VARIABLES
  otp,   \* the words in the chip
  acked, \* history: the value each word was last reported to hold
  rowPc, \* idle, or where `set` is: burn, readback
  req,   \* the words a `set` wants programmed
  said   \* the last reply

rowVars == <<otp, acked, rowPc, req, said>>

NoWords == [w \in {} |-> {}]

\* The tags' two words of an interface, and the customer rows.
MacWords(iface) == {iface} \X {0, 1}
RowWord(row) == <<"customer", row>>
OtpWords == (UNION {MacWords(i) : i \in Ifaces})
            \union {RowWord(r) : r \in 0 .. CustomerRows - 1}
----------------------------------------------------------------------------
\* MacToWords packs four octets and then two, the first one lowest.
MacToWords(iface, mac) ==
  [w \in MacWords(iface) |->
     UNION {{OctetBits * (o % 4) + b : b \in mac[o]} : o \in {o2 \in 0 .. 5 : o2 \div 4 = w[2]}}]

MacFromWords(iface, words) ==
  [o \in 0 .. 5 |-> {b \in 0 .. OctetBits - 1 : OctetBits * (o % 4) + b \in words[<<iface, o \div 4>>]}]

MacIsBlank(mac) == \A o \in 0 .. 5 : mac[o] = {}
MacIsIgnored(mac) == \A o \in 0 .. 5 : mac[o] = 0 .. OctetBits - 1
ValidateMac(mac) == ~MacIsBlank(mac) /\ ~MacIsIgnored(mac) /\ 0 \notin mac[0]

\* The words OTP reads back for a set of words.
Held(words) == [w \in words |-> otp[w]]

GetCustomerMac(iface) == MacFromWords(iface, Held(MacWords(iface)))

RowsFrom(start, count) == {RowWord(r) : r \in start .. start + count - 1}

\* ReadCustomerOtp's bounds.
InCustomerRegion(start, count) ==
  count # 0 /\ start < CustomerRows /\ count <= CustomerRows - start

\* WriteCustomerOtp asks for values[i] at row start + i.
RowRequest(start, values) ==
  [w \in RowsFrom(start, Len(values)) |-> values[w[2] - start + 1]]
----------------------------------------------------------------------------
SayWith(cmd, status, value) == said' = [cmd |-> cmd, status |-> status, value |-> value]
Say(cmd, status) == SayWith(cmd, status, NoWords)
Quiet == UNCHANGED <<otp, acked, rowPc, req>>

RowsInit ==
  /\ otp = [w \in OtpWords |-> {}] /\ acked = [w \in OtpWords |-> NotAcked]
  /\ rowPc = "idle" /\ req = NoWords
  /\ said = [cmd |-> "none", status |-> "none", value |-> NoWords]

\* A success: AlreadyMatches, or Programmed.
Succeed(cmd, words) ==
  /\ acked' = [w \in OtpWords |-> IF w \in DOMAIN words THEN words[w] ELSE acked[w]]
  /\ Say(cmd, "OKAY")

RowsFail(cmd) == Say(cmd, "FAIL") /\ Quiet

\* The read, comparison and refusal before the write.
Decide(cmd, want, matches, refused) ==
  /\ rowPc = "idle"
  /\ \/ RowsFail(cmd) \* the read failed
     \/ matches /\ Succeed(cmd, want) /\ UNCHANGED <<otp, rowPc, req>>
     \/ ~matches /\ refused /\ RowsFail(cmd)
     \/ /\ ~matches /\ ~refused
        /\ rowPc' = "burn" /\ req' = want
        /\ UNCHANGED <<otp, acked, said>>

\* Mutant of SetCustomerMac: whatever the address was, it is overwritten.
SetCustomerMacBlind(iface, mac) ==
  Decide("mac set", MacToWords(iface, mac), GetCustomerMac(iface) = mac, ~ValidateMac(mac))

\* SetCustomerMac up to the write: only an address that reads blank is written.
SetCustomerMac(iface, mac) ==
  IF ~ValidateMac(mac)
  THEN rowPc = "idle" /\ RowsFail("mac set")
  ELSE LET current == GetCustomerMac(iface)
       IN  Decide("mac set", MacToWords(iface, mac), current = mac, ~MacIsBlank(current))

\* oem mac set: the interface and the address are parsed first.
MacSet(iface, mac) ==
  IF iface \notin Ifaces \/ mac = Malformed
  THEN rowPc = "idle" /\ RowsFail("mac set")
  ELSE SetCustomerMac(iface, mac)

\* oem mac get: an address that reads blank or all ones is named as such.
MacGet(iface) ==
  /\ rowPc = "idle" /\ Quiet
  /\ \/ Say("mac get", "FAIL")
     \/ iface \in Ifaces /\ SayWith("mac get", "OKAY", GetCustomerMac(iface))

\* oem mac check answers from the address alone.
MacCheck(mac) ==
  /\ rowPc = "idle" /\ Quiet
  /\ Say("mac check", IF mac = Malformed THEN "FAIL"
                      ELSE IF ValidateMac(mac) THEN "OKAY" ELSE "FAIL")

\* WriteCustomerOtp up to the write: every row matches or is blank.
WriteCustomerOtp(start, values) ==
  LET want == RowRequest(start, values)
  IN  Decide("otp set", want, Held(DOMAIN want) = want,
             \E w \in DOMAIN want : otp[w] # want[w] /\ otp[w] # {})

\* oem otp set <row> <word>...
OtpSet(start, values) ==
  IF ~InCustomerRegion(start, Len(values))
  THEN rowPc = "idle" /\ RowsFail("otp set")
  ELSE WriteCustomerOtp(start, values)

\* oem otp get <row> [count]
OtpGet(start, count) ==
  /\ rowPc = "idle" /\ Quiet
  /\ \/ Say("otp get", "FAIL")
     \/ InCustomerRegion(start, count) /\ SayWith("otp get", "OKAY", Held(RowsFrom(start, count)))

\* MboxProperty with a set tag: the firmware programs what it was given, or a
\* part of it, and its answer (or the lack of one) says so or not.
MboxProperty(ok) ==
  /\ rowPc = "burn"
  /\ \E burnt \in [DOMAIN req -> SUBSET UNION {req[w] : w \in DOMAIN req}] :
       /\ \A w \in DOMAIN req : burnt[w] \subseteq req[w]
       /\ otp' = [w \in OtpWords |-> IF w \in DOMAIN req THEN otp[w] \union burnt[w] ELSE otp[w]]
  /\ IF ok
     THEN rowPc' = "readback" /\ UNCHANGED <<req, said>>
     ELSE rowPc' = "idle" /\ req' = NoWords /\ Say("set", "FAIL")
  /\ UNCHANGED acked

\* The rows are read again and compared before success is reported.
ReadBack ==
  /\ rowPc = "readback"
  /\ \/ Say("set", "FAIL") /\ UNCHANGED acked \* the read failed
     \/ IF Held(DOMAIN req) = req
        THEN Succeed("set", req)
        ELSE Say("set", "FAIL") /\ UNCHANGED acked
  /\ rowPc' = "idle" /\ req' = NoWords
  /\ UNCHANGED otp

\* Power goes: before, after or (with MboxProperty's part) during a write.
PowerCut ==
  /\ rowPc # "idle"
  /\ rowPc' = "idle" /\ req' = NoWords /\ Say("none", "none")
  /\ UNCHANGED <<otp, acked>>

RowValues == UNION {[1 .. n -> TryWords] : n \in 1 .. CustomerRows + 1}

RowsNext ==
  \/ \E i \in Ifaces \union {"unknown"}, mac \in TryMacs \union {Malformed} : MacSet(i, mac)
  \/ \E i \in Ifaces \union {"unknown"} : MacGet(i)
  \/ \E mac \in TryMacs \union {Malformed} : MacCheck(mac)
  \/ \E start \in 0 .. CustomerRows, values \in RowValues : OtpSet(start, values)
  \/ \E start \in 0 .. CustomerRows, count \in 0 .. CustomerRows + 1 : OtpGet(start, count)
  \/ \E ok \in BOOLEAN : MboxProperty(ok)
  \/ ReadBack
  \/ PowerCut

RowsSpec == RowsInit /\ [][RowsNext]_rowVars
----------------------------------------------------------------------------
\* A word that `set` reported as programmed holds what was asked for, whatever
\* the firmware programmed and whatever was asked for later; a word asked to be
\* blank may be programmed later.
AckedIsHeld ==
  \A w \in OtpWords : acked[w] \notin {NotAcked, {}} => otp[w] = acked[w]

Once == INSTANCE WriteOnce WITH Blank <- {}

\* otp.cpp:270,340 - OTP bits cannot be cleared: no word is ever programmed a
\* second time, not even one that an interrupted write left half done, and what
\* is reported is what the word holds.
ImplementsWriteOnce == Once!WriteOnceSpec
============================================================================
