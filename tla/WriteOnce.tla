----------------------------- MODULE WriteOnce -----------------------------
(***************************************************************************)
(* What the OTP commands promise a provisioner, without saying how: every  *)
(* word of OTP is programmed at most once, and what is reported of a word  *)
(* is what it holds.                                                       *)
(***************************************************************************)
CONSTANTS OtpWords, \* the one-time-programmable words
          Blank,    \* what an unprogrammed word reads as
          NotAcked  \* no success was reported for the word

VARIABLES
  otp,  \* what each word holds
  acked \* the value each word was last reported to hold

WriteOnceInit ==
  /\ \A w \in OtpWords : otp[w] = Blank
  /\ acked = [w \in OtpWords |-> NotAcked]

\* Blank words get a value, a torn one included; the others keep theirs.
Program ==
  /\ \A w \in OtpWords : otp[w] # Blank => otp'[w] = otp[w]
  /\ UNCHANGED acked

\* Words are reported as holding what they hold.
Acknowledge ==
  /\ \A w \in OtpWords : acked'[w] \in {acked[w], otp[w]}
  /\ UNCHANGED otp

WriteOnceNext == Program \/ Acknowledge

WriteOnceSpec == WriteOnceInit /\ [][WriteOnceNext]_<<otp, acked>>
============================================================================
