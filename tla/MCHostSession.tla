--------------------------- MODULE MCHostSession ---------------------------
(***************************************************************************)
(* A host and a device: one session over TCP (Session), an image on its    *)
(* way from a file through sparse pieces to a disk (SparseFile), and the   *)
(* plan of tasks that flashall and update make and run (HostPlan).  Each   *)
(* takes the others for granted, so one behaviour exercises one of them,   *)
(* the one in focus, and leaves the others where they start.               *)
(***************************************************************************)
EXTENDS Session, SparseFile, HostPlan

VARIABLE focus

InFocus(c) == focus = c /\ UNCHANGED focus

\* The plan the other components' behaviours are given.
PlainPlan == [cmd |-> "flashall", slot |-> "", wipe |-> FALSE, reboot |-> FALSE, secondary |-> FALSE,
              info |-> "none", ab |-> FALSE, superEmpty |-> FALSE, optimise |-> FALSE]

HostSessionInit ==
  /\ focus \in {"session", "sparse", "host"}
  /\ Init
  /\ SparseInit /\ (focus # "sparse" => sfSource = "raw" /\ sfLimit = CHOOSE n \in Limits : TRUE)
  /\ HostInit /\ (focus # "host" => hpPlan = PlainPlan /\ hpMode = "bootloader")

HostSessionNext ==
  \/ InFocus("session") /\ Next /\ UNCHANGED <<sfVars, hpVars>>
  \/ InFocus("sparse") /\ SparseNext /\ UNCHANGED <<vars, hpVars>>
  \/ InFocus("host") /\ HostNext /\ UNCHANGED <<vars, sfVars>>

HostSessionSpec ==
  /\ HostSessionInit /\ [][HostSessionNext]_<<focus, vars, sfVars, hpVars>>
  \* The fairness of Session and SparseFile, each while it is in focus.
  /\ WF_vars(focus = "session" /\ DeviceStep)
  /\ WF_sfVars(focus = "sparse" /\ SparseNext)

----------------------------------------------------------------------------
\* Neither side hangs: the device's session ends when its host has gone, and the
\* host gets to the end of an image it has begun to cut.
BothSidesEnd == SessionEnds /\ FlashEnds
============================================================================
