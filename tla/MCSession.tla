----------------------------- MODULE MCSession -----------------------------
(***************************************************************************)
(* Session with a command buffer of two units, commands of up to three,    *)
(* images of two units and two commands: a download and one that uses it.  *)
(***************************************************************************)
EXTENDS Session
============================================================================
