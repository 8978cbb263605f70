----------------------------- MODULE MCIntake -----------------------------
(***************************************************************************)
(* Intake for TLC: two mentions, each of which may be delivered again.     *)
(***************************************************************************)
EXTENDS Intake

CONSTANTS m1, m2
=============================================================================
