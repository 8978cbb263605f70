-------------------------- MODULE MCEvidenceStore --------------------------
(***************************************************************************)
(* EvidenceStore for TLC.  Two calls are given the same id, as a repeated  *)
(* execution record would be, and one has an id of its own.                *)
(***************************************************************************)
EXTENDS EvidenceStore

CONSTANTS c1, c2, c3, e1, e2

SharedIds == [c \in Calls |-> IF c = c3 THEN e2 ELSE e1]
=============================================================================
