---------------------------- MODULE MCFixReview ----------------------------
(***************************************************************************)
(* FixReview for TLC: two repositories, a hypothesis or none, the findings *)
(* of a collector that answered, of one that failed, of both or of none.   *)
(***************************************************************************)
EXTENDS FixReview

CONSTANTS r1, r2, h1, e1

MCRepos == {r1, r2}
MCHyps == {h1}
MCEvidenceIds == {e1}
=============================================================================
