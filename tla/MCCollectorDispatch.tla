------------------------ MODULE MCCollectorDispatch ------------------------
(***************************************************************************)
(* CollectorDispatch for TLC: two ticks over two hypotheses; a question    *)
(* for each collector, one for none of them, and an empty one.             *)
(***************************************************************************)
EXTENDS CollectorDispatch

MCQuestions == {"metric.", "log.", "pod.", "other", "empty"}
=============================================================================
