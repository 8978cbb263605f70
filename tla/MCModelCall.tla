---------------------------- MODULE MCModelCall ----------------------------
(***************************************************************************)
(* ModelCall for TLC: every output model, any answers and statuses.        *)
(***************************************************************************)
EXTENDS ModelCall

\* The default of LLMSettings.
MCApiRetries == 2
=============================================================================
