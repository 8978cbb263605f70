-------------------------- MODULE MCIncidentGraph --------------------------
(***************************************************************************)
(* IncidentGraph for TLC.  Up to the names of the keys a process has       *)
(* matching keys, mismatched keys, or one key missing.                     *)
(***************************************************************************)
EXTENDS IncidentGraph

CONSTANTS k1, k2

MCKeySetups ==
  {[sign |-> k1, verify |-> k1],
   [sign |-> k1, verify |-> k2],
   [sign |-> Unset, verify |-> k1],
   [sign |-> k1, verify |-> Unset]}
=============================================================================
