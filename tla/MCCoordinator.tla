--------------------------- MODULE MCCoordinator ---------------------------
(***************************************************************************)
(* The Coordinator called on every map of hypotheses and every list of at  *)
(* most MaxIntents intents, each well signed or altered after signing.     *)
(***************************************************************************)
EXTENDS Coordinator

CONSTANT MaxIntents

IntentLists == UNION {[1 .. n -> Intent] : n \in 0 .. MaxIntents}

MCSeeds ==
  {[SeedIncident EXCEPT !.hyp = hyp, !.intents = intents, !.phase = "planning"] :
     hyp \in HypothesisMap, intents \in IntentLists}
=============================================================================
