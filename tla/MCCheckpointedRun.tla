------------------------- MODULE MCCheckpointedRun -------------------------
(***************************************************************************)
(* CheckpointedRun for TLC: a deployment has matching keys, or no key to   *)
(* verify with; which process is which makes no difference.                *)
(***************************************************************************)
EXTENDS CheckpointedRun, TLC

CONSTANT k1

MCMatchingKeys == {[sign |-> k1, verify |-> k1]}
MCKeySetups    == MCMatchingKeys \cup {[sign |-> k1, verify |-> Unset]}

\* Of a state, what decides the rest of its run: neither the findings, nor the
\* focus, nor how a hypothesis that is not confirmed stands.
MCState(s) ==
  [s EXCEPT !.findings = {},
            !.focus = Unset,
            !.hyp = [h \in Hyps |-> IF s.hyp[h] \in {Absent, "confirmed"}
                                      THEN s.hyp[h] ELSE "open"]]

\* Of a checkpoint, what a reader of it asks: only one at END is compared with
\* the state of its run, and it is the only one of its run that is at END.
MCSeen(checkpoint) ==
  CASE checkpoint = None -> None
    [] checkpoint # None /\ checkpoint.next = "END" -> At(MCState(checkpoint.state), "END")
    [] OTHER -> <<checkpoint.next, checkpoint.state.phase, Executed(checkpoint.state)>>

\* Between calls it makes no difference how the last one ended.
MCPlace(p) ==
  IF pc[p] \in Idle /\ (pc[p] = "returned" => result[p] # None) THEN "idle" ELSE pc[p]

\* The counts decide whether there was an overlap, and how many executions are
\* still excused.
MCCounts == <<calls, overlaps > 0, [a \in Hashes |-> overlaps + unseen - applied[a]]>>

\* Of the checkpoints that nobody will write only the newest written one, and
\* of those older than it only how many a process has to write, can be told
\* apart by any action or property.
MCView ==
  LET waiting == SelectSeq(SubSeq(log, top + 1, Len(log)), LAMBDA e : e.by # None)
  IN  <<[p \in Procs |-> <<MCPlace(p), next[p], MCState(state[p])>>],
        keys, MCCounts, MCSeen(cp),
        [p \in Procs |-> Cardinality({i \in Queued(p) : i < top})],
        [i \in DOMAIN waiting |-> <<waiting[i].by, MCSeen(waiting[i].at)>>]>>

MCSymmetry == Permutations(Procs)
=============================================================================
