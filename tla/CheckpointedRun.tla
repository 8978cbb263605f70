-------------------------- MODULE CheckpointedRun --------------------------
(***************************************************************************)
(* Calls of run_once for one incident by several processes, one after the  *)
(* other or at the same time, over the checkpoints in Postgres.  A call    *)
(* looks for a checkpoint, and drives the graph from the seed if there is  *)
(* none.  A process may crash at any point.                                *)
(*                                                                         *)
(* The saver writes behind the run: after each superstep a checkpoint is   *)
(* made, the checkpoints of a run are written in order while later nodes   *)
(* run, however many are not written yet, and the stream ends only when    *)
(* all are.  All runs write under the id of the incident, and a reader     *)
(* gets the newest checkpoint by the time it was made, whichever run it is *)
(* of.  What the Coordinator's executor does to the cluster is there at    *)
(* once, whether it then returns or raises.                                *)
(***************************************************************************)
EXTENDS IncidentNodes, FiniteSetsExt

CONSTANTS
  Procs,      \* the processes that call
  KeySetups,  \* as in IncidentGraph
  None,       \* no checkpoint; nobody
  MaxCalls    \* bound on the calls of run_once

ASSUME BoundAssumption == MaxCalls \in Nat
ASSUME ProcsAssumption == IsFiniteSet(Procs) /\ None \notin Procs
ASSUME KeysAssumption ==
  KeySetups \subseteq [sign : Keys \cup {Unset}, verify : Keys \cup {Unset}]

VARIABLES
  state, next,  \* per process, the run: see IncidentGraph
  keys,      \* PLANNER_SIGNING_KEY and PLANNER_VERIFY_KEY of the deployment
  pc,        \* per process: where the call is
  result,    \* per process: the node for which the returned checkpoint waits
  log,       \* the checkpoints in the order made, with who has yet to write it
  top,       \* the newest of them that is in Postgres
  calls,     \* calls so far
  applied,   \* how often each intent was executed, over all calls
  overlaps,  \* calls that found no checkpoint while another was driving
  unseen     \* crashes in or after the Coordinator with nothing in Postgres

local == <<state, next, keys, pc, result>>
saver == <<log, top>>
counts == <<calls, overlaps, unseen>>
vars  == <<local, saver, counts, applied>>

Checkpoint == [state : IncidentState, next : Node \cup {"END"}]
\* Nobody writes one that is written, or whose process crashed.
Entry      == [by : Procs \cup {None}, at : Checkpoint]

ASSUME NoneAssumption == None \notin Checkpoint \cup Node \cup {"END"}

Idle    == {"idle", "returned", "raised", "lost", "crashed"}
Driving == {"begin", "run", "readback"}

Queued(p) == {i \in DOMAIN log : log[i].by = p}

\* What aget answers.
cp == IF top = 0 THEN None ELSE log[top].at

Init ==
  /\ state = [p \in Procs |-> SeedIncident]
  /\ next = [p \in Procs |-> "intake"]
  /\ keys \in KeySetups
  /\ pc = [p \in Procs |-> "idle"]
  /\ result = [p \in Procs |-> None]
  /\ log = << >>
  /\ top = 0
  /\ calls = 0
  /\ applied = [a \in Hashes |-> 0]
  /\ overlaps = 0
  /\ unseen = 0

----------------------------------------------------------------------------
(* The graph in the process: the supersteps of IncidentGraph as sets of    *)
(* outcomes.                                                               *)

At(s, node) == [state |-> s, next |-> node]

Outcomes(node, s, k) ==
  CASE node = "intake" -> {At(IntakeNode(s), "investigator")}
    [] node = "investigator" ->
         LET ticks == {InvestigatorNode(s, out) : out \in InvestigatorOutput}
         IN  {At(t, RouteAfterInvestigator(t)) : t \in ticks}
    [] node = "collectors" ->
         {At(CollectorsNode(s, failed), "investigator") : failed \in BOOLEAN}
    [] node = "planner" ->
         {At(PlannerNode(s, d, k.sign), "coordinator") :
            d \in {d \in PlannerDecision : NeedsIntent(d) => k.sign # Unset}}
    [] node = "coordinator" /\ k.verify # Unset ->
         {At(CoordinatorNode(s, k.verify, failAt, compensates), "END") :
            failAt \in 0 .. Len(s.intents), compensates \in BOOLEAN}
    [] OTHER -> {}

MayRaise(node, s, k) ==
  \/ node = "investigator" /\ s.attempts < MaxAttempts
  \/ node = "planner"
  \/ node = "coordinator" /\ k.verify = Unset

----------------------------------------------------------------------------
(* run_once *)

Call(p) ==
  /\ pc[p] \in Idle /\ calls < MaxCalls
  /\ pc' = [pc EXCEPT ![p] = "check"]
  /\ calls' = calls + 1
  /\ result' = [result EXCEPT ![p] = None]
  /\ UNCHANGED <<state, next, keys, saver, applied, overlaps, unseen>>

\* There is none: the call will drive the graph.
DrivesOn(p) ==
  /\ pc' = [pc EXCEPT ![p] = "begin"]
  /\ overlaps' = IF \E q \in Procs \ {p} : pc[q] \in Driving THEN overlaps + 1 ELSE overlaps
  /\ UNCHANGED result

ReturnsPrior(p) ==
  /\ pc' = [pc EXCEPT ![p] = "returned"]
  /\ result' = [result EXCEPT ![p] = cp.next]
  /\ UNCHANGED overlaps

\* Mutation: the prior checkpoint is not looked for.
CheckNothing(p) ==
  /\ pc[p] = "check"
  /\ DrivesOn(p)
  /\ UNCHANGED <<state, next, keys, saver, calls, applied, unseen>>

\* Mutation: the test for a prior checkpoint is the wrong way round.
CheckInverted(p) ==
  /\ pc[p] = "check"
  /\ IF cp = None
       THEN pc' = [pc EXCEPT ![p] = "returned"] /\ UNCHANGED <<result, overlaps>>
       ELSE DrivesOn(p)
  /\ UNCHANGED <<state, next, keys, saver, calls, applied, unseen>>

\* Any prior checkpoint is returned, whatever node it waits for.
Check(p) ==
  /\ pc[p] = "check"
  /\ IF cp # None THEN ReturnsPrior(p) ELSE DrivesOn(p)
  /\ UNCHANGED <<state, next, keys, saver, calls, applied, unseen>>

\* A checkpoint of the run is made and waits for the saver.
Makes(p, checkpoint) ==
  /\ log' = Append(log, [by |-> p, at |-> checkpoint])
  /\ UNCHANGED top

\* astream takes the seed: the input checkpoint.  One that another run has
\* written by now is not looked at: the input replaces every channel.
Begin(p) ==
  /\ pc[p] = "begin"
  /\ pc' = [pc EXCEPT ![p] = "run"]
  /\ Makes(p, At(state[p], next[p]))
  /\ UNCHANGED <<state, next, keys, result, counts, applied>>

Count(hashes) == [a \in Hashes |-> applied[a] + (IF a \in hashes THEN 1 ELSE 0)]

\* What a superstep executed: what its actions report, and perhaps what they
\* report as failed.
Makings(old, new) ==
  {(Executed(new) \ Executed(old)) \cup also : also \in SUBSET (Failed(new) \ Failed(old))}

Superstep(p) ==
  /\ pc[p] = "run" /\ next[p] \in Node
  /\ \E out \in Outcomes(next[p], state[p], keys) :
       /\ state' = [state EXCEPT ![p] = out.state]
       /\ next' = [next EXCEPT ![p] = out.next]
       /\ Makes(p, out)
       /\ \E made \in Makings(state[p], out.state) : applied' = Count(made)
  /\ UNCHANGED <<keys, pc, result, counts>>

\* A node that raises has no checkpoint.
NodeRaises(p) ==
  /\ pc[p] = "run" /\ MayRaise(next[p], state[p], keys)
  /\ next' = [next EXCEPT ![p] = "raised"]
  /\ UNCHANGED <<state, keys, pc, result, saver, counts, applied>>

\* aput, for the oldest checkpoint that the run has not written.
Persist(p) ==
  /\ Queued(p) # {}
  /\ LET i == Min(Queued(p))
     IN  /\ log' = [log EXCEPT ![i] = [by |-> None, at |-> @.at]]
         /\ top' = IF i > top THEN i ELSE top
  /\ UNCHANGED <<local, counts, applied>>

\* The call is over and its process forgets the run.
Ends(p, how) ==
  /\ pc' = [pc EXCEPT ![p] = how]
  /\ state' = [state EXCEPT ![p] = SeedIncident]
  /\ next' = [next EXCEPT ![p] = "intake"]

\* Mutation: the final checkpoint is read while the stream is still open.
StreamLeftEarly(p) ==
  /\ pc[p] = "run" /\ next[p] = "END"
  /\ pc' = [pc EXCEPT ![p] = "readback"]
  /\ UNCHANGED <<state, next, keys, result, saver, counts, applied>>

\* The stream is consumed to its end.
StreamEnds(p) ==
  /\ pc[p] = "run" /\ next[p] = "END" /\ Queued(p) = {}
  /\ pc' = [pc EXCEPT ![p] = "readback"]
  /\ UNCHANGED <<state, next, keys, result, saver, counts, applied>>

\* The exception leaves run_once.
RunFails(p) ==
  /\ pc[p] = "run" /\ next[p] = "raised" /\ Queued(p) = {}
  /\ Ends(p, "raised")
  /\ UNCHANGED <<keys, result, saver, counts, applied>>

ReadBack(p) ==
  /\ pc[p] = "readback"
  /\ IF cp # None
       THEN Ends(p, "returned") /\ result' = [result EXCEPT ![p] = cp.next]
       ELSE Ends(p, "lost") /\ UNCHANGED result
  /\ UNCHANGED <<keys, saver, counts, applied>>

\* A crash in the middle of the Coordinator's execution loop, or in its
\* compensation.
AppliedBeforeCrash(p) ==
  \/ UNCHANGED applied
  \/ /\ pc[p] = "run" /\ next[p] = "coordinator" /\ keys.verify # Unset
     /\ Forged(state[p], keys.verify) = {} /\ Preflight(state[p]) = "ok"
     /\ \E n \in DOMAIN state[p].intents :
          applied' = Count({state[p].intents[j].hash : j \in 1 .. n})

\* The Coordinator may have executed, and no later call can know.
LeavesNoTrace(p) ==
  pc[p] = "run" /\ next[p] \in {"coordinator", "END"} /\ cp = None

Crash(p) ==
  /\ pc[p] \notin Idle
  /\ AppliedBeforeCrash(p)
  /\ unseen' = IF LeavesNoTrace(p) THEN unseen + 1 ELSE unseen
  /\ Ends(p, "crashed")
  /\ log' = [i \in DOMAIN log |->
               IF log[i].by = p THEN [by |-> None, at |-> log[i].at] ELSE log[i]]
  /\ UNCHANGED <<keys, result, top, calls, overlaps>>

\* Nobody calls any more.
Ended == (\A p \in Procs : pc[p] \in Idle) /\ calls = MaxCalls /\ UNCHANGED vars

Next ==
  \/ \E p \in Procs :
       \/ Call(p) \/ Check(p) \/ Begin(p)
       \/ Superstep(p) \/ NodeRaises(p) \/ Persist(p)
       \/ StreamEnds(p) \/ RunFails(p) \/ ReadBack(p)
       \/ Crash(p)
  \/ Ended

Spec == Init /\ [][Next]_vars

----------------------------------------------------------------------------
(* Properties *)

TypeOK ==
  /\ state \in [Procs -> IncidentState]
  /\ next \in [Procs -> Node \cup {"END", "raised"}]
  /\ keys \in KeySetups
  /\ pc \in [Procs -> Idle \cup Driving \cup {"check"}]
  /\ log \in Seq(Entry)
  /\ top \in 0 .. Len(log)
  /\ calls \in 0 .. MaxCalls
  /\ overlaps \in Nat /\ unseen \in Nat
  /\ applied \in [Hashes -> Nat]
  /\ result \in [Procs -> Node \cup {"END", None}]
  /\ \A p \in Procs : pc[p] = "returned" => result[p] # None

(* However often run_once is called for an incident, and wherever a call   *)
(* crashes, an intent is executed once, and again only for a reason that   *)
(* no later call can see: once more at most for every call that looked for *)
(* a checkpoint while another one was driving, and for every crash after   *)
(* the Coordinator began of a run of which Postgres has nothing.  A call   *)
(* that finds a checkpoint runs no node.                                   *)
ReexecutedOnlyUnseen == \A a \in Hashes : applied[a] <= 1 + overlaps + unseen

(* A call that drove the graph to END, with no other beside it, will read  *)
(* its own end back and not an older checkpoint; and it never finds        *)
(* nothing, the RuntimeError of run_once, not even beside others.          *)
ReadsBackItsEnd ==
  \A p \in Procs :
    pc[p] = "readback" => /\ cp # None
                          /\ overlaps = 0 => cp = At(state[p], "END")

(* A reader of the checkpoints sees the incident move through its          *)
(* lifecycle, over all calls and crashes, as long as no two runs overlap:  *)
(* it is never set back, and a run that was cut short is not taken up      *)
(* again.                                                                  *)
Stored == INSTANCE IncidentLifecycle WITH
            phase   <- IF cp = None THEN "intake" ELSE cp.state.phase,
            applied <- IF cp = None THEN {} ELSE Executed(cp.state),
            running <- \/ cp = None
                       \/ cp.next # "END" /\ \E p \in Procs : pc[p] = "run"

StoredLifecycle ==
  Stored!Init /\ [][Stored!Next \/ overlaps' > 0]_(Stored!vars)

(* What the docstring of run_once says of its result: the state at END, of *)
(* this run or of a prior run that already finished.                       *)
ReturnsFinishedRun ==
  \A p \in Procs : pc[p] = "returned" => result[p] = "END"
=============================================================================
