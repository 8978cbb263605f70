--------------------------- MODULE EvidenceStore ---------------------------
(***************************************************************************)
(* EvidenceClient.put_blob, called concurrently: the schema bootstrap, the *)
(* upload to MinIO, the insertion of the metadata row in Postgres, and the *)
(* deletion of the blob when the insertion fails.  A call is a coroutine   *)
(* of one client; a process may crash between any two of its steps.        *)
(***************************************************************************)
EXTENDS Naturals

CONSTANTS
  Calls,       \* calls of put_blob
  Ids,         \* evidence ids
  IdOf,        \* the evidence_id each call is given; two may be given the same
  Nothing      \* no blob, no row

ASSUME CallAssumption == IdOf \in [Calls -> Ids] /\ Nothing \notin Calls

VARIABLES
  pc,            \* where each call is
  table,         \* has evidence_refs been created?
  bootstrapped,  \* _schema_bootstrapped of the client
  blob,          \* the call whose payload MinIO holds under each id
  row,           \* the call that inserted the metadata row of each id
  lost           \* calls whose insertion took effect and was reported as failed

vars == <<pc, table, bootstrapped, blob, row, lost>>

Goes(c, from, to) == pc[c] = from /\ pc' = [pc EXCEPT ![c] = to]

Init ==
  /\ pc = [c \in Calls |-> "called"]
  /\ table = FALSE
  /\ bootstrapped = FALSE
  /\ blob = [i \in Ids |-> Nothing]
  /\ row = [i \in Ids |-> Nothing]
  /\ lost = {}

\* _ensure_schema; two coroutines may both find the flag unset.
SkipMigration(c) ==
  /\ Goes(c, "called", "put") /\ bootstrapped
  /\ UNCHANGED <<table, bootstrapped, blob, row, lost>>

\* Mutation: the flag is set before the migration is awaited.
EagerStartMigration(c) ==
  /\ Goes(c, "called", "migrate") /\ ~ bootstrapped
  /\ bootstrapped' = TRUE
  /\ UNCHANGED <<table, blob, row, lost>>

StartMigration(c) ==
  /\ Goes(c, "called", "migrate") /\ ~ bootstrapped
  /\ UNCHANGED <<table, bootstrapped, blob, row, lost>>

Migrate(c) ==
  /\ Goes(c, "migrate", "put")
  /\ table' = TRUE /\ bootstrapped' = TRUE
  /\ UNCHANGED <<blob, row, lost>>

MigrationFails(c) ==
  /\ Goes(c, "migrate", "raised")
  /\ UNCHANGED <<table, bootstrapped, blob, row, lost>>

\* Mutation: the key and the body of the upload are swapped.
PutSwapped(c) ==
  /\ Goes(c, "put", "insert")
  /\ blob' = [blob EXCEPT ![IdOf[c]] = IdOf[c]]
  /\ UNCHANGED <<table, bootstrapped, row, lost>>

Put(c) ==
  /\ Goes(c, "put", "insert")
  /\ blob' = [blob EXCEPT ![IdOf[c]] = c]
  /\ UNCHANGED <<table, bootstrapped, row, lost>>

\* MinIO may have stored a blob whose answer did not arrive.
PutFails(c) ==
  /\ Goes(c, "put", "raised")
  /\ blob' \in {blob, [blob EXCEPT ![IdOf[c]] = c]}
  /\ UNCHANGED <<table, bootstrapped, row, lost>>

\* ON CONFLICT DO NOTHING.
Inserted(c) == [row EXCEPT ![IdOf[c]] = IF @ = Nothing THEN c ELSE @]

\* Mutation: the blob is deleted in a finally clause.
InsertThenDelete(c) ==
  /\ Goes(c, "insert", "delete") /\ table
  /\ row' = Inserted(c)
  /\ UNCHANGED <<table, bootstrapped, blob, lost>>

Insert(c) ==
  /\ Goes(c, "insert", "returned") /\ table
  /\ row' = Inserted(c)
  /\ UNCHANGED <<table, bootstrapped, blob, lost>>

\* Mutation: the insertion's error is swallowed.
InsertFailsUnnoticed(c) ==
  /\ Goes(c, "insert", "returned")
  /\ UNCHANGED <<table, bootstrapped, blob, row, lost>>

\* Postgres may have committed an insertion whose answer did not arrive.
InsertFails(c) ==
  /\ Goes(c, "insert", "delete")
  /\ \/ UNCHANGED <<row, lost>>
     \/ /\ table
        /\ row' = Inserted(c)
        /\ lost' = lost \cup {c}
  /\ UNCHANGED <<table, bootstrapped, blob>>

\* Best effort; the error of the insertion is raised either way.
Delete(c) ==
  /\ Goes(c, "delete", "undone")
  /\ blob' = [blob EXCEPT ![IdOf[c]] = Nothing]
  /\ UNCHANGED <<table, bootstrapped, row, lost>>

DeleteFails(c) ==
  /\ Goes(c, "delete", "raised")
  /\ UNCHANGED <<table, bootstrapped, blob, row, lost>>

Terminal == {"returned", "raised", "undone", "crashed"}

\* The process dies; the flag dies with it.
Crash ==
  /\ \E c \in Calls : pc[c] \notin Terminal
  /\ pc' = [c \in Calls |-> IF pc[c] \in Terminal \cup {"called"} THEN pc[c] ELSE "crashed"]
  /\ bootstrapped' = FALSE
  /\ UNCHANGED <<table, blob, row, lost>>

Ended == (\A c \in Calls : pc[c] \in Terminal) /\ UNCHANGED vars

Next ==
  \/ \E c \in Calls :
       \/ SkipMigration(c) \/ StartMigration(c) \/ Migrate(c) \/ MigrationFails(c)
       \/ Put(c) \/ PutFails(c)
       \/ Insert(c) \/ InsertFails(c)
       \/ Delete(c) \/ DeleteFails(c)
  \/ Crash
  \/ Ended

Spec == Init /\ [][Next]_vars

----------------------------------------------------------------------------
(* Properties *)

TypeOK ==
  /\ pc \in [Calls -> Terminal \cup {"called", "migrate", "put", "insert", "delete"}]
  /\ table \in BOOLEAN /\ bootstrapped \in BOOLEAN
  /\ blob \in [Ids -> Calls \cup {Nothing}]
  /\ row \in [Ids -> Calls \cup {Nothing}]
  /\ lost \subseteq Calls

SameId(c, d) == IdOf[c] = IdOf[d]
OwnId(c)     == \A d \in Calls \ {c} : ~ SameId(c, d)

(* The client's ordering invariant: a metadata row never refers to a blob  *)
(* that MinIO does not hold, whenever a process dies.  The clean-up after  *)
(* a failed insertion is the one exception, and only where it was wrong:   *)
(* the row is that of another call with the same id, or its insertion had  *)
(* taken effect.                                                           *)
NoDanglingReference ==
  \A i \in Ids :
    row[i] # Nothing /\ blob[i] = Nothing =>
      \E d \in Calls : /\ IdOf[d] = i /\ pc[d] = "undone"
                       /\ d # row[i] \/ d \in lost

(* A call is all or nothing for the reader: the reference it returns has a *)
(* row, its own row and its own payload if no other call was given its id, *)
(* and then an error leaves no row behind that Postgres did not report.    *)
AllOrNothing ==
  \A c \in Calls :
    /\ pc[c] = "returned" => row[IdOf[c]] # Nothing
    /\ OwnId(c) =>
         /\ pc[c] = "returned" => blob[IdOf[c]] = c /\ row[IdOf[c]] = c
         /\ pc[c] \in {"raised", "undone"} => row[IdOf[c]] = Nothing \/ c \in lost

(* No coroutine reaches the insertion before the table is there, although  *)
(* another one may still be running the migration.                         *)
TableBeforeInsert == \A c \in Calls : pc[c] \in {"put", "insert"} => table
=============================================================================
