------------------------ MODULE EvidenceStoreProofs ------------------------
(***************************************************************************)
(* Safety of the evidence store, for any number of calls, any assignment   *)
(* of ids to them, and commits whose answer is lost.                       *)
(***************************************************************************)
EXTENDS EvidenceStore, TLAPS

\* A clean-up that takes the blob from under a row of c.
CleanedUnder(c) ==
  \E d \in Calls : SameId(c, d) /\ pc[d] = "undone" /\ (d # c \/ d \in lost)

\* A call that may have a row has a blob under its id, or lost it to a clean-up.
BlobOfCall ==
  \A c \in Calls :
    pc[c] \in {"insert", "returned"} \/ c \in lost =>
      blob[IdOf[c]] # Nothing \/ CleanedUnder(c)

OwnBlob ==
  \A c \in Calls : OwnId(c) /\ pc[c] \in {"insert", "returned"} => blob[IdOf[c]] = c

\* A row is that of a call that returned, or of one that does not know of it.
RowOfCall ==
  \A i \in Ids : row[i] # Nothing =>
    IdOf[row[i]] = i /\ (pc[row[i]] = "returned" \/ row[i] \in lost)

ReturnedHasRow == \A c \in Calls : pc[c] = "returned" => row[IdOf[c]] # Nothing

LostIsFailed == \A c \in lost : pc[c] \in {"delete", "raised", "undone", "crashed"}

FlagMeansTable == bootstrapped => table

IInv ==
  /\ TypeOK
  /\ BlobOfCall
  /\ OwnBlob
  /\ RowOfCall
  /\ ReturnedHasRow
  /\ LostIsFailed
  /\ FlagMeansTable
  /\ TableBeforeInsert

LEMMA InitIInv == Init => IInv
BY CallAssumption DEF Init, IInv, TypeOK, Terminal, BlobOfCall, OwnBlob, RowOfCall,
   ReturnedHasRow, LostIsFailed, FlagMeansTable, TableBeforeInsert

(* The invariant gives the properties that the run checks.                 *)
LEMMA Consequences == ASSUME IInv PROVE NoDanglingReference /\ AllOrNothing
<1>1. /\ IdOf \in [Calls -> Ids] /\ Nothing \notin Calls
      /\ \A i \in Ids : row[i] # Nothing => row[i] \in Calls
  BY CallAssumption DEF IInv, TypeOK
<1>2. NoDanglingReference
  <2> SUFFICES ASSUME NEW i \in Ids, row[i] # Nothing, blob[i] = Nothing
               PROVE  \E d \in Calls : /\ IdOf[d] = i /\ pc[d] = "undone"
                                       /\ d # row[i] \/ d \in lost
    BY DEF NoDanglingReference
  <2>1. row[i] \in Calls /\ IdOf[row[i]] = i /\ (pc[row[i]] = "returned" \/ row[i] \in lost)
    BY <1>1 DEF IInv, RowOfCall
  <2>2. CleanedUnder(row[i])
    BY <2>1 DEF IInv, BlobOfCall
  <2> QED
    BY <2>1, <2>2 DEF CleanedUnder, SameId
<1>3. AllOrNothing
  <2> SUFFICES ASSUME NEW c \in Calls
               PROVE  /\ pc[c] = "returned" => row[IdOf[c]] # Nothing
                      /\ OwnId(c) =>
                           /\ pc[c] = "returned" => blob[IdOf[c]] = c /\ row[IdOf[c]] = c
                           /\ pc[c] \in {"raised", "undone"} =>
                                row[IdOf[c]] = Nothing \/ c \in lost
    BY DEF AllOrNothing
  <2>1. OwnId(c) /\ row[IdOf[c]] # Nothing => row[IdOf[c]] = c
    BY <1>1 DEF IInv, RowOfCall, OwnId, SameId
  <2> QED
    BY <1>1, <2>1 DEF IInv, RowOfCall, ReturnedHasRow, OwnBlob
<1> QED BY <1>2, <1>3

----------------------------------------------------------------------------
(* A step of c that leaves the table alone, or makes it.                   *)
LEMMA ControlKept ==
  ASSUME IInv, NEW c \in Calls,
         NEW to \in Terminal \cup {"called", "migrate", "put", "insert", "delete"},
         pc' = [pc EXCEPT ![c] = to],
         to \in {"put", "insert"} => table',
         table' \in BOOLEAN, table => table',
         bootstrapped' \in BOOLEAN, bootstrapped' => table',
         blob' \in [Ids -> Calls \cup {Nothing}], row' \in [Ids -> Calls \cup {Nothing}],
         lost' \subseteq Calls
  PROVE  /\ TypeOK' /\ FlagMeansTable' /\ TableBeforeInsert'
         /\ pc'[c] = to /\ \A d \in Calls \ {c} : pc'[d] = pc[d]
BY DEF IInv, TypeOK, FlagMeansTable, TableBeforeInsert

(* The steps that touch neither the blobs nor the rows.                    *)
LEMMA QuietStep ==
  ASSUME IInv, NEW c \in Calls,
         \/ SkipMigration(c) \/ StartMigration(c) \/ Migrate(c) \/ MigrationFails(c)
         \/ DeleteFails(c)
  PROVE  IInv'
<1>1. /\ TypeOK /\ pc[c] \in {"called", "migrate", "delete"}
      /\ UNCHANGED <<blob, row, lost>>
      /\ (pc[c] = "delete" => pc' = [pc EXCEPT ![c] = "raised"])
  BY DEF IInv, SkipMigration, StartMigration, Migrate, MigrationFails, DeleteFails, Goes
<1>2. PICK to \in {"put", "migrate", "raised"} :
        /\ pc' = [pc EXCEPT ![c] = to]
        /\ to = "put" => table'
        /\ table' \in BOOLEAN /\ (table => table')
        /\ bootstrapped' \in BOOLEAN /\ (bootstrapped' => table')
  <2>1. /\ table \in BOOLEAN /\ bootstrapped \in BOOLEAN /\ (bootstrapped => table)
    BY DEF IInv, TypeOK, FlagMeansTable
  <2>2. CASE SkipMigration(c)
    BY <2>1, <2>2 DEF SkipMigration, Goes
  <2>3. CASE StartMigration(c)
    BY <2>1, <2>3 DEF StartMigration, Goes
  <2>4. CASE Migrate(c)
    BY <2>1, <2>4 DEF Migrate, Goes
  <2>5. CASE MigrationFails(c) \/ DeleteFails(c)
    BY <2>1, <2>5 DEF MigrationFails, DeleteFails, Goes
  <2> QED BY <2>2, <2>3, <2>4, <2>5
<1>3. /\ TypeOK' /\ FlagMeansTable' /\ TableBeforeInsert'
      /\ pc'[c] = to /\ \A d \in Calls \ {c} : pc'[d] = pc[d]
  <2>1. /\ blob' \in [Ids -> Calls \cup {Nothing}] /\ row' \in [Ids -> Calls \cup {Nothing}]
        /\ lost' \subseteq Calls
    BY <1>1 DEF TypeOK
  <2> QED
    BY <1>2, <2>1, ControlKept DEF Terminal
<1>4. \A d \in Calls : pc'[d] \in {"insert", "returned"} => pc[d] = pc'[d]
  BY <1>3
<1>5. \A d \in Calls : pc[d] \in {"undone", "returned"} => pc'[d] = pc[d]
  BY <1>1, <1>3
<1>6. BlobOfCall' /\ OwnBlob'
  BY <1>1, <1>4, <1>5 DEF IInv, BlobOfCall, OwnBlob, CleanedUnder, SameId, OwnId
<1>7. RowOfCall' /\ ReturnedHasRow'
  BY <1>1, <1>4, <1>5 DEF IInv, TypeOK, RowOfCall, ReturnedHasRow
<1>8. LostIsFailed'
  BY <1>1, <1>3 DEF IInv, LostIsFailed, TypeOK
<1> QED BY <1>3, <1>6, <1>7, <1>8 DEF IInv

(* The uploads: under a shared id they replace another call's blob.        *)
LEMMA PutStep ==
  ASSUME IInv, NEW c \in Calls, Put(c) \/ PutFails(c) PROVE IInv'
<1>1. /\ TypeOK /\ pc[c] = "put" /\ table
      /\ UNCHANGED <<table, bootstrapped, row, lost>>
      /\ IdOf \in [Calls -> Ids] /\ Nothing \notin Calls
  BY CallAssumption DEF IInv, Put, PutFails, Goes, TableBeforeInsert
<1>2. PICK to \in {"insert", "raised"} :
        /\ pc' = [pc EXCEPT ![c] = to]
        /\ blob' = blob \/ blob' = [blob EXCEPT ![IdOf[c]] = c]
        /\ to = "insert" => blob' = [blob EXCEPT ![IdOf[c]] = c]
  BY DEF Put, PutFails, Goes
<1>3. blob' \in [Ids -> Calls \cup {Nothing}]
  BY <1>1, <1>2 DEF TypeOK
<1>4. /\ TypeOK' /\ FlagMeansTable' /\ TableBeforeInsert'
      /\ pc'[c] = to /\ \A d \in Calls \ {c} : pc'[d] = pc[d]
  <2>1. /\ table' \in BOOLEAN /\ (table => table') /\ table' /\ bootstrapped' \in BOOLEAN
        /\ row' \in [Ids -> Calls \cup {Nothing}] /\ lost' \subseteq Calls
    BY <1>1 DEF TypeOK
  <2> QED
    BY <1>2, <1>3, <2>1, ControlKept DEF Terminal
<1>5. /\ \A d \in Calls : blob[IdOf[d]] # Nothing => blob'[IdOf[d]] # Nothing
      /\ \A d \in Calls : ~ SameId(d, c) => blob'[IdOf[d]] = blob[IdOf[d]]
      /\ to = "insert" => blob'[IdOf[c]] = c
  BY <1>1, <1>2 DEF TypeOK, SameId
<1>6. c \notin lost
  BY <1>1 DEF IInv, LostIsFailed
<1>7. BlobOfCall'
  <2> SUFFICES ASSUME NEW d \in Calls, pc'[d] \in {"insert", "returned"} \/ d \in lost
               PROVE  blob'[IdOf[d]] # Nothing \/ CleanedUnder(d)'
    BY <1>1 DEF BlobOfCall
  <2>1. CASE d = c
    BY <1>1, <1>4, <1>5, <1>6, <2>1
  <2>2. CASE d # c
    <3>1. blob[IdOf[d]] # Nothing \/ CleanedUnder(d)
      BY <1>4, <2>2 DEF IInv, BlobOfCall
    <3>2. CleanedUnder(d) => CleanedUnder(d)'
      BY <1>1, <1>4 DEF CleanedUnder, SameId
    <3> QED BY <1>5, <3>1, <3>2
  <2> QED BY <2>1, <2>2
<1>8. OwnBlob'
  BY <1>1, <1>4, <1>5 DEF IInv, OwnBlob, OwnId, SameId
<1>9. RowOfCall' /\ ReturnedHasRow' /\ LostIsFailed'
  BY <1>1, <1>4 DEF IInv, TypeOK, RowOfCall, ReturnedHasRow, LostIsFailed
<1> QED BY <1>4, <1>7, <1>8, <1>9 DEF IInv

(* The clean-up.                                                           *)
LEMMA DeleteStep == ASSUME IInv, NEW c \in Calls, Delete(c) PROVE IInv'
<1>1. /\ TypeOK /\ pc[c] = "delete" /\ pc' = [pc EXCEPT ![c] = "undone"]
      /\ blob' = [blob EXCEPT ![IdOf[c]] = Nothing]
      /\ UNCHANGED <<table, bootstrapped, row, lost>>
      /\ IdOf \in [Calls -> Ids]
  BY CallAssumption DEF IInv, Delete, Goes
<1>2. /\ TypeOK' /\ FlagMeansTable' /\ TableBeforeInsert'
      /\ pc'[c] = "undone" /\ \A d \in Calls \ {c} : pc'[d] = pc[d]
  <2>1. /\ blob' \in [Ids -> Calls \cup {Nothing}] /\ row' \in [Ids -> Calls \cup {Nothing}]
        /\ lost' \subseteq Calls /\ table' \in BOOLEAN /\ (table => table')
        /\ bootstrapped' \in BOOLEAN /\ (bootstrapped' => table')
    BY <1>1 DEF IInv, TypeOK, FlagMeansTable
  <2> QED
    BY <1>1, <2>1, ControlKept DEF Terminal
<1>3. \A d \in Calls : ~ SameId(d, c) => blob'[IdOf[d]] = blob[IdOf[d]]
  BY <1>1 DEF TypeOK, SameId
<1>4. BlobOfCall'
  <2> SUFFICES ASSUME NEW d \in Calls, pc'[d] \in {"insert", "returned"} \/ d \in lost
               PROVE  blob'[IdOf[d]] # Nothing \/ CleanedUnder(d)'
    BY <1>1 DEF BlobOfCall
  <2>1. CASE SameId(d, c)
    BY <1>1, <1>2, <2>1 DEF CleanedUnder, SameId
  <2>2. CASE ~ SameId(d, c)
    <3>1. blob[IdOf[d]] # Nothing \/ CleanedUnder(d)
      BY <1>2, <2>2 DEF IInv, BlobOfCall, SameId
    <3>2. CleanedUnder(d) => CleanedUnder(d)'
      BY <1>1, <1>2 DEF CleanedUnder, SameId
    <3> QED BY <1>3, <2>2, <3>1, <3>2
  <2> QED BY <2>1, <2>2
<1>5. OwnBlob'
  BY <1>1, <1>2, <1>3 DEF IInv, OwnBlob, OwnId, SameId
<1>6. RowOfCall' /\ ReturnedHasRow' /\ LostIsFailed'
  BY <1>1, <1>2 DEF IInv, TypeOK, RowOfCall, ReturnedHasRow, LostIsFailed
<1> QED BY <1>2, <1>4, <1>5, <1>6 DEF IInv

(* An insertion that takes effect, whether its answer arrives or not.      *)
LEMMA CommitStep ==
  ASSUME IInv, NEW c \in Calls, table, pc[c] = "insert", row' = Inserted(c),
         UNCHANGED <<table, bootstrapped, blob>>,
         \/ pc' = [pc EXCEPT ![c] = "returned"] /\ lost' = lost
         \/ pc' = [pc EXCEPT ![c] = "delete"] /\ lost' = lost \cup {c}
  PROVE  IInv'
<1>1. /\ TypeOK /\ IdOf \in [Calls -> Ids] /\ Nothing \notin Calls /\ lost' \subseteq Calls
  BY CallAssumption DEF IInv, TypeOK
<1>2. /\ row' \in [Ids -> Calls \cup {Nothing}]
      /\ \A i \in Ids : row'[i] = row[i] \/ (i = IdOf[c] /\ row'[i] = c)
      /\ \A i \in Ids : row[i] # Nothing => row'[i] = row[i]
      /\ row'[IdOf[c]] # Nothing
  BY <1>1 DEF Inserted, TypeOK
<1>3. PICK to \in {"returned", "delete"} :
        /\ pc' = [pc EXCEPT ![c] = to]
        /\ lost' = IF to = "delete" THEN lost \cup {c} ELSE lost
  OBVIOUS
<1>4. /\ TypeOK' /\ FlagMeansTable' /\ TableBeforeInsert'
      /\ pc'[c] = to /\ \A d \in Calls \ {c} : pc'[d] = pc[d]
  <2>1. /\ blob' \in [Ids -> Calls \cup {Nothing}] /\ table' \in BOOLEAN
        /\ bootstrapped' \in BOOLEAN /\ (bootstrapped' => table')
    BY <1>1 DEF IInv, TypeOK, FlagMeansTable
  <2> QED
    BY <1>1, <1>2, <1>3, <2>1, ControlKept DEF Terminal
<1>5. BlobOfCall'
  <2> SUFFICES ASSUME NEW d \in Calls, pc'[d] \in {"insert", "returned"} \/ d \in lost'
               PROVE  blob[IdOf[d]] # Nothing \/ CleanedUnder(d)'
    BY DEF BlobOfCall
  <2>1. blob[IdOf[d]] # Nothing \/ CleanedUnder(d)
    BY <1>3, <1>4 DEF IInv, BlobOfCall
  <2>2. CleanedUnder(d) => CleanedUnder(d)'
    BY <1>3, <1>4 DEF CleanedUnder, SameId
  <2> QED BY <2>1, <2>2
<1>6. OwnBlob'
  BY <1>1, <1>4 DEF IInv, OwnBlob, OwnId, SameId
<1>7. RowOfCall'
  <2> SUFFICES ASSUME NEW i \in Ids, row'[i] # Nothing
               PROVE  IdOf[row'[i]] = i /\ (pc'[row'[i]] = "returned" \/ row'[i] \in lost')
    BY DEF RowOfCall
  <2>1. CASE i = IdOf[c] /\ row'[i] = c
    BY <1>1, <1>3, <1>4, <2>1
  <2>2. CASE row'[i] = row[i]
    BY <1>1, <1>3, <1>4, <2>2 DEF IInv, TypeOK, RowOfCall
  <2> QED BY <1>2, <2>1, <2>2
<1>8. ReturnedHasRow'
  BY <1>1, <1>2, <1>4 DEF IInv, ReturnedHasRow
<1>9. LostIsFailed'
  BY <1>3, <1>4 DEF IInv, TypeOK, LostIsFailed
<1> QED BY <1>4, <1>5, <1>6, <1>7, <1>8, <1>9 DEF IInv

(* An insertion that does not.                                             *)
LEMMA NoCommitStep ==
  ASSUME IInv, NEW c \in Calls, pc[c] = "insert", pc' = [pc EXCEPT ![c] = "delete"],
         UNCHANGED <<table, bootstrapped, blob, row, lost>>
  PROVE  IInv'
<1>1. TypeOK /\ pc'[c] = "delete" /\ \A d \in Calls \ {c} : pc'[d] = pc[d]
  BY DEF IInv, TypeOK
<1>2. TypeOK' /\ FlagMeansTable' /\ TableBeforeInsert'
  BY <1>1 DEF IInv, TypeOK, FlagMeansTable, TableBeforeInsert
<1>3. BlobOfCall' /\ OwnBlob'
  BY <1>1 DEF IInv, BlobOfCall, OwnBlob, CleanedUnder, SameId, OwnId
<1>4. RowOfCall' /\ ReturnedHasRow' /\ LostIsFailed'
  BY <1>1 DEF IInv, TypeOK, RowOfCall, ReturnedHasRow, LostIsFailed
<1> QED BY <1>2, <1>3, <1>4 DEF IInv

LEMMA CrashStep == ASSUME IInv, Crash PROVE IInv'
<1>1. /\ TypeOK /\ bootstrapped' = FALSE /\ UNCHANGED <<table, blob, row, lost>>
      /\ \A d \in Calls : pc'[d] \in {"crashed", pc[d]}
      /\ \A d \in Calls : pc[d] \in {"returned", "undone"} => pc'[d] = pc[d]
      /\ pc' \in [Calls -> Terminal \cup {"called"}]
  BY DEF IInv, Crash, Terminal
<1>2. TypeOK' /\ FlagMeansTable' /\ TableBeforeInsert'
  BY <1>1 DEF IInv, TypeOK, Terminal, FlagMeansTable, TableBeforeInsert
<1>3. BlobOfCall' /\ OwnBlob'
  BY <1>1 DEF IInv, BlobOfCall, OwnBlob, CleanedUnder, SameId, OwnId
<1>4. RowOfCall' /\ ReturnedHasRow' /\ LostIsFailed'
  BY <1>1 DEF IInv, TypeOK, RowOfCall, ReturnedHasRow, LostIsFailed
<1> QED BY <1>2, <1>3, <1>4 DEF IInv

LEMMA NextIInv == IInv /\ [Next]_vars => IInv'
<1> SUFFICES ASSUME IInv, [Next]_vars PROVE IInv'
  OBVIOUS
<1>1. CASE UNCHANGED vars
  BY <1>1 DEF vars, IInv, TypeOK, BlobOfCall, OwnBlob, CleanedUnder, SameId, OwnId,
     RowOfCall, ReturnedHasRow, LostIsFailed, FlagMeansTable, TableBeforeInsert
<1>2. ASSUME NEW c \in Calls, Insert(c) PROVE IInv'
  <2>1. /\ table /\ pc[c] = "insert" /\ row' = Inserted(c)
        /\ UNCHANGED <<table, bootstrapped, blob>>
        /\ pc' = [pc EXCEPT ![c] = "returned"] /\ lost' = lost
    BY <1>2 DEF Insert, Goes
  <2> QED BY <2>1, CommitStep
<1>3. ASSUME NEW c \in Calls, InsertFails(c) PROVE IInv'
  <2>1. /\ pc[c] = "insert" /\ pc' = [pc EXCEPT ![c] = "delete"]
        /\ UNCHANGED <<table, bootstrapped, blob>>
        /\ \/ UNCHANGED <<row, lost>>
           \/ table /\ row' = Inserted(c) /\ lost' = lost \cup {c}
    BY <1>3 DEF InsertFails, Goes
  <2>2. CASE UNCHANGED <<row, lost>>
    BY <2>1, <2>2, NoCommitStep
  <2>3. CASE table /\ row' = Inserted(c) /\ lost' = lost \cup {c}
    BY <2>1, <2>3, CommitStep
  <2> QED BY <2>1, <2>2, <2>3
<1> QED
  BY <1>1, <1>2, <1>3, QuietStep, PutStep, DeleteStep, CrashStep DEF Next, Ended

LEMMA Inductive == Spec => []IInv
BY NextIInv, InitIInv, PTL DEF Spec

----------------------------------------------------------------------------
(* Theorems *)

(* The flags, the blobs and the rows keep their types.                     *)
THEOREM TypeCorrect == Spec => []TypeOK
<1>1. IInv => TypeOK
  BY DEF IInv
<1> QED BY <1>1, Inductive, PTL

(* A row of evidence_refs points at a missing blob only where a clean-up   *)
(* took it: that of another call with its id, or that of a call which was  *)
(* told that its own insertion had failed.                                 *)
THEOREM NeverDangling == Spec => []NoDanglingReference
<1>1. IInv => NoDanglingReference
  BY Consequences
<1> QED BY <1>1, Inductive, PTL

(* A reference that was returned has its row, and all of it is its own if  *)
(* its id is; an error then leaves no row that it could have known of.     *)
THEOREM StoresAllOrNothing == Spec => []AllOrNothing
<1>1. IInv => AllOrNothing
  BY Consequences
<1> QED BY <1>1, Inductive, PTL

(* No call inserts before the table is there.                              *)
THEOREM InsertsIntoTable == Spec => []TableBeforeInsert
<1>1. IInv => TableBeforeInsert
  BY DEF IInv
<1> QED BY <1>1, Inductive, PTL

----------------------------------------------------------------------------
(* What a reader may rely on once it has a row or a reference.  A row is   *)
(* never replaced, whoever else is given its id; with an id of its own, a  *)
(* call that returned keeps its payload, and a row whose insertion was not *)
(* reported as failed has the payload of the call that inserted it.        *)
RowsStay == \A i \in Ids : row[i] # Nothing => row'[i] = row[i]

ReturnedStay ==
  \A c \in Calls : OwnId(c) /\ pc[c] = "returned" =>
    pc'[c] = "returned" /\ blob'[IdOf[c]] = c /\ row'[IdOf[c]] = c

RowsHavePayload ==
  \A c \in Calls : OwnId(c) /\ row[IdOf[c]] # Nothing /\ c \notin lost =>
    row[IdOf[c]] = c /\ blob[IdOf[c]] = c

Lasts == RowsStay /\ ReturnedStay

LEMMA StepLasts == IInv /\ IInv' /\ [Next]_vars => [Lasts]_vars
<1> SUFFICES ASSUME IInv, IInv', Next PROVE Lasts
  OBVIOUS
<1>1. \A c \in Calls : pc[c] = "returned" => pc'[c] = "returned"
  BY DEF IInv, TypeOK, Next, SkipMigration, StartMigration, Migrate, MigrationFails,
     Put, PutFails, Insert, InsertFails, Delete, DeleteFails, Crash, Ended, vars,
     Goes, Terminal
<1>2. RowsStay
  <2>1. ASSUME NEW c \in Calls, row' = Inserted(c) PROVE RowsStay
    BY <2>1, CallAssumption DEF IInv, TypeOK, Inserted, RowsStay
  <2>2. UNCHANGED row \/ \E c \in Calls : row' = Inserted(c)
    BY DEF Next, SkipMigration, StartMigration, Migrate, MigrationFails,
       Put, PutFails, Insert, InsertFails, Delete, DeleteFails, Crash, Ended, vars
  <2> QED BY <2>1, <2>2 DEF RowsStay
<1>3. ReturnedStay
  <2> SUFFICES ASSUME NEW c \in Calls, OwnId(c), pc[c] = "returned"
               PROVE  pc'[c] = "returned" /\ blob'[IdOf[c]] = c /\ row'[IdOf[c]] = c
    BY DEF ReturnedStay
  <2>1. pc'[c] = "returned"
    BY <1>1
  <2>2. blob'[IdOf[c]] = c
    BY <2>1 DEF IInv, OwnBlob, OwnId, SameId
  <2>3. row'[IdOf[c]] # Nothing /\ row'[IdOf[c]] \in Calls /\ IdOf[row'[IdOf[c]]] = IdOf[c]
    BY <2>1, CallAssumption DEF IInv, TypeOK, ReturnedHasRow, RowOfCall
  <2>4. row'[IdOf[c]] = c
    BY <2>3 DEF OwnId, SameId
  <2> QED BY <2>1, <2>2, <2>4
<1> QED BY <1>2, <1>3 DEF Lasts

(* What put_blob returned stays: with an id of its own neither a later     *)
(* call, nor a clean-up, nor a crash takes the blob or the row away.       *)
THEOREM KeepsWhatItReturned == Spec => [](RowsHavePayload) /\ [][Lasts]_vars
<1>1. ASSUME IInv PROVE RowsHavePayload
  <2> SUFFICES ASSUME NEW c \in Calls, OwnId(c), row[IdOf[c]] # Nothing, c \notin lost
               PROVE  row[IdOf[c]] = c /\ blob[IdOf[c]] = c
    BY DEF RowsHavePayload
  <2>1. IdOf[c] \in Ids /\ row[IdOf[c]] \in Calls
    BY <1>1, CallAssumption DEF IInv, TypeOK
  <2>2. /\ IdOf[row[IdOf[c]]] = IdOf[c]
        /\ pc[row[IdOf[c]]] = "returned" \/ row[IdOf[c]] \in lost
    BY <1>1, <2>1 DEF IInv, RowOfCall
  <2>3. row[IdOf[c]] = c
    BY <2>1, <2>2 DEF OwnId, SameId
  <2> QED BY <1>1, <2>2, <2>3 DEF IInv, OwnBlob
<1> QED BY <1>1, StepLasts, Inductive, PTL DEF Spec
=============================================================================
