------------------------------ MODULE ResultSink ------------------------------
(***************************************************************************)
(* The Databricks result table and the three ways the service touches it   *)
(* (api/databricks.go): the insert-only MERGE of Publish, the read-back of *)
(* verifyPayload, and a MERGE whose client gave up on it (timeout, lost    *)
(* connection, crash) and that the warehouse may still execute later.      *)
(*                                                                         *)
(* The warehouse itself is outside the repository: it is modelled from     *)
(* what Publish and Verify rely on, namely that one MERGE is atomic and    *)
(* inserts only when no row has the result_id.                             *)
(***************************************************************************)
EXTENDS Naturals, RunIds

CONSTANTS
    ForeignRuns,  \* runs whose result_id another writer of the table may take
    Foreign       \* the bytes such a writer stores

ASSUME SinkAssumption ==
    /\ ForeignRuns \subseteq Runs
    /\ Foreign \notin Nat

VARIABLES
    sink,    \* sink[r]: the bytes stored under the result_id of r, or NoRow
    orphan,  \* orphan[r]: bytes of MERGEs no client waits for any more
    merges   \* merges[r]: how many MERGEs were ever issued for r

sinkVars == <<sink, orphan, merges>>

NoRow == 0

SinkTypeOK ==
    /\ sink \in [Runs -> Nat \union {Foreign}]
    /\ orphan \in [Runs -> SUBSET Nat]
    /\ merges \in [Runs -> Nat]

SinkInit ==
    /\ sink = [r \in Runs |-> NoRow]
    /\ orphan = [r \in Runs |-> {}]
    /\ merges = [r \in Runs |-> 0]

-----------------------------------------------------------------------------

\* WHEN NOT MATCHED THEN INSERT: a row that is there is never changed.
Inserted(r, bytes) ==
    [sink EXCEPT ![r] = IF sink[r] = NoRow THEN bytes ELSE @]

Issued(r) == merges' = [merges EXCEPT ![r] = merges[r] + 1]

\* A MERGE that is executed and acknowledged.
MergeCommits(r, bytes) ==
    /\ Issued(r)
    /\ sink' = Inserted(r, bytes)
    /\ UNCHANGED orphan

\* A MERGE whose client sees an error: it may still be executed later.
MergeFails(r, bytes) ==
    /\ Issued(r)
    /\ orphan' = [orphan EXCEPT ![r] = orphan[r] \union {bytes}]
    /\ UNCHANGED sink

OrphanLands(r) ==
    \E bytes \in orphan[r] :
        /\ sink' = Inserted(r, bytes)
        /\ orphan' = [orphan EXCEPT ![r] = orphan[r] \ {bytes}]
        /\ UNCHANGED merges

OrphanDropped(r) ==
    \E bytes \in orphan[r] :
        /\ orphan' = [orphan EXCEPT ![r] = orphan[r] \ {bytes}]
        /\ UNCHANGED <<sink, merges>>

ForeignWrite(r) ==
    /\ r \in ForeignRuns
    /\ sink[r] = NoRow
    /\ sink' = [sink EXCEPT ![r] = Foreign]
    /\ UNCHANGED <<orphan, merges>>

-----------------------------------------------------------------------------
(* What verifyPayload can report of a read that reaches the warehouse. *)

\* Wrong on purpose: any row under the result_id is taken for the result.
VerifiedByKey(r, bytes) == sink[r] # NoRow

Verified(r, bytes)  == sink[r] = bytes
Conflicts(r, bytes) == sink[r] \notin {NoRow, bytes}
=============================================================================
