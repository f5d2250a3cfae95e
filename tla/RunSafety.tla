------------------------------ MODULE RunSafety ------------------------------
(***************************************************************************)
(* What the run worker guarantees: safety invariants, action properties    *)
(* and liveness of RunWorker.  One TypeOK, in RunWorker.                   *)
(***************************************************************************)
EXTENDS RunWorker

\* A completed run is backed by the sink: the row stored under its result_id is
\* byte for byte the result the API serves (worker.go:285, databricks.go:174),
\* whatever happened to leases and MERGEs in between.
CompletedIsPublished ==
    \A r \in Runs : row[r].status = "completed" =>
        row[r].payload # NoBytes /\ sink[r] = row[r].payload

\* A canceled run was never published: no MERGE for it was issued and none can
\* still land (the publication cutoff, worker.go:236-259 against Cancel).
CanceledNeverPublished ==
    \A r \in Runs : row[r].status = "canceled" =>
        merges[r] = 0 /\ orphan[r] = {} /\ sink[r] \in {NoRow, Foreign}

\* At most one MERGE is issued for a run in its whole life: recovery only reads
\* back (worker.go:239, 262), so a late MERGE never meets a second one.
AtMostOneMerge == \A r \in Runs : merges[r] <= 1

\* Every unfinished run that nobody leases and whose retry is due is picked up
\* by exactly one of LeaseNext, FailExhausted and RecoverCanceled: their WHERE
\* clauses leave no row behind and never compete for one.
ExactlyOneRecovery ==
    \A r \in Runs :
        /\ row[r].status \in Unfinished
        /\ row[r].status = "running" => ~row[r].leaseLive
        /\ row[r].retryDue
        => LET recoveries == {s \in {"lease", "exhaust", "cancel"} :
                                 \/ s = "lease"   /\ Leasable(r)
                                 \/ s = "exhaust" /\ Exhausted(r)
                                 \/ s = "cancel"  /\ CancelRecoverable(r)}
           IN  \E s \in recoveries : recoveries = {s}

\* The check is run at most MaxAttempts times, and never under a lease whose
\* run already has a staged result (lifecycle_store.go:350, worker.go:151).
ExecutionBudget ==
    \A w \in Workers : At(w, "execute") =>
        /\ T(w) <= MaxAttempts
        /\ Holds(R(w), w, T(w)) => row[R(w)].response = NoBytes

\* A worker past the publication cutoff works on the bytes the ledger staged,
\* even after its lease passed to another worker: two workers that publish or
\* verify one run never disagree about its bytes.
PublishersAgree ==
    \A w \in Workers :
        pc[w] \in {"publish", "readback", "verify", "complete", "conflict", "retry"}
        => job[w].bytes = row[R(w)].payload

\* The migration never refuses to start a replica, however its predecessors
\* stopped: a row that may have been published keeps its exact bytes
\* (lifecycle_store.go:170-173).
StartNeverRefused == ~StartRefused

\* Terminal states are immutable: no late statement of any worker, and no
\* cancel, changes the row of an ended run.  Only the migration may add to it
\* the result_payload that a failure left out.
TerminalIsFinal ==
    [][\A r \in Runs : row[r].status \in Terminal =>
          row'[r] \in {row[r], [row[r] EXCEPT !.payload = row[r].response]}]_vars

\* Once staged, the result bytes of a run never change: not by a second
\* execution, not by the completion, not by a failure.
StagedBytesFixed ==
    [][\A r \in Runs : row[r].payload # NoBytes =>
          row'[r].payload = row[r].payload /\ row'[r].response = row[r].response]_vars

\* Once publication is pending a cancel cannot win: the run ends completed or
\* failed, and only after its pending mark was resolved by a publication step.
CutoffIsFinal ==
    [][\A r \in Runs : row[r].pending => row'[r].status # "canceled"]_vars

-----------------------------------------------------------------------------

\* A cancel request ends the run even when the executor never returns by
\* itself: the heartbeat interrupts it (worker.go:141-143).
CancelEnds == \A r \in Runs : row[r].cancel ~> row[r].status \in Terminal

\* Every submitted run ends, once faults stop: by its cancel, or provided that
\* executors return (lifecycle.go:311-322: MC_EXECUTION_TIMEOUT).
EveryRunEnds ==
    /\ CancelEnds
    /\ ExecutorsReturn =>
          \A r \in Runs : row[r].status = "queued" ~> row[r].status \in Terminal

-----------------------------------------------------------------------------

\* README.md:95-96, "Recovery republishes the same staged bytes": a run that
\* fails with a staged result was offered to the sink at least once.
RecoveryRepublishes ==
    \A r \in Runs :
        row[r].status = "failed" /\ row[r].payload # NoBytes /\ row[r].ref
        => merges[r] > 0 \/ \E w \in Workers : At(w, "publish") /\ R(w) = r
=============================================================================
