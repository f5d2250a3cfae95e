------------------------------ MODULE RunWorker ------------------------------
(***************************************************************************)
(* The durable run worker (api/worker.go) over the ledger and the result   *)
(* sink: the polling loop of Run, the steps of executeOne with the         *)
(* heartbeat goroutine that runs beside them, and the clients that submit  *)
(* and cancel.  Every SQL statement, every call of the sink and every read *)
(* of a flag the heartbeat sets is a step of its own, so that anything may *)
(* happen between two of them.                                             *)
(*                                                                         *)
(* Time.  A lease expires at any moment while its worker still runs (a     *)
(* stalled process, an unreachable database): that is a fault, and         *)
(* MaxFaults bounds the faults of a behaviour.  Once nobody works under a  *)
(* lease it expires freely.  Abandon(w) is every way executeOne ends with  *)
(* the row as it stands: a crash or a shutdown of the process, a statement *)
(* that returned a database error (before or after it took effect), and an *)
(* outcome that canonicalResultPayload refuses to encode.                  *)
(***************************************************************************)
EXTENDS RunLedger, ResultSink

CONSTANTS
    Publishers,  \* the workers configured with the Databricks destination
    MaxFaults    \* bound: abandoned leases and leases lost while in use

ASSUME WorkerAssumption ==
    /\ Publishers \subseteq Workers
    /\ MaxFaults \in Nat

VARIABLES
    pc,     \* pc[w]: the statement worker w is about to issue
    job,    \* job[w]: the leased row as w read it, its outcome and its flags
    faults  \* faults so far

workerVars == <<pc, job, faults>>
vars == <<row, outbox, sink, orphan, merges, pc, job, faults>>

Kind == {"none", "verdict", "malfunction", "error"}

Label == {"recover", "exhaust", "lease", "execute", "decide", "stage", "restage",
          "store", "fence", "mark", "publish", "readback", "verify", "complete",
          "conflict", "retry", "cancel", "fail", "failOutcome"}
Polling == {"recover", "exhaust", "lease"}

\* recovered, ref and pending are run.Result != nil, outcome.ResultRef != nil
\* and run.PublicationPending; cancelSeen and leaseLost the two atomic flags.
Job == [run: Runs \union {NoRun}, token: Nat, recovered: BOOLEAN, bytes: Nat,
        ref: BOOLEAN, pending: BOOLEAN, kind: Kind,
        cancelSeen: BOOLEAN, leaseLost: BOOLEAN]

NoJob == [run |-> NoRun, token |-> NoToken, recovered |-> FALSE, bytes |-> NoBytes,
          ref |-> FALSE, pending |-> FALSE, kind |-> "none",
          cancelSeen |-> FALSE, leaseLost |-> FALSE]

WorkerTypeOK ==
    /\ pc \in [Workers -> Label]
    /\ job \in [Workers -> Job]
    /\ \A w \in Workers : pc[w] \in Polling <=> job[w].run = NoRun
    /\ faults \in Nat

\* The type invariant of the whole worker system.
TypeOK == LedgerTypeOK /\ SinkTypeOK /\ WorkerTypeOK

Init ==
    /\ LedgerInit
    /\ SinkInit
    /\ pc = [w \in Workers |-> "recover"]
    /\ job = [w \in Workers |-> NoJob]
    /\ faults = 0

-----------------------------------------------------------------------------
(* Control of one worker. *)

At(w, label) == pc[w] = label

Goto(w, label) ==
    /\ pc' = [pc EXCEPT ![w] = label]
    /\ UNCHANGED <<job, faults>>

\* Wrong on purpose: the worker polls on with the run it just left.
ReturnKeepingJob(w) ==
    /\ pc' = [pc EXCEPT ![w] = "recover"]
    /\ UNCHANGED job

\* executeOne returns: the deferred calls stop the heartbeat and Run loops.
Return(w) ==
    /\ pc' = [pc EXCEPT ![w] = "recover"]
    /\ job' = [job EXCEPT ![w] = NoJob]

Done(w) == Return(w) /\ UNCHANGED faults

\* The three arguments every fenced statement of w passes.
R(w) == job[w].run
T(w) == job[w].token

-----------------------------------------------------------------------------
(* Run: the polling loop. *)

RecoverCanceledStep(w) ==
    /\ At(w, "recover")
    /\ RecoverCanceled
    /\ Goto(w, "exhaust")
    /\ UNCHANGED sinkVars

FailExhaustedStep(w) ==
    /\ At(w, "exhaust")
    /\ FailExhausted
    /\ Goto(w, "lease")
    /\ UNCHANGED sinkVars

\* run.Result # nil: getDurable decodes result_payload, or else the response.
HasResult(o) == o.payload # NoBytes \/ o.response # NoBytes

\* The run as LeaseNext returns it: a staged result stands for a verdict.
LeasedJob(r) ==
    [run |-> r, token |-> row[r].attempt + 1, recovered |-> HasResult(row[r]),
     bytes |-> row[r].payload, ref |-> row[r].ref, pending |-> row[r].pending,
     kind |-> IF HasResult(row[r]) THEN "verdict" ELSE "none",
     cancelSeen |-> FALSE, leaseLost |-> FALSE]

\* executeOne starts from the row as leased: a staged result skips the executor.
LeaseNext(w) ==
    /\ At(w, "lease")
    /\ \E r \in Runs :
        /\ LeaseRow(r, w)
        /\ job' = [job EXCEPT ![w] = LeasedJob(r)]
        /\ pc' = [pc EXCEPT ![w] = IF LeasedJob(r).recovered THEN "decide"
                                                            ELSE "execute"]
    /\ UNCHANGED <<sink, orphan, merges, faults>>

NothingToLease(w) ==
    /\ At(w, "lease")
    /\ \A r \in Runs : ~Leasable(r)
    /\ Goto(w, "recover")
    /\ UNCHANGED <<ledgerVars, sinkVars>>

-----------------------------------------------------------------------------
(* executeOne. *)

\* The executor returns a verdict, a malfunction or an error (a panic is one).
Execute(w) ==
    /\ At(w, "execute")
    /\ \E kind \in Kind \ {"none"} :
        job' = [job EXCEPT ![w].kind = kind, ![w].bytes = T(w),
                           ![w].ref = w \in Publishers]
    /\ pc' = [pc EXCEPT ![w] = "decide"]
    /\ UNCHANGED <<ledgerVars, sinkVars, faults>>

\* The heartbeat goroutine, while the flags it sets can still be read.  What
\* else it does, keeping the lease alive, is the absence of LeaseExpires.
Heartbeat(w) ==
    /\ At(w, "execute") \/ At(w, "decide")
    /\ ~job[w].leaseLost
    /\ \/ /\ HoldsLive(R(w), w, T(w))
          /\ row[R(w)].cancel /\ ~job[w].cancelSeen
          /\ job' = [job EXCEPT ![w].cancelSeen = TRUE]
       \/ /\ ~HoldsLive(R(w), w, T(w))
          /\ job' = [job EXCEPT ![w].leaseLost = TRUE]
    /\ UNCHANGED <<ledgerVars, sinkVars, pc, faults>>

\* Lines 166-198: the flags are read once, and only here.
NextStatement(j) ==
    CASE j.cancelSeen /\ ~j.pending -> "cancel"
      [] j.kind = "error"           -> "fail"
      [] j.kind = "malfunction"     -> "failOutcome"
      [] j.recovered                -> "store"
      [] OTHER                      -> "stage"

DecideStep(w) ==
    /\ At(w, "decide")
    /\ IF job[w].leaseLost /\ (~job[w].cancelSeen \/ job[w].pending)
       THEN Done(w)
       ELSE Goto(w, NextStatement(job[w]))
    /\ UNCHANGED <<ledgerVars, sinkVars>>

\* A statement that ends the job: it takes effect or its fence refuses it.
LastStatement(w, label, fence, statement) ==
    /\ At(w, label)
    /\ statement \/ (~fence /\ UNCHANGED ledgerVars)
    /\ Done(w)
    /\ UNCHANGED sinkVars

MarkCanceledStep(w) ==
    LastStatement(w, "cancel", CancelFence(R(w), w, T(w)), MarkCanceled(R(w), w, T(w)))

FailStep(w) ==
    LastStatement(w, "fail", FailFence(R(w), w, T(w)), Fail(R(w), w, T(w)))

FailOutcomeStep(w) ==
    LastStatement(w, "failOutcome", FailOutcomeFence(R(w), w, T(w)),
                  FailOutcome(R(w), w, T(w), job[w].bytes))

StageStep(w) ==
    /\ At(w, "stage")
    /\ \/ /\ StageOutcome(R(w), w, T(w), job[w].bytes, job[w].ref)
          /\ Goto(w, "store")
       \/ /\ ~StageFence(R(w), w, T(w))
          /\ Goto(w, "restage")
          /\ UNCHANGED ledgerVars
    /\ UNCHANGED sinkVars

\* The heartbeat that asks why staging was refused.
RestageStep(w) ==
    /\ At(w, "restage")
    /\ IF HoldsLive(R(w), w, T(w)) /\ row[R(w)].cancel
       THEN Goto(w, "cancel")
       ELSE Done(w)
    /\ UNCHANGED <<ledgerVars, sinkVars>>

\* Wrong on purpose: recovery publishes the staged bytes again.
StoreStepRepublishing(w) ==
    /\ At(w, "store")
    /\ Goto(w, CASE ~job[w].ref /\ job[w].pending -> "retry"
                 [] ~job[w].ref                   -> "failOutcome"
                 [] job[w].pending                -> "publish"
                 [] OTHER                         -> "fence")
    /\ UNCHANGED <<ledgerVars, sinkVars>>

\* Lines 224-240: without a result_ref there is nowhere to publish to, and a
\* publication that was pending when the row was leased is only verified.
StoreStep(w) ==
    /\ At(w, "store")
    /\ Goto(w, CASE ~job[w].ref /\ job[w].pending -> "retry"
                 [] ~job[w].ref                   -> "failOutcome"
                 [] job[w].pending                -> "verify"
                 [] OTHER                         -> "fence")
    /\ UNCHANGED <<ledgerVars, sinkVars>>

FenceStep(w) ==
    /\ At(w, "fence")
    /\ IF ~HoldsLive(R(w), w, T(w))
       THEN Done(w)
       ELSE Goto(w, IF row[R(w)].cancel THEN "cancel" ELSE "mark")
    /\ UNCHANGED <<ledgerVars, sinkVars>>

MarkPendingStep(w) ==
    /\ At(w, "mark")
    /\ \/ /\ MarkPublicationPending(R(w), w, T(w))
          /\ pc' = [pc EXCEPT ![w] = "publish"]
          /\ job' = [job EXCEPT ![w].pending = TRUE]
          /\ UNCHANGED faults
       \/ /\ ~PendingFence(R(w), w, T(w))
          /\ Done(w)
          /\ UNCHANGED ledgerVars
    /\ UNCHANGED sinkVars

\* Publish, up to the end of the MERGE.  A worker without the destination the
\* result_ref names refuses before it reaches the warehouse.
PublishStep(w) ==
    /\ At(w, "publish")
    /\ \/ /\ w \in Publishers
          /\ MergeCommits(R(w), job[w].bytes)
          /\ Goto(w, "readback")
       \/ /\ w \in Publishers
          /\ MergeFails(R(w), job[w].bytes)
          /\ Goto(w, "verify")
       \/ /\ w \notin Publishers
          /\ Goto(w, "retry")
          /\ UNCHANGED sinkVars
    /\ UNCHANGED ledgerVars

\* The read-back inside Publish: anything but the exact row is ambiguous.
ReadbackStep(w) ==
    /\ At(w, "readback")
    /\ \/ /\ Verified(R(w), job[w].bytes)
          /\ Goto(w, "complete")
       \/ Goto(w, "verify")
    /\ UNCHANGED <<ledgerVars, sinkVars>>

\* reconcilePublication; the last disjunct is a read that finds no row, or fails.
VerifyStep(w) ==
    /\ At(w, "verify")
    /\ \/ /\ w \in Publishers /\ Verified(R(w), job[w].bytes)
          /\ Goto(w, "complete")
       \/ /\ w \in Publishers /\ Conflicts(R(w), job[w].bytes)
          /\ Goto(w, "conflict")
       \/ Goto(w, "retry")
    /\ UNCHANGED <<ledgerVars, sinkVars>>

CompleteStep(w) ==
    LastStatement(w, "complete", CompleteFence(R(w), w, T(w)),
                  CompletePublished(R(w), w, T(w), job[w].bytes))

ConflictStep(w) ==
    LastStatement(w, "conflict", FailFence(R(w), w, T(w)),
                  FailPublicationConflict(R(w), w, T(w)))

RetryStep(w) ==
    LastStatement(w, "retry", RetryFence(R(w), w, T(w)),
                  RetryVerification(R(w), w, T(w)))

-----------------------------------------------------------------------------
(* Faults, time and clients. *)

Abandon(w) ==
    /\ pc[w] \notin Polling
    /\ faults < MaxFaults
    /\ faults' = faults + 1
    /\ Return(w)
    /\ UNCHANGED <<ledgerVars, sinkVars>>

\* Somebody still works under the lease of r.
InUse(r) == \E w \in Workers : R(w) = r /\ T(w) = row[r].token

LeaseExpires(r) ==
    /\ row[r].status = "running" /\ row[r].leaseLive
    /\ \/ ~InUse(r) /\ UNCHANGED faults
       \/ InUse(r) /\ faults < MaxFaults /\ faults' = faults + 1
    /\ Update(r, [row[r] EXCEPT !.leaseLive = FALSE])
    /\ UNCHANGED <<sinkVars, pc, job>>

RetryElapses(r) ==
    /\ ~row[r].retryDue
    /\ Update(r, [row[r] EXCEPT !.retryDue = TRUE])
    /\ UNCHANGED <<sinkVars, workerVars>>

\* A replica starts, next to the ones that run (the one it replaces abandoned
\* its job).
ProcessStarts == Backfill /\ UNCHANGED <<sinkVars, workerVars>>

Submit(r) == CreateRow(r) /\ UNCHANGED <<sinkVars, workerVars>>

Cancel(r) == CancelRow(r) /\ UNCHANGED <<sinkVars, workerVars>>

Warehouse(r) ==
    /\ OrphanLands(r) \/ OrphanDropped(r) \/ ForeignWrite(r)
    /\ UNCHANGED <<ledgerVars, workerVars>>

-----------------------------------------------------------------------------

\* Everything a running worker does by itself except waiting for its executor.
WorkerStep(w) ==
    \/ RecoverCanceledStep(w) \/ FailExhaustedStep(w)
    \/ LeaseNext(w)           \/ NothingToLease(w)
    \/ DecideStep(w)          \/ MarkCanceledStep(w)
    \/ FailStep(w)            \/ FailOutcomeStep(w)
    \/ StageStep(w)           \/ RestageStep(w)
    \/ StoreStep(w)           \/ FenceStep(w)
    \/ MarkPendingStep(w)     \/ PublishStep(w)
    \/ ReadbackStep(w)        \/ VerifyStep(w)
    \/ CompleteStep(w)        \/ ConflictStep(w)
    \/ RetryStep(w)

Next ==
    \/ \E w \in Workers : WorkerStep(w) \/ Execute(w) \/ Heartbeat(w) \/ Abandon(w)
    \/ \E r \in Runs : LeaseExpires(r) \/ RetryElapses(r) \/ Submit(r)
                       \/ Cancel(r) \/ Warehouse(r)
    \/ ProcessStarts

Spec == Init /\ [][Next]_vars

\* The worker goroutine is scheduled, the heartbeat ticker fires, an executor
\* whose context is cancelled returns, and the database clock moves on.
Fairness ==
    /\ \A w \in Workers :
        /\ WF_vars(WorkerStep(w))
        /\ WF_vars(Heartbeat(w))
        /\ WF_vars((job[w].cancelSeen \/ job[w].leaseLost) /\ Execute(w))
    /\ \A r \in Runs : WF_vars(~InUse(r) /\ LeaseExpires(r)) /\ WF_vars(RetryElapses(r))

\* What MC_EXECUTION_TIMEOUT buys: every executor returns in the end.
ExecutorsReturn == \A w \in Workers : WF_vars(Execute(w))

FairSpec == Spec /\ Fairness
=============================================================================
