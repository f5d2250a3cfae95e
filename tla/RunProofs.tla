------------------------------- MODULE RunProofs -------------------------------
(***************************************************************************)
(* TypeOK and the safety properties of RunSafety hold in every behaviour   *)
(* of Spec, and Spec implements the contract of RunContract, for any       *)
(* number of runs, workers, attempts, verifications and faults.            *)
(*                                                                         *)
(* First the types: the statements of the ledger, the ways a worker moves, *)
(* one lemma per group of actions.  Then the invariant: what the           *)
(* statements do to the rows (RowsKept: the columns stay consistent and    *)
(* every row Advances), what that leaves of the other workers' knowledge   *)
(* (OthersKeep) and of the sink (SinkKeeps), again one lemma per group of  *)
(* actions, and the theorems.  Last the refinement: what each statement is *)
(* in the contract's view of a run.                                        *)
(***************************************************************************)
EXTENDS RunInvariant, RunRefinement, TLAPS

USE LedgerAssumption, SinkAssumption, WorkerAssumption, NoRunAssumption

-----------------------------------------------------------------------------
(* Types. *)

\* Before any submission every column has its default.
LEMMA InitTypeOK == Init => TypeOK
<1> SUFFICES ASSUME Init PROVE TypeOK
    OBVIOUS
<1>1. LedgerTypeOK
    BY DEF Init, LedgerInit, LedgerTypeOK, AbsentRow, Row, Status, Unfinished, Terminal,
           CallbackState, NoBytes, NoToken
<1>2. SinkTypeOK
    BY DEF Init, SinkInit, SinkTypeOK, NoRow
<1>3. WorkerTypeOK
    BY DEF Init, WorkerTypeOK, NoJob, Job, Kind, Label, Polling, NoBytes, NoToken
<1> QED
    BY <1>1, <1>2, <1>3 DEF TypeOK

\* The four shapes of an UPDATE: one row, the events of some runs, one row that
\* ends, and every row of a set.
LEMMA UpdateType ==
    ASSUME LedgerTypeOK, NEW r \in Runs, NEW o \in Row, Update(r, o)
    PROVE  LedgerTypeOK'
BY DEF LedgerTypeOK, Update

LEMMA EventReadyType ==
    ASSUME LedgerTypeOK, NEW S \in SUBSET Runs, EventReady(S)
    PROVE  outbox' \in [Runs -> [state: CallbackState, due: BOOLEAN]]
BY DEF LedgerTypeOK, EventReady, CallbackState

LEMMA FinishType ==
    ASSUME LedgerTypeOK, NEW r \in Runs, NEW o \in Row, Finish(r, o)
    PROVE  LedgerTypeOK'
BY EventReadyType DEF LedgerTypeOK, Finish

\* Ending a lease leaves a row a row.
LEMMA ReleasedType ==
    ASSUME NEW o \in Row, NEW s \in Status
    PROVE  Released(o, s) \in Row
BY DEF Released, Row, NoToken

LEMMA FinishAllType ==
    ASSUME LedgerTypeOK, NEW S \in SUBSET Runs, NEW s \in Status, FinishAll(S, s)
    PROVE  LedgerTypeOK'
BY EventReadyType, ReleasedType DEF LedgerTypeOK, FinishAll

\* LeaseNext: the attempt counter is the one column that grows.
LEMMA LeasedRowType ==
    ASSUME NEW o \in Row, NEW w \in Workers, NEW n \in Nat
    PROVE  [o EXCEPT !.status = "running", !.owner = w, !.token = n,
                     !.attempt = n, !.leaseLive = TRUE, !.retryDue = TRUE] \in Row
BY DEF Row, Status, Unfinished

LEMMA LeaseRowType ==
    ASSUME LedgerTypeOK, NEW r \in Runs, NEW w \in Workers, LeaseRow(r, w)
    PROVE  LedgerTypeOK'
<1>1. row[r] \in Row /\ row[r].attempt + 1 \in Nat
    BY DEF LedgerTypeOK, Row
<1>2. PICK n \in Nat : n = row[r].attempt + 1
    BY <1>1
<1>3. Update(r, [row[r] EXCEPT !.status = "running", !.owner = w, !.token = n,
                               !.attempt = n, !.leaseLive = TRUE, !.retryDue = TRUE])
    BY <1>2 DEF LeaseRow
<1> QED
    BY <1>1, <1>3, LeasedRowType, UpdateType

\* RetryVerification: likewise the count of verifications.
LEMMA LookedType ==
    ASSUME NEW o \in Row, NEW n \in Nat
    PROVE  [o EXCEPT !.verified = n] \in Row
BY DEF Row

LEMMA RetriedType ==
    ASSUME NEW o \in Row
    PROVE  /\ [Released(o, "failed") EXCEPT !.pending = FALSE, !.retryDue = TRUE] \in Row
           /\ [Released(o, "queued") EXCEPT !.pending = TRUE, !.retryDue = FALSE] \in Row
BY DEF Released, Row, Status, Unfinished, Terminal, NoToken

\* The fenced statements of executeOne.
LEMMA StatementTypes ==
    ASSUME LedgerTypeOK, NEW r \in Runs, NEW w \in Workers, NEW t \in Nat,
           NEW bytes \in Nat, NEW ref \in BOOLEAN
    PROVE  /\ CreateRow(r) => LedgerTypeOK'
           /\ CancelRow(r) => LedgerTypeOK'
           /\ StageOutcome(r, w, t, bytes, ref) => LedgerTypeOK'
           /\ MarkPublicationPending(r, w, t) => LedgerTypeOK'
           /\ CompletePublished(r, w, t, bytes) => LedgerTypeOK'
           /\ Fail(r, w, t) => LedgerTypeOK'
           /\ FailOutcome(r, w, t, bytes) => LedgerTypeOK'
           /\ FailPublicationConflict(r, w, t) => LedgerTypeOK'
           /\ MarkCanceled(r, w, t) => LedgerTypeOK'
           /\ RetryVerification(r, w, t) => LedgerTypeOK'
<1> row[r] \in Row
    BY DEF LedgerTypeOK
<1> USE DEF Row, Status, Unfinished, Terminal
<1>1. CreateRow(r) => LedgerTypeOK'
    BY DEF CreateRow, LedgerTypeOK, CallbackState
<1>2. CancelRow(r) => LedgerTypeOK'
    BY UpdateType, FinishType DEF CancelRow
<1>3. StageOutcome(r, w, t, bytes, ref) => LedgerTypeOK'
    BY UpdateType DEF StageOutcome
<1>4. MarkPublicationPending(r, w, t) => LedgerTypeOK'
    BY UpdateType DEF MarkPublicationPending
<1>5. CompletePublished(r, w, t, bytes) => LedgerTypeOK'
    BY ReleasedType, FinishType DEF CompletePublished
<1>6. Fail(r, w, t) => LedgerTypeOK'
    BY ReleasedType, FinishType DEF Fail
<1>7. FailOutcome(r, w, t, bytes) => LedgerTypeOK'
    BY ReleasedType, FinishType DEF FailOutcome
<1>8. FailPublicationConflict(r, w, t) => LedgerTypeOK'
    BY ReleasedType, FinishType DEF FailPublicationConflict
<1>9. MarkCanceled(r, w, t) => LedgerTypeOK'
    BY ReleasedType, FinishType DEF MarkCanceled
<1>10. RetryVerification(r, w, t) => LedgerTypeOK'
  <2> SUFFICES ASSUME RetryVerification(r, w, t) PROVE LedgerTypeOK'
      OBVIOUS
  <2>1. row[r].verified + 1 \in Nat
      OBVIOUS
  <2> DEFINE looked == [row[r] EXCEPT !.verified = row[r].verified + 1]
             failed == [Released(looked, "failed") EXCEPT !.pending = FALSE, !.retryDue = TRUE]
             queued == [Released(looked, "queued") EXCEPT !.pending = TRUE, !.retryDue = FALSE]
  <2>2. looked \in Row
      BY <2>1, LookedType
  <2> HIDE DEF Row, looked
  <2>4. failed \in Row /\ queued \in Row
      BY <2>2, RetriedType
  <2>5. Finish(r, failed) \/ Update(r, queued)
      BY DEF RetryVerification, looked
  <2> QED
      BY <2>4, <2>5, FinishType, UpdateType
<1> QED
    BY <1>1, <1>2, <1>3, <1>4, <1>5, <1>6, <1>7, <1>8, <1>9, <1>10

-----------------------------------------------------------------------------

\* The warehouse.
LEMMA SinkTypes ==
    ASSUME SinkTypeOK, NEW r \in Runs, NEW bytes \in Nat
    PROVE  /\ MergeCommits(r, bytes) => SinkTypeOK'
           /\ MergeFails(r, bytes) => SinkTypeOK'
           /\ OrphanLands(r) => SinkTypeOK'
           /\ OrphanDropped(r) => SinkTypeOK'
           /\ ForeignWrite(r) => SinkTypeOK'
BY DEF SinkTypeOK, MergeCommits, MergeFails, OrphanLands, OrphanDropped, ForeignWrite,
       Issued, Inserted, NoRow

\* How a worker moves: on to another statement of its job, within its polling
\* loop, or back to it.
LEMMA GotoType ==
    ASSUME WorkerTypeOK, NEW w \in Workers, pc[w] \notin Polling,
           NEW label \in Label \ Polling, Goto(w, label)
    PROVE  WorkerTypeOK'
BY DEF WorkerTypeOK, Goto

LEMMA PollType ==
    ASSUME WorkerTypeOK, NEW w \in Workers, pc[w] \in Polling,
           NEW label \in Polling, Goto(w, label)
    PROVE  WorkerTypeOK'
BY DEF WorkerTypeOK, Goto, Polling, Label

LEMMA ReturnType ==
    ASSUME WorkerTypeOK, NEW w \in Workers, Return(w), faults' \in Nat
    PROVE  WorkerTypeOK'
BY DEF WorkerTypeOK, Return, NoJob, Job, Kind, Polling, Label, NoToken, NoBytes

\* Outside the polling loop a worker has a run.
LEMMA JobType ==
    ASSUME WorkerTypeOK, NEW w \in Workers, pc[w] \notin Polling
    PROVE  R(w) \in Runs /\ T(w) \in Nat /\ job[w].bytes \in Nat /\ job[w].ref \in BOOLEAN
BY DEF WorkerTypeOK, Job, R, T

\* What executeOne decides on is always a statement of the job.
LEMMA NextStatementType ==
    ASSUME NEW j \in Job
    PROVE  NextStatement(j) \in Label \ Polling
BY DEF NextStatement, Label, Polling

-----------------------------------------------------------------------------

\* Steps that leave one part of the system alone.
LEMMA UnchangedTypes ==
    ASSUME TypeOK
    PROVE  /\ UNCHANGED ledgerVars => LedgerTypeOK'
           /\ UNCHANGED sinkVars => SinkTypeOK'
           /\ UNCHANGED workerVars => WorkerTypeOK'
BY DEF TypeOK, LedgerTypeOK, SinkTypeOK, WorkerTypeOK, ledgerVars, sinkVars, workerVars

\* RecoverCanceled, FailExhausted and a poll that leases nothing.
LEMMA PollingTypes ==
    ASSUME TypeOK, NEW w \in Workers
    PROVE  /\ RecoverCanceledStep(w) => TypeOK'
           /\ FailExhaustedStep(w) => TypeOK'
           /\ NothingToLease(w) => TypeOK'
<1> USE DEF At, Polling
<1>1. ASSUME RecoverCanceledStep(w) PROVE TypeOK'
  <2>1. LedgerTypeOK'
      BY <1>1, FinishAllType DEF TypeOK, RecoverCanceledStep, RecoverCanceled, Status, Terminal
  <2>2. WorkerTypeOK'
      BY <1>1, PollType DEF TypeOK, RecoverCanceledStep
  <2> QED
      BY <1>1, <2>1, <2>2, UnchangedTypes DEF TypeOK, RecoverCanceledStep
<1>2. ASSUME FailExhaustedStep(w) PROVE TypeOK'
  <2>1. LedgerTypeOK'
      BY <1>2, FinishAllType DEF TypeOK, FailExhaustedStep, FailExhausted, Status, Terminal
  <2>2. WorkerTypeOK'
      BY <1>2, PollType DEF TypeOK, FailExhaustedStep
  <2> QED
      BY <1>2, <2>1, <2>2, UnchangedTypes DEF TypeOK, FailExhaustedStep
<1>3. ASSUME NothingToLease(w) PROVE TypeOK'
    BY <1>3, PollType, UnchangedTypes DEF TypeOK, NothingToLease
<1> QED
    BY <1>1, <1>2, <1>3

\* The job executeOne starts from, whether the run has a result or not.
LEMMA LeasedJobType ==
    ASSUME TypeOK, NEW r \in Runs
    PROVE  LeasedJob(r) \in Job /\ LeasedJob(r).run = r
<1>1. row[r] \in Row
    BY DEF TypeOK, LedgerTypeOK
<1>2. row[r].payload \in Nat /\ row[r].attempt + 1 \in Nat
    BY <1>1 DEF Row
<1>3. PICK n \in Nat : n = row[r].attempt + 1
    BY <1>2
<1>4. CASE HasResult(row[r])
  <2>1. LeasedJob(r) = [run |-> r, token |-> n, recovered |-> TRUE,
                        bytes |-> row[r].payload, ref |-> row[r].ref,
                        pending |-> row[r].pending, kind |-> "verdict",
                        cancelSeen |-> FALSE, leaseLost |-> FALSE]
      BY <1>3, <1>4 DEF LeasedJob, HasResult
  <2> QED
      BY <1>1, <2>1 DEF Job, Kind, Row
<1>5. CASE ~HasResult(row[r])
  <2>1. LeasedJob(r) = [run |-> r, token |-> n, recovered |-> FALSE,
                        bytes |-> row[r].payload, ref |-> row[r].ref,
                        pending |-> row[r].pending, kind |-> "none",
                        cancelSeen |-> FALSE, leaseLost |-> FALSE]
      BY <1>3, <1>5 DEF LeasedJob, HasResult
  <2> QED
      BY <1>1, <2>1 DEF Job, Kind, Row
<1> QED
    BY <1>4, <1>5

LEMMA LeaseNextType ==
    ASSUME TypeOK, NEW w \in Workers, LeaseNext(w)
    PROVE  TypeOK'
<1>1. PICK r \in Runs : /\ LeaseRow(r, w)
                        /\ job' = [job EXCEPT ![w] = LeasedJob(r)]
                        /\ pc' = [pc EXCEPT ![w] = IF LeasedJob(r).recovered THEN "decide"
                                                                            ELSE "execute"]
    BY DEF LeaseNext
<1>2. LedgerTypeOK'
    BY <1>1, LeaseRowType DEF TypeOK
<1>3. PICK label \in {"decide", "execute"} : pc' = [pc EXCEPT ![w] = label]
    BY <1>1
<1>4. WorkerTypeOK'
    BY <1>1, <1>3, LeasedJobType DEF TypeOK, WorkerTypeOK, LeaseNext, Polling, Label
<1> QED
    BY <1>2, <1>4, UnchangedTypes DEF TypeOK, LeaseNext, sinkVars

\* A worker that changes its job keeps the run it works on.
LEMMA NewJobType ==
    ASSUME WorkerTypeOK, NEW w \in Workers, pc[w] \notin Polling,
           NEW label \in Label \ Polling, NEW j \in Job, j.run = job[w].run,
           pc' = [pc EXCEPT ![w] = label], job' = [job EXCEPT ![w] = j],
           UNCHANGED faults
    PROVE  WorkerTypeOK'
BY DEF WorkerTypeOK

\* The steps beside the statements: executor, heartbeat, and a job abandoned.
LEMMA ExecutorTypes ==
    ASSUME TypeOK, NEW w \in Workers
    PROVE  /\ Execute(w) => TypeOK'
           /\ Heartbeat(w) => TypeOK'
           /\ Abandon(w) => TypeOK'
<1>1. ASSUME Execute(w) PROVE TypeOK'
  <2>1. pc[w] \notin Polling /\ "decide" \in Label \ Polling
      BY <1>1 DEF Execute, At, Polling, Label
  <2>2. PICK kind \in Kind : job' = [job EXCEPT ![w].kind = kind, ![w].bytes = T(w),
                                               ![w].ref = w \in Publishers]
      BY <1>1 DEF Execute
  <2>3. job[w] \in Job /\ T(w) \in Nat
      BY <2>1, JobType DEF TypeOK, WorkerTypeOK
  <2>4. PICK j \in Job : job' = [job EXCEPT ![w] = j] /\ j.run = job[w].run
    <3> DEFINE executed(ref) == [job[w] EXCEPT !.kind = kind, !.bytes = T(w), !.ref = ref]
    <3>1. \A ref \in BOOLEAN : executed(ref) \in Job /\ executed(ref).run = job[w].run
        BY <2>3 DEF Job
    <3>2. CASE w \in Publishers
      <4>1. job' = [job EXCEPT ![w] = executed(TRUE)]
          BY <2>2, <3>2
      <4> QED
          BY <3>1, <4>1
    <3>3. CASE w \notin Publishers
      <4>1. job' = [job EXCEPT ![w] = executed(FALSE)]
        <5>1. (w \in Publishers) = FALSE
            BY <3>3
        <5> QED
            BY <2>2, <5>1, Zenon
      <4> QED
          BY <3>1, <4>1
    <3> QED
        BY <3>2, <3>3
  <2>7. WorkerTypeOK'
      BY <1>1, <2>1, <2>4, NewJobType DEF TypeOK, Execute
  <2> QED
      BY <1>1, <2>7, UnchangedTypes DEF TypeOK, Execute
<1>2. ASSUME Heartbeat(w) PROVE TypeOK'
  <2>1. pc[w] \notin Polling /\ pc[w] \in Label \ Polling /\ job[w] \in Job
      BY <1>2 DEF Heartbeat, At, Polling, Label, TypeOK, WorkerTypeOK
  <2>2. PICK j \in Job : job' = [job EXCEPT ![w] = j] /\ j.run = job[w].run
    <3> DEFINE seen == [job[w] EXCEPT !.cancelSeen = TRUE]
               lost == [job[w] EXCEPT !.leaseLost = TRUE]
    <3>0. /\ seen \in Job /\ seen.run = job[w].run
          /\ lost \in Job /\ lost.run = job[w].run
        BY <2>1 DEF Job
    <3>1. CASE job' = [job EXCEPT ![w] = seen]
        BY <3>0, <3>1
    <3>2. CASE job' = [job EXCEPT ![w] = lost]
        BY <3>0, <3>2
    <3> QED
        BY <1>2, <3>1, <3>2 DEF Heartbeat
  <2>3. pc' = [pc EXCEPT ![w] = pc[w]]
      BY <1>2 DEF Heartbeat, TypeOK, WorkerTypeOK
  <2>4. WorkerTypeOK'
      BY <1>2, <2>1, <2>2, <2>3, NewJobType DEF TypeOK, Heartbeat
  <2> QED
      BY <1>2, <2>4, UnchangedTypes DEF TypeOK, Heartbeat
<1>3. ASSUME Abandon(w) PROVE TypeOK'
  <2>1. faults' \in Nat
      BY <1>3 DEF TypeOK, WorkerTypeOK, Abandon
  <2>2. WorkerTypeOK'
      BY <1>3, <2>1, ReturnType DEF TypeOK, Abandon
  <2> QED
      BY <1>3, <2>2, UnchangedTypes DEF TypeOK, Abandon
<1> QED
    BY <1>1, <1>2, <1>3

\* executeOne returns without a fault.
LEMMA DoneType ==
    ASSUME TypeOK, NEW w \in Workers, Done(w), UNCHANGED sinkVars,
           LedgerTypeOK' \/ UNCHANGED ledgerVars
    PROVE  TypeOK'
<1>1. WorkerTypeOK'
    BY ReturnType DEF TypeOK, Done, WorkerTypeOK
<1> QED
    BY <1>1, UnchangedTypes DEF TypeOK

\* The statements executeOne returns after.
LEMMA LastStepTypes ==
    ASSUME TypeOK, NEW w \in Workers
    PROVE  /\ MarkCanceledStep(w) => TypeOK'
           /\ FailStep(w) => TypeOK'
           /\ FailOutcomeStep(w) => TypeOK'
           /\ CompleteStep(w) => TypeOK'
           /\ ConflictStep(w) => TypeOK'
           /\ RetryStep(w) => TypeOK'
<1> USE DEF Polling, At
<1>1. ASSUME pc[w] \notin Polling
      PROVE  R(w) \in Runs /\ T(w) \in Nat /\ job[w].bytes \in Nat
    BY <1>1, JobType DEF TypeOK
<1>2. ASSUME MarkCanceledStep(w) PROVE TypeOK'
    BY <1>1, <1>2, StatementTypes, DoneType DEF TypeOK, MarkCanceledStep, LastStatement
<1>3. ASSUME FailStep(w) PROVE TypeOK'
    BY <1>1, <1>3, StatementTypes, DoneType DEF TypeOK, FailStep, LastStatement
<1>4. ASSUME FailOutcomeStep(w) PROVE TypeOK'
    BY <1>1, <1>4, StatementTypes, DoneType DEF TypeOK, FailOutcomeStep, LastStatement
<1>5. ASSUME CompleteStep(w) PROVE TypeOK'
    BY <1>1, <1>5, StatementTypes, DoneType DEF TypeOK, CompleteStep, LastStatement
<1>6. ASSUME ConflictStep(w) PROVE TypeOK'
    BY <1>1, <1>6, StatementTypes, DoneType DEF TypeOK, ConflictStep, LastStatement
<1>7. ASSUME RetryStep(w) PROVE TypeOK'
    BY <1>1, <1>7, StatementTypes, DoneType DEF TypeOK, RetryStep, LastStatement
<1> QED
    BY <1>2, <1>3, <1>4, <1>5, <1>6, <1>7

\* A step of executeOne that only moves on or returns.
LEMMA MoveType ==
    ASSUME TypeOK, NEW w \in Workers, pc[w] \notin Polling,
           \/ Done(w)
           \/ \E label \in Label \ Polling : Goto(w, label)
    PROVE  WorkerTypeOK'
BY GotoType, ReturnType DEF TypeOK, Done, WorkerTypeOK

\* The steps that only choose the next statement.
LEMMA MoveStepTypes ==
    ASSUME TypeOK, NEW w \in Workers
    PROVE  /\ DecideStep(w) => TypeOK'
           /\ RestageStep(w) => TypeOK'
           /\ StoreStep(w) => TypeOK'
           /\ FenceStep(w) => TypeOK'
           /\ ReadbackStep(w) => TypeOK'
           /\ VerifyStep(w) => TypeOK'
<1> USE DEF Polling, At
<1>0. ASSUME pc[w] \notin Polling PROVE NextStatement(job[w]) \in Label \ Polling
    BY NextStatementType DEF TypeOK, WorkerTypeOK
<1>1. ASSUME DecideStep(w) PROVE TypeOK'
    BY <1>0, <1>1, MoveType, UnchangedTypes DEF TypeOK, DecideStep
<1> USE DEF Label
<1>2. ASSUME RestageStep(w) PROVE TypeOK'
    BY <1>2, MoveType, UnchangedTypes DEF TypeOK, RestageStep
<1>3. ASSUME StoreStep(w) PROVE TypeOK'
  <2>1. PICK label \in {"retry", "failOutcome", "verify", "fence"} : Goto(w, label)
      BY <1>3 DEF StoreStep
  <2> QED
      BY <1>3, <2>1, MoveType, UnchangedTypes DEF TypeOK, StoreStep
<1>4. ASSUME FenceStep(w) PROVE TypeOK'
  <2>1. Done(w) \/ Goto(w, "cancel") \/ Goto(w, "mark")
      BY <1>4 DEF FenceStep
  <2> QED
      BY <1>4, <2>1, MoveType, UnchangedTypes DEF TypeOK, FenceStep
<1>5. ASSUME ReadbackStep(w) PROVE TypeOK'
    BY <1>5, MoveType, UnchangedTypes DEF TypeOK, ReadbackStep
<1>6. ASSUME VerifyStep(w) PROVE TypeOK'
    BY <1>6, MoveType, UnchangedTypes DEF TypeOK, VerifyStep
<1> QED
    BY <1>1, <1>2, <1>3, <1>4, <1>5, <1>6

\* The steps that write and go on.
LEMMA StagingTypes ==
    ASSUME TypeOK, NEW w \in Workers
    PROVE  /\ StageStep(w) => TypeOK'
           /\ MarkPendingStep(w) => TypeOK'
           /\ PublishStep(w) => TypeOK'
<1> USE DEF Polling, At, Label
<1>1. ASSUME pc[w] \notin Polling
      PROVE  /\ R(w) \in Runs /\ T(w) \in Nat
             /\ job[w].bytes \in Nat /\ job[w].ref \in BOOLEAN
    BY <1>1, JobType DEF TypeOK
<1>2. ASSUME StageStep(w) PROVE TypeOK'
  <2>1. LedgerTypeOK'
      BY <1>1, <1>2, StatementTypes, UnchangedTypes DEF TypeOK, StageStep
  <2>2. WorkerTypeOK'
      BY <1>2, MoveType DEF StageStep
  <2> QED
      BY <1>2, <2>1, <2>2, UnchangedTypes DEF TypeOK, StageStep
<1>3. ASSUME MarkPendingStep(w) PROVE TypeOK'
  <2>1. pc[w] \notin Polling
      BY <1>3 DEF MarkPendingStep
  <2>2. CASE /\ MarkPublicationPending(R(w), w, T(w))
             /\ pc' = [pc EXCEPT ![w] = "publish"]
             /\ job' = [job EXCEPT ![w].pending = TRUE]
             /\ UNCHANGED faults
    <3> DEFINE marked == [job[w] EXCEPT !.pending = TRUE]
    <3>1. job[w] \in Job
        BY DEF TypeOK, WorkerTypeOK
    <3>2. marked \in Job /\ marked.run = job[w].run
        BY <3>1 DEF Job
    <3>3. job' = [job EXCEPT ![w] = marked]
        BY <2>2
    <3> HIDE DEF marked
    <3>4. WorkerTypeOK'
        BY <2>1, <2>2, <3>2, <3>3, NewJobType DEF TypeOK
    <3>5. LedgerTypeOK'
        BY <1>1, <2>1, <2>2, StatementTypes DEF TypeOK
    <3> QED
        BY <1>3, <3>4, <3>5, UnchangedTypes DEF TypeOK, MarkPendingStep
  <2>3. CASE Done(w) /\ UNCHANGED ledgerVars
      BY <1>3, <2>3, DoneType DEF MarkPendingStep
  <2> QED
      BY <1>3, <2>2, <2>3 DEF MarkPendingStep
<1>4. ASSUME PublishStep(w) PROVE TypeOK'
  <2>1. SinkTypeOK'
      BY <1>1, <1>4, SinkTypes, UnchangedTypes DEF TypeOK, PublishStep
  <2>2. WorkerTypeOK'
      BY <1>4, MoveType DEF PublishStep
  <2> QED
      BY <1>4, <2>1, <2>2, UnchangedTypes DEF TypeOK, PublishStep
<1> QED
    BY <1>2, <1>3, <1>4

\* Clocks, clients and the warehouse.
LEMMA EnvironmentTypes ==
    ASSUME TypeOK, NEW r \in Runs
    PROVE  /\ LeaseExpires(r) => TypeOK'
           /\ RetryElapses(r) => TypeOK'
           /\ Submit(r) => TypeOK'
           /\ Cancel(r) => TypeOK'
           /\ Warehouse(r) => TypeOK'
<1>0. row[r] \in Row
    BY DEF TypeOK, LedgerTypeOK
<1>1. ASSUME LeaseExpires(r) PROVE TypeOK'
  <2>1. [row[r] EXCEPT !.leaseLive = FALSE] \in Row
      BY <1>0 DEF Row
  <2>2. LedgerTypeOK'
      BY <1>1, <2>1, UpdateType DEF TypeOK, LeaseExpires
  <2>3. WorkerTypeOK'
      BY <1>1 DEF TypeOK, WorkerTypeOK, LeaseExpires
  <2> QED
      BY <1>1, <2>2, <2>3, UnchangedTypes DEF TypeOK, LeaseExpires
<1>2. ASSUME RetryElapses(r) PROVE TypeOK'
  <2>1. [row[r] EXCEPT !.retryDue = TRUE] \in Row
      BY <1>0 DEF Row
  <2>2. LedgerTypeOK'
      BY <1>2, <2>1, UpdateType DEF TypeOK, RetryElapses
  <2> QED
      BY <1>2, <2>2, UnchangedTypes DEF TypeOK, RetryElapses
<1>3. ASSUME Submit(r) PROVE TypeOK'
    BY <1>3, UnchangedTypes DEF TypeOK, Submit, CreateRow, LedgerTypeOK, Row, Status,
       Unfinished, CallbackState
<1>4. ASSUME Cancel(r) PROVE TypeOK'
  <2>1. \A o \in Row : /\ [o EXCEPT !.cancel = TRUE] \in Row
                       /\ [[o EXCEPT !.cancel = TRUE] EXCEPT !.status = "canceled"] \in Row
      BY DEF Row, Status, Terminal
  <2>2. LedgerTypeOK'
      BY <1>0, <1>4, <2>1, UpdateType, FinishType DEF TypeOK, Cancel, CancelRow
  <2> QED
      BY <1>4, <2>2, UnchangedTypes DEF TypeOK, Cancel
<1>5. ASSUME Warehouse(r) PROVE TypeOK'
    BY <1>5, 0 \in Nat, SinkTypes, UnchangedTypes DEF TypeOK, Warehouse
<1> QED
    BY <1>1, <1>2, <1>3, <1>4, <1>5

\* The migration of a starting replica.
LEMMA StartTypes == ASSUME TypeOK, ProcessStarts PROVE TypeOK'
<1>1. \A r \in Runs : [row[r] EXCEPT !.payload = row[r].response] \in Row
    BY DEF TypeOK, LedgerTypeOK, Row
<1>2. LedgerTypeOK'
    BY <1>1 DEF TypeOK, LedgerTypeOK, ProcessStarts, Backfill
<1> QED
    BY <1>2, UnchangedTypes DEF TypeOK, ProcessStarts

\* Every step keeps the types.
LEMMA NextTypeOK == TypeOK /\ [Next]_vars => TypeOK'
<1> SUFFICES ASSUME TypeOK, [Next]_vars PROVE TypeOK'
    OBVIOUS
<1>1. ASSUME NEW w \in Workers, WorkerStep(w) PROVE TypeOK'
    BY <1>1, PollingTypes, LeaseNextType, LastStepTypes, MoveStepTypes, StagingTypes
       DEF WorkerStep
<1>2. ASSUME NEW w \in Workers, Execute(w) \/ Heartbeat(w) \/ Abandon(w) PROVE TypeOK'
    BY <1>2, ExecutorTypes
<1>3. ASSUME NEW r \in Runs,
             \/ LeaseExpires(r) \/ RetryElapses(r) \/ Submit(r)
             \/ Cancel(r) \/ Warehouse(r)
      PROVE  TypeOK'
    BY <1>3, EnvironmentTypes
<1>4. ASSUME UNCHANGED vars PROVE TypeOK'
    BY <1>4, UnchangedTypes DEF TypeOK, vars, ledgerVars, sinkVars, workerVars
<1> QED
    BY <1>1, <1>2, <1>3, <1>4, StartTypes DEF Next

\* Every column, job and sink entry stays in its type, for any number of runs,
\* workers, attempts and faults.
THEOREM TypeCorrect == Spec => []TypeOK
BY InitTypeOK, NextTypeOK, PTL DEF Spec

-----------------------------------------------------------------------------
(* The inductive invariant. *)

\* Every row stays consistent and advances, in a step of a.
RowsKept(a) ==
    \A s \in Runs : RowInv(row'[s]) /\ Advances(row[s], row'[s], a)

\* No run becomes completed in the step.
NoneCompletes ==
    \A s \in Runs : row'[s].status = "completed" => row[s].status = "completed"

\* A row that does not change advances.
LEMMA AdvancesStutter ==
    ASSUME NEW o, NEW a, RowInv(o)
    PROVE  Advances(o, o, a)
BY DEF Advances, RowInv, Unfinished

\* It is enough to look at the one row a statement updates.
LEMMA RowKept ==
    ASSUME LedgerTypeOK, \A s \in Runs : RowInv(row[s]),
           NEW r \in Runs, NEW a, NEW n,
           row' = [row EXCEPT ![r] = n], RowInv(n), Advances(row[r], n, a)
    PROVE  RowsKept(a)
BY AdvancesStutter DEF LedgerTypeOK, RowsKept

\* What Released leaves alone.
LEMMA ReleasedRow ==
    ASSUME NEW o \in Row, NEW s \in Status
    PROVE  LET n == Released(o, s) IN
           /\ n.status = s /\ n.token = NoToken /\ n.cancel = o.cancel
           /\ n.attempt = o.attempt /\ n.response = o.response /\ n.payload = o.payload
           /\ n.pending = o.pending /\ n.retryDue = o.retryDue
BY DEF Released, Row

\* The polling statements that end many rows at once.
LEMMA FinishAllKeeps ==
    ASSUME LedgerTypeOK, \A s \in Runs : RowInv(row[s]), NEW a,
           NEW S \in SUBSET Runs, NEW status \in {"failed", "canceled"},
           FinishAll(S, status),
           \A s \in S : row[s].status = "running" /\ ~row[s].pending
    PROVE  RowsKept(a) /\ NoneCompletes
<1>1. ASSUME NEW s \in Runs
      PROVE  /\ RowInv(row'[s]) /\ Advances(row[s], row'[s], a)
             /\ row'[s].status = "completed" => row[s].status = "completed"
  <2>1. row[s] \in Row /\ RowInv(row[s])
      BY DEF LedgerTypeOK
  <2>2. CASE s \in S
    <3>1. row'[s] = Released(row[s], status)
        BY <2>2 DEF FinishAll
    <3> QED
        BY <2>1, <2>2, <3>1, ReleasedRow
           DEF Status, Terminal, Unfinished, Passed, RowInv, Advances
  <2>3. CASE s \notin S
    <3>1. row'[s] = row[s]
        BY <2>3 DEF FinishAll
    <3> QED
        BY <2>1, <3>1, AdvancesStutter
  <2> QED
      BY <2>2, <2>3
<1> QED
    BY <1>1 DEF RowsKept, NoneCompletes

-----------------------------------------------------------------------------
(* The statements, from the facts their callers establish. *)

\* The statements of the HTTP handlers.
LEMMA ClientKeeps ==
    ASSUME LedgerTypeOK, \A s \in Runs : RowInv(row[s]), NEW r \in Runs
    PROVE  /\ CreateRow(r) => RowsKept(NoWorker) /\ NoneCompletes
           /\ CancelRow(r) => RowsKept(NoWorker) /\ NoneCompletes
<1>0. row[r] \in Row /\ RowInv(row[r])
    BY DEF LedgerTypeOK
<1>1. ASSUME CreateRow(r) PROVE RowsKept(NoWorker) /\ NoneCompletes
  <2> DEFINE n == [row[r] EXCEPT !.status = "queued"]
  <2>1. row' = [row EXCEPT ![r] = n]
      BY <1>1 DEF CreateRow
  <2>2. RowInv(n) /\ Advances(row[r], n, NoWorker) /\ n.status = "queued"
      BY <1>0, <1>1 DEF CreateRow, Row, RowInv, Advances, Passed, Unfinished, Terminal
  <2> QED
      BY <2>1, <2>2, RowKept DEF NoneCompletes, LedgerTypeOK
<1>2. ASSUME CancelRow(r) PROVE RowsKept(NoWorker) /\ NoneCompletes
  <2> DEFINE n == [row[r] EXCEPT !.cancel = TRUE]
             m == [n EXCEPT !.status = "canceled"]
  <2>0. \/ row[r].status = "queued" /\ ~row[r].pending /\ row' = [row EXCEPT ![r] = m]
        \/ row[r].status \in Unfinished /\ (row[r].status = "running" \/ row[r].pending)
           /\ row' = [row EXCEPT ![r] = n]
      BY <1>2, Zenon DEF CancelRow, Finish, Update
  <2>1. CASE row[r].status = "queued" /\ ~row[r].pending /\ row' = [row EXCEPT ![r] = m]
    <3>2. RowInv(m) /\ Advances(row[r], m, NoWorker) /\ m.status = "canceled"
        BY <1>0, <2>1 DEF Row, RowInv, Advances, Passed, Unfinished, Terminal
    <3> QED
        BY <2>1, <3>2, RowKept DEF NoneCompletes, LedgerTypeOK
  <2>2. CASE row[r].status \in Unfinished /\ (row[r].status = "running" \/ row[r].pending)
             /\ row' = [row EXCEPT ![r] = n]
    <3>2. RowInv(n) /\ Advances(row[r], n, NoWorker) /\ n.status = row[r].status
        BY <1>0, <2>2 DEF Row, RowInv, Advances, Passed, Unfinished, Terminal
    <3> QED
        BY <2>2, <3>2, RowKept DEF NoneCompletes, LedgerTypeOK
  <2> QED
      BY <2>0, <2>1, <2>2
<1> QED
    BY <1>1, <1>2

\* A new lease, which ends every older one.
LEMMA LeaseKeeps ==
    ASSUME LedgerTypeOK, \A s \in Runs : RowInv(row[s]),
           NEW r \in Runs, NEW w \in Workers, LeaseRow(r, w)
    PROVE  RowsKept(w) /\ NoneCompletes
<1>0. row[r] \in Row /\ RowInv(row[r])
    BY DEF LedgerTypeOK
<1>1. PICK k \in Nat : k = row[r].attempt + 1
    BY <1>0 DEF Row
<1> DEFINE n == [row[r] EXCEPT !.status = "running", !.owner = w, !.token = k,
                               !.attempt = k, !.leaseLive = TRUE, !.retryDue = TRUE]
<1>2. row' = [row EXCEPT ![r] = n]
    BY <1>1 DEF LeaseRow, Update
<1>3. RowInv(n) /\ Advances(row[r], n, w) /\ n.status = "running"
    BY <1>0 DEF LeaseRow, Leasable, Row, RowInv, Advances, Passed, Unfinished, Terminal
<1> QED
    BY <1>2, <1>3, RowKept DEF NoneCompletes, LedgerTypeOK

\* The statements that leave the run to its worker.
LEMMA StagingKeeps ==
    ASSUME LedgerTypeOK, \A s \in Runs : RowInv(row[s]),
           NEW r \in Runs, NEW w \in Workers, NEW t \in Nat,
           NEW bytes \in Nat \ {NoBytes}, NEW ref \in BOOLEAN
    PROVE  /\ StageOutcome(r, w, t, bytes, ref) => RowsKept(w) /\ NoneCompletes
           /\ MarkPublicationPending(r, w, t) /\ row[r].response # NoBytes
                => RowsKept(w) /\ NoneCompletes
<1>0. row[r] \in Row /\ RowInv(row[r])
    BY DEF LedgerTypeOK
<1> USE DEF Holds, HoldsLive, Row, RowInv, Advances, Passed, Unfinished, Terminal
<1>1. ASSUME StageOutcome(r, w, t, bytes, ref) PROVE RowsKept(w) /\ NoneCompletes
  <2> DEFINE n == [row[r] EXCEPT !.response = bytes, !.payload = bytes, !.ref = ref]
  <2>1. row' = [row EXCEPT ![r] = n]
      BY <1>1 DEF StageOutcome, Update
  <2>2. RowInv(n) /\ Advances(row[r], n, w) /\ n.status = "running"
      BY <1>0, <1>1 DEF StageOutcome, StageFence, NoBytes
  <2> QED
      BY <2>1, <2>2, RowKept DEF NoneCompletes, LedgerTypeOK
<1>2. ASSUME MarkPublicationPending(r, w, t), row[r].response # NoBytes
      PROVE  RowsKept(w) /\ NoneCompletes
  <2> DEFINE n == [row[r] EXCEPT !.pending = TRUE, !.retryDue = TRUE]
  <2>1. row' = [row EXCEPT ![r] = n]
      BY <1>2 DEF MarkPublicationPending, Update
  <2>2. RowInv(n) /\ Advances(row[r], n, w) /\ n.status = "running"
      BY <1>0, <1>2 DEF MarkPublicationPending, PendingFence
  <2> QED
      BY <2>1, <2>2, RowKept DEF NoneCompletes, LedgerTypeOK
<1> QED
    BY <1>1, <1>2

\* The statements that end a run without a publication.
LEMMA EndingKeeps ==
    ASSUME LedgerTypeOK, \A s \in Runs : RowInv(row[s]),
           NEW r \in Runs, NEW w \in Workers, NEW t \in Nat,
           NEW bytes \in Nat \ {NoBytes}
    PROVE  /\ Fail(r, w, t) /\ ~row[r].pending => RowsKept(w) /\ NoneCompletes
           /\ FailOutcome(r, w, t, bytes) /\ ~row[r].pending
              /\ row[r].payload \in {NoBytes, bytes} => RowsKept(w) /\ NoneCompletes
           /\ FailPublicationConflict(r, w, t) => RowsKept(w) /\ NoneCompletes
           /\ MarkCanceled(r, w, t) => RowsKept(w) /\ NoneCompletes
<1>0. row[r] \in Row /\ RowInv(row[r])
    BY DEF LedgerTypeOK
<1> DEFINE failed == Released(row[r], "failed")
           canceled == Released(row[r], "canceled")
<1>00. failed \in Row /\ canceled \in Row
    BY <1>0, ReleasedType DEF Status, Terminal
<1>01. /\ failed.status = "failed" /\ canceled.status = "canceled"
       /\ \A n \in {failed, canceled} :
            /\ n.cancel = row[r].cancel
            /\ n.response = row[r].response /\ n.payload = row[r].payload
            /\ n.pending = row[r].pending /\ n.retryDue = row[r].retryDue
    BY <1>0, ReleasedRow DEF Status, Terminal
<1> HIDE DEF failed, canceled
<1> USE DEF Holds, HoldsLive, Row, RowInv, Advances, Passed, Unfinished, Terminal, FailFence
<1>1. ASSUME Fail(r, w, t), ~row[r].pending PROVE RowsKept(w) /\ NoneCompletes
  <2>1. row' = [row EXCEPT ![r] = failed]
      BY <1>1 DEF Fail, Finish, failed
  <2>2. RowInv(failed) /\ Advances(row[r], failed, w)
      BY <1>0, <1>01, <1>1 DEF Fail
  <2> QED
      BY <1>01, <2>1, <2>2, RowKept DEF NoneCompletes, LedgerTypeOK
<1>2. ASSUME FailOutcome(r, w, t, bytes), ~row[r].pending, row[r].payload \in {NoBytes, bytes}
      PROVE  RowsKept(w) /\ NoneCompletes
  <2> DEFINE n == [failed EXCEPT !.response = bytes]
  <2>1. row' = [row EXCEPT ![r] = n]
      BY <1>2 DEF FailOutcome, Finish, failed
  <2>2. RowInv(n) /\ Advances(row[r], n, w) /\ n.status = "failed"
      BY <1>0, <1>00, <1>01, <1>2 DEF FailOutcome, FailOutcomeFence, NoBytes
  <2> QED
      BY <2>1, <2>2, RowKept DEF NoneCompletes, LedgerTypeOK
<1>3. ASSUME FailPublicationConflict(r, w, t) PROVE RowsKept(w) /\ NoneCompletes
  <2> DEFINE n == [failed EXCEPT !.pending = FALSE]
  <2>1. row' = [row EXCEPT ![r] = n]
      BY <1>3 DEF FailPublicationConflict, Finish, failed
  <2>2. RowInv(n) /\ Advances(row[r], n, w) /\ n.status = "failed"
      BY <1>0, <1>00, <1>01, <1>3 DEF FailPublicationConflict
  <2> QED
      BY <2>1, <2>2, RowKept DEF NoneCompletes, LedgerTypeOK
<1>4. ASSUME MarkCanceled(r, w, t) PROVE RowsKept(w) /\ NoneCompletes
  <2>1. row' = [row EXCEPT ![r] = canceled]
      BY <1>4 DEF MarkCanceled, Finish, canceled
  <2>2. RowInv(canceled) /\ Advances(row[r], canceled, w)
      BY <1>0, <1>01, <1>4 DEF MarkCanceled, CancelFence
  <2> QED
      BY <1>01, <2>1, <2>2, RowKept DEF NoneCompletes, LedgerTypeOK
<1> QED
    BY <1>1, <1>2, <1>3, <1>4

\* The statements that end or continue a publication.
LEMMA PublicationKeeps ==
    ASSUME LedgerTypeOK, \A s \in Runs : RowInv(row[s]),
           NEW r \in Runs, NEW w \in Workers, NEW t \in Nat,
           NEW bytes \in Nat \ {NoBytes}
    PROVE  /\ CompletePublished(r, w, t, bytes) /\ row[r].payload = bytes =>
                RowsKept(w)
                /\ \A s \in Runs : row'[s].status = "completed" =>
                       row[s].status = "completed" \/ s = r
           /\ RetryVerification(r, w, t) => RowsKept(w) /\ NoneCompletes
<1>0. row[r] \in Row /\ RowInv(row[r])
    BY DEF LedgerTypeOK
<1> USE DEF Holds, HoldsLive, Unfinished, Terminal
<1>1. ASSUME CompletePublished(r, w, t, bytes), row[r].payload = bytes
      PROVE  RowsKept(w)
             /\ \A s \in Runs : row'[s].status = "completed" =>
                    row[s].status = "completed" \/ s = r
  <2> DEFINE done == Released(row[r], "completed")
             n == [done EXCEPT !.response = bytes, !.payload = bytes,
                               !.pending = FALSE, !.retryDue = TRUE]
  <2>1. row' = [row EXCEPT ![r] = n]
      BY <1>1 DEF CompletePublished, Finish
  <2>0. "completed" \in Status
      BY DEF Status
  <2>2. done \in Row
      BY <1>0, <2>0, ReleasedType
  <2>3. done.status = "completed" /\ done.cancel = row[r].cancel
      BY <1>0, <2>0, ReleasedRow
  <2> HIDE DEF done
  <2>4. RowInv(n) /\ Advances(row[r], n, w)
      BY <1>0, <1>1, <2>2, <2>3 DEF CompletePublished, CompleteFence, NoBytes, Row, RowInv, Advances,
         Passed
  <2> QED
      BY <2>1, <2>4, RowKept DEF LedgerTypeOK
<1>2. ASSUME RetryVerification(r, w, t) PROVE RowsKept(w) /\ NoneCompletes
  <2>1. PICK k \in Nat : k = row[r].verified + 1
      BY <1>0 DEF Row
  <2> DEFINE looked == [row[r] EXCEPT !.verified = k]
             last == Released(looked, "failed")
             again == Released(looked, "queued")
             failed == [last EXCEPT !.pending = FALSE, !.retryDue = TRUE]
             queued == [again EXCEPT !.pending = TRUE, !.retryDue = FALSE]
  <2>2. /\ looked \in Row
        /\ looked.cancel = row[r].cancel /\ looked.attempt = row[r].attempt
        /\ looked.response = row[r].response /\ looked.payload = row[r].payload
      BY <1>0 DEF Row
  <2>3. row' = [row EXCEPT ![r] = failed] \/ row' = [row EXCEPT ![r] = queued]
      BY <1>2, <2>1 DEF RetryVerification, Finish, Update
  <2>4. RowInv(failed) /\ Advances(row[r], failed, w) /\ failed.status # "completed"
    <3>1. last \in Row /\ last.status = "failed" /\ last.cancel = looked.cancel
          /\ last.response = looked.response /\ last.payload = looked.payload
        BY <2>2, ReleasedType, ReleasedRow DEF Status
    <3> HIDE DEF looked, last
    <3> QED
        BY <1>0, <1>2, <2>2, <3>1 DEF RetryVerification, RetryFence, Row, RowInv, Advances, Passed
  <2>5. RowInv(queued) /\ Advances(row[r], queued, w) /\ queued.status # "completed"
    <3>1. again \in Row /\ again.status = "queued" /\ again.cancel = looked.cancel
          /\ again.attempt = looked.attempt
          /\ again.response = looked.response /\ again.payload = looked.payload
        BY <2>2, ReleasedType, ReleasedRow DEF Status
    <3> HIDE DEF looked, again
    <3> QED
        BY <1>0, <1>2, <2>2, <3>1 DEF RetryVerification, RetryFence, Row, RowInv, Advances, Passed
  <2> HIDE DEF failed, queued
  <2> QED
      BY <2>3, <2>4, <2>5, RowKept DEF NoneCompletes, LedgerTypeOK
<1> QED
    BY <1>1, <1>2

\* The clock.
LEMMA ClockKeeps ==
    ASSUME LedgerTypeOK, \A s \in Runs : RowInv(row[s]), NEW r \in Runs
    PROVE  /\ LeaseExpires(r) => RowsKept(NoWorker) /\ NoneCompletes
           /\ RetryElapses(r) => RowsKept(NoWorker) /\ NoneCompletes
<1>0. row[r] \in Row /\ RowInv(row[r])
    BY DEF LedgerTypeOK
<1> USE DEF Row, RowInv, Advances, Passed, Unfinished, Terminal
<1>1. ASSUME LeaseExpires(r) PROVE RowsKept(NoWorker) /\ NoneCompletes
  <2> DEFINE n == [row[r] EXCEPT !.leaseLive = FALSE]
  <2>1. row' = [row EXCEPT ![r] = n]
      BY <1>1 DEF LeaseExpires, Update
  <2>2. RowInv(n) /\ Advances(row[r], n, NoWorker) /\ n.status = "running"
      BY <1>0, <1>1 DEF LeaseExpires
  <2> QED
      BY <2>1, <2>2, RowKept DEF NoneCompletes, LedgerTypeOK
<1>2. ASSUME RetryElapses(r) PROVE RowsKept(NoWorker) /\ NoneCompletes
  <2> DEFINE n == [row[r] EXCEPT !.retryDue = TRUE]
  <2>1. row' = [row EXCEPT ![r] = n]
      BY <1>2 DEF RetryElapses, Update
  <2>2. RowInv(n) /\ Advances(row[r], n, NoWorker) /\ n.status = row[r].status
      BY <1>0, <1>2 DEF RetryElapses
  <2> QED
      BY <2>1, <2>2, RowKept DEF NoneCompletes, LedgerTypeOK
<1> QED
    BY <1>1, <1>2

\* The migration at a process start.
LEMMA BackfillKeeps ==
    ASSUME LedgerTypeOK, \A s \in Runs : RowInv(row[s]), Backfill
    PROVE  RowsKept(NoWorker) /\ NoneCompletes
<1>1. ASSUME NEW s \in Runs
      PROVE  /\ RowInv(row'[s]) /\ Advances(row[s], row'[s], NoWorker)
             /\ row'[s].status = row[s].status
  <2>1. row[s] \in Row /\ RowInv(row[s])
      BY DEF LedgerTypeOK
  <2>2. CASE LacksPayload(s)
    <3> DEFINE n == [row[s] EXCEPT !.payload = row[s].response]
    <3>1. row'[s] = n
        BY <2>2 DEF Backfill
    <3>2. row[s].status \in Terminal /\ ~row[s].pending
        BY <2>1, <2>2 DEF LacksPayload, RowInv, Row, Status, Unfinished
    <3> QED
        BY <2>1, <2>2, <3>1, <3>2
           DEF LacksPayload, RowInv, Advances, Passed, Row, Unfinished, Terminal
  <2>3. CASE ~LacksPayload(s)
    <3>1. row'[s] = row[s]
        BY <2>3 DEF Backfill
    <3> QED
        BY <2>1, <3>1, AdvancesStutter
  <2> QED
      BY <2>2, <2>3
<1> QED
    BY <1>1 DEF RowsKept, NoneCompletes

\* A step that leaves the table alone.
LEMMA NothingKeeps ==
    ASSUME \A s \in Runs : RowInv(row[s]), NEW a, UNCHANGED row
    PROVE  RowsKept(a) /\ NoneCompletes
BY AdvancesStutter DEF RowsKept, NoneCompletes

-----------------------------------------------------------------------------

\* The sink never changes or loses a row it has.
SinkGrows == \A r \in Runs : sink[r] # NoRow => sink'[r] = sink[r]

\* What worker v knows survives the step of another worker or of no worker.
LEMMA OthersKeep ==
    ASSUME TypeOK, NEW a, RowsKept(a), SinkGrows,
           NEW v \in Workers, v # a, WorkerInv(v),
           pc'[v] = pc[v], job'[v] = job[v],
           pc[v] = "publish" => merges'[R(v)] = merges[R(v)]
    PROVE  WorkerInv(v)'
<1>1. CASE pc[v] \in Polling
    BY <1>1 DEF WorkerInv, Polling, Staged
<1>2. CASE pc[v] \notin Polling
  <2>1. R(v) \in Runs /\ R(v)' = R(v) /\ T(v)' = T(v)
      BY <1>2, JobType DEF TypeOK, R, T
  <2>2. Advances(row[R(v)], row'[R(v)], a)
      BY <2>1 DEF RowsKept
  <2>3. Holds(R(v), v, T(v))' =>
            /\ Holds(R(v), v, T(v))
            /\ row'[R(v)].response = row[R(v)].response
            /\ row'[R(v)].payload = row[R(v)].payload
            /\ row'[R(v)].pending = row[R(v)].pending
      BY <2>1, <2>2 DEF Holds, Advances
  <2>4. row[R(v)].payload # NoBytes => row'[R(v)].payload = row[R(v)].payload
      BY <2>2 DEF Advances
  <2>5. Passed(row[R(v)]) => Passed(row'[R(v)])
      BY <2>2 DEF Advances
  <2>6. sink[R(v)] # NoRow => sink'[R(v)] = sink[R(v)]
      BY <2>1 DEF SinkGrows
  <2> QED
      BY <2>1, <2>3, <2>4, <2>5, <2>6 DEF WorkerInv, Polling, Staged, NoRow, NoBytes
<1> QED
    BY <1>1, <1>2

\* A step that touches no sink row and completes no run keeps SinkInv.
LEMMA SinkKeeps ==
    ASSUME \A r \in Runs : SinkInv(r), NEW a, RowsKept(a), NoneCompletes, UNCHANGED sinkVars
    PROVE  \A r \in Runs : SinkInv(r)'
BY DEF SinkInv, RowsKept, NoneCompletes, Advances, Terminal, sinkVars

\* A step keeps the invariant, and whoever takes it, every row advances.
Kept == IInv' /\ \E a \in Workers \union {NoWorker} : RowsKept(a)

\* Everything but what the acting worker a knows after its step.
LEMMA StepKeeps ==
    ASSUME IInv, NEW a \in Workers \union {NoWorker}, TypeOK', RowsKept(a), SinkGrows,
           \A r \in Runs : SinkInv(r)',
           \A v \in Workers \ {a} :
              /\ pc'[v] = pc[v] /\ job'[v] = job[v]
              /\ pc[v] = "publish" => merges'[R(v)] = merges[R(v)],
           a \in Workers => WorkerInv(a)',
           a \in Workers /\ pc'[a] = "publish" =>
              \A v \in Workers : pc[v] = "publish" => R(v) # job'[a].run
    PROVE  Kept
<1>1. \A r \in Runs : RowInv(row[r])'
    BY DEF RowsKept
<1>2. \A v \in Workers : WorkerInv(v)'
    BY OthersKeep DEF IInv
<1>3. OnePublisher'
    BY DEF IInv, OnePublisher, At, R
<1> QED
    BY <1>1, <1>2, <1>3 DEF IInv, Kept

\* A step of w that only writes the table, and completes no run.
LEMMA QuietKeeps ==
    ASSUME IInv, NEW w \in Workers, TypeOK', RowsKept(w), NoneCompletes, UNCHANGED sinkVars,
           \A v \in Workers \ {w} : pc'[v] = pc[v] /\ job'[v] = job[v],
           pc'[w] # "publish", WorkerInv(w)'
    PROVE  Kept
<1>1. \A r \in Runs : SinkInv(r)'
    BY SinkKeeps DEF IInv
<1>2. SinkGrows
    BY DEF SinkGrows, sinkVars
<1> QED
    BY <1>1, <1>2, StepKeeps DEF sinkVars

\* A worker that polls knows nothing that could break.
LEMMA PollKeeps ==
    ASSUME IInv, NEW w \in Workers, TypeOK', RowsKept(w), NoneCompletes, UNCHANGED sinkVars,
           \A v \in Workers \ {w} : pc'[v] = pc[v] /\ job'[v] = job[v],
           pc'[w] \in Polling
    PROVE  Kept
<1>1. WorkerInv(w)'
    BY DEF WorkerInv, Polling, Staged
<1>2. pc'[w] # "publish"
    BY DEF Polling
<1> QED
    BY <1>1, <1>2, QuietKeeps

\* executeOne returns after a statement that completes no run.
LEMMA ReturnKeeps ==
    ASSUME IInv, NEW w \in Workers, TypeOK', RowsKept(w), NoneCompletes, UNCHANGED sinkVars,
           Return(w)
    PROVE  Kept
<1>1. /\ pc'[w] \in Polling
      /\ \A v \in Workers \ {w} : pc'[v] = pc[v] /\ job'[v] = job[v]
    BY DEF IInv, TypeOK, WorkerTypeOK, Return, Polling
<1> QED
    BY <1>1, PollKeeps

\* The worker moves on to a statement other than Publish.
LEMMA GotoKeeps ==
    ASSUME IInv, NEW w \in Workers, TypeOK', RowsKept(w), NoneCompletes, UNCHANGED sinkVars,
           NEW label, label # "publish", Goto(w, label), WorkerInv(w)'
    PROVE  Kept
<1>1. /\ pc'[w] = label
      /\ \A v \in Workers \ {w} : pc'[v] = pc[v] /\ job'[v] = job[v]
    BY DEF IInv, TypeOK, WorkerTypeOK, Goto
<1> QED
    BY <1>1, QuietKeeps

-----------------------------------------------------------------------------

\* One lemma per group of actions: first the polling loop.
LEMMA PollingKeep ==
    ASSUME IInv, TypeOK', NEW w \in Workers
    PROVE  /\ RecoverCanceledStep(w) => Kept
           /\ FailExhaustedStep(w) => Kept
           /\ NothingToLease(w) => Kept
<1> USE DEF Polling, IInv, TypeOK
<1>0. ASSUME NEW label, Goto(w, label), label \in Polling
      PROVE  /\ pc'[w] \in Polling
             /\ \A v \in Workers \ {w} : pc'[v] = pc[v] /\ job'[v] = job[v]
    BY <1>0 DEF WorkerTypeOK, Goto
<1>00. \A r \in Runs : row[r].response = NoBytes => ~row[r].pending
    BY DEF RowInv
<1>1. ASSUME RecoverCanceledStep(w) PROVE Kept
  <2>1. RowsKept(w) /\ NoneCompletes
      BY <1>1, FinishAllKeeps DEF RecoverCanceledStep, RecoverCanceled, CancelRecoverable
  <2> QED
      BY <1>0, <1>1, <2>1, PollKeeps DEF RecoverCanceledStep
<1>2. ASSUME FailExhaustedStep(w) PROVE Kept
  <2>1. RowsKept(w) /\ NoneCompletes
      BY <1>00, <1>2, FinishAllKeeps DEF FailExhaustedStep, FailExhausted, Exhausted
  <2> QED
      BY <1>0, <1>2, <2>1, PollKeeps DEF FailExhaustedStep
<1>3. ASSUME NothingToLease(w) PROVE Kept
    BY <1>0, <1>3, NothingKeeps, PollKeeps DEF NothingToLease, ledgerVars
<1> QED
    BY <1>1, <1>2, <1>3

\* The leased job knows what its row says: executed or recovered.
LEMMA LeaseNextKeeps ==
    ASSUME IInv, TypeOK', NEW w \in Workers, LeaseNext(w)
    PROVE  Kept
<1>1. PICK r \in Runs : /\ LeaseRow(r, w)
                        /\ job' = [job EXCEPT ![w] = LeasedJob(r)]
                        /\ pc' = [pc EXCEPT ![w] = IF LeasedJob(r).recovered THEN "decide"
                                                                            ELSE "execute"]
    BY DEF LeaseNext
<1>2. RowsKept(w) /\ NoneCompletes
    BY <1>1, LeaseKeeps DEF IInv, TypeOK
<1>3. WorkerInv(w)'
  <2>1. row[r] \in Row /\ RowInv(row[r]) /\ row[r].status \in Unfinished
      BY <1>1 DEF IInv, TypeOK, LedgerTypeOK, LeaseRow, Leasable, Unfinished
  <2>2. /\ row'[r].response = row[r].response /\ row'[r].payload = row[r].payload
        /\ row'[r].pending = row[r].pending
    <3>1. PICK k \in Nat : k = row[r].attempt + 1
        BY <2>1 DEF Row
    <3>2. row' = [row EXCEPT ![r] = [row[r] EXCEPT !.status = "running", !.owner = w,
                      !.token = k, !.attempt = k, !.leaseLive = TRUE, !.retryDue = TRUE]]
        BY <1>1, <3>1 DEF LeaseRow, Update
    <3> QED
        BY <2>1, <3>2 DEF Row, IInv, TypeOK, LedgerTypeOK
  <2>3. row[r].payload = row[r].response /\ (HasResult(row[r]) <=> row[r].payload # NoBytes)
      BY <2>1 DEF RowInv, HasResult
  <2>4. /\ job'[w].run = r /\ job'[w].token = row[r].attempt + 1
        /\ job'[w].bytes = row[r].payload /\ job'[w].pending = row[r].pending
        /\ job'[w].recovered <=> row[r].payload # NoBytes
        /\ row[r].payload # NoBytes => job'[w].kind = "verdict"
      BY <1>1, <2>3 DEF LeasedJob, IInv, TypeOK, WorkerTypeOK
  <2>5. row[r].attempt \in Nat /\ row[r].attempt + 1 > 0
      BY <2>1 DEF Row
  <2>6. CASE row[r].payload # NoBytes
    <3>1. pc'[w] = "decide"
        BY <1>1, <2>3, <2>6 DEF LeasedJob, IInv, TypeOK, WorkerTypeOK
    <3> QED
        BY <2>2, <2>4, <2>5, <2>6, <3>1 DEF WorkerInv, R, T, Polling, Staged
  <2>7. CASE row[r].payload = NoBytes
    <3>1. pc'[w] = "execute"
        BY <1>1, <2>3, <2>7 DEF LeasedJob, IInv, TypeOK, WorkerTypeOK
    <3>2. row[r].attempt + 1 <= MaxAttempts
        BY <1>1, <2>3, <2>5, <2>7 DEF LeaseRow, Leasable
    <3>3. ~row[r].pending
        BY <2>1, <2>3, <2>7 DEF RowInv
    <3> QED
        BY <2>2, <2>3, <2>4, <2>5, <2>7, <3>1, <3>2, <3>3 DEF WorkerInv, R, T, Polling, Staged
  <2> QED
      BY <2>6, <2>7
<1>4. /\ pc'[w] # "publish"
      /\ \A v \in Workers \ {w} : pc'[v] = pc[v] /\ job'[v] = job[v]
    BY <1>1 DEF IInv, TypeOK, WorkerTypeOK
<1> QED
    BY <1>2, <1>3, <1>4, QuietKeeps DEF LeaseNext, sinkVars

\* The executor produces bytes named by its own lease.
LEMMA ExecutorKeeps ==
    ASSUME IInv, TypeOK', NEW w \in Workers
    PROVE  /\ Execute(w) => Kept
           /\ Heartbeat(w) => Kept
           /\ Abandon(w) => Kept
<1>0. WorkerInv(w) /\ \A s \in Runs : RowInv(row[s])
    BY DEF IInv
<1>00. UNCHANGED ledgerVars => RowsKept(w) /\ NoneCompletes
    BY <1>0, NothingKeeps DEF ledgerVars
<1>1. ASSUME Execute(w) PROVE Kept
  <2>1. /\ pc[w] = "execute" /\ pc'[w] = "decide"
        /\ job'[w].run = R(w) /\ job'[w].token = T(w) /\ job'[w].bytes = T(w)
        /\ job'[w].recovered = job[w].recovered /\ job'[w].pending = job[w].pending
        /\ \A v \in Workers \ {w} : pc'[v] = pc[v] /\ job'[v] = job[v]
      BY <1>1 DEF Execute, At, R, T, IInv, TypeOK, WorkerTypeOK, Job
  <2>2. T(w) \in Nat /\ T(w) > 0
      BY <1>0, <2>1, JobType DEF IInv, TypeOK, WorkerInv, Polling
  <2>3. WorkerInv(w)'
      BY <1>0, <1>1, <2>1, <2>2
         DEF Execute, WorkerInv, R, T, Holds, Polling, Staged, ledgerVars, NoBytes
  <2> QED
      BY <1>00, <1>1, <2>1, <2>3, QuietKeeps DEF Execute
<1>2. ASSUME Heartbeat(w) PROVE Kept
  <2>1. /\ pc[w] \in {"execute", "decide"} /\ pc'[w] = pc[w]
        /\ job'[w].run = R(w) /\ job'[w].token = T(w) /\ job'[w].bytes = job[w].bytes
        /\ job'[w].recovered = job[w].recovered /\ job'[w].pending = job[w].pending
        /\ job'[w].kind = job[w].kind
        /\ \A v \in Workers \ {w} : pc'[v] = pc[v] /\ job'[v] = job[v]
      BY <1>2 DEF Heartbeat, At, R, T, IInv, TypeOK, WorkerTypeOK, Job
  <2>2. WorkerInv(w)'
      BY <1>0, <1>2, <2>1
         DEF Heartbeat, WorkerInv, R, T, Holds, Polling, Staged, ledgerVars, NoBytes
  <2> QED
      BY <1>00, <1>2, <2>1, <2>2, QuietKeeps DEF Heartbeat
<1>3. ASSUME Abandon(w) PROVE Kept
    BY <1>00, <1>3, ReturnKeeps DEF Abandon
<1> QED
    BY <1>1, <1>2, <1>3

\* A worker whose statement is refused leaves everything as it is.
LEMMA RefusedKeeps ==
    ASSUME IInv, TypeOK', NEW w \in Workers, Done(w), UNCHANGED <<ledgerVars, sinkVars>>
    PROVE  Kept
<1>1. RowsKept(w) /\ NoneCompletes
    BY NothingKeeps DEF IInv, ledgerVars
<1> QED
    BY <1>1, ReturnKeeps DEF Done

\* The statements executeOne returns after, but CompletePublished.
LEMMA LastStepsKeep ==
    ASSUME IInv, TypeOK', NEW w \in Workers
    PROVE  /\ MarkCanceledStep(w) => Kept
           /\ FailStep(w) => Kept
           /\ FailOutcomeStep(w) => Kept
           /\ ConflictStep(w) => Kept
           /\ RetryStep(w) => Kept
<1> USE DEF At
<1>0. ASSUME pc[w] \in {"cancel", "fail", "failOutcome", "conflict", "retry"}
      PROVE  /\ R(w) \in Runs /\ T(w) \in Nat
             /\ pc[w] # "cancel" => job[w].bytes \in Nat \ {NoBytes}
             /\ WorkerInv(w) /\ RowInv(row[R(w)])
             /\ LedgerTypeOK /\ \A s \in Runs : RowInv(row[s])
    BY <1>0, JobType DEF IInv, TypeOK, WorkerInv, Polling
<1>1. ASSUME MarkCanceledStep(w) PROVE Kept
  <2>1. pc[w] = "cancel" /\ UNCHANGED sinkVars /\ Done(w)
        /\ (MarkCanceled(R(w), w, T(w)) \/ UNCHANGED ledgerVars)
      BY <1>1 DEF MarkCanceledStep, LastStatement
  <2>2. MarkCanceled(R(w), w, T(w)) => RowsKept(w) /\ NoneCompletes
      BY <1>0, <2>1, 1 \in Nat \ {NoBytes}, EndingKeeps DEF NoBytes
  <2> QED
      BY <2>1, <2>2, RefusedKeeps, ReturnKeeps DEF Done
<1>2. ASSUME FailStep(w) PROVE Kept
  <2>1. pc[w] = "fail" /\ UNCHANGED sinkVars /\ Done(w)
        /\ (Fail(R(w), w, T(w)) \/ UNCHANGED ledgerVars)
      BY <1>2 DEF FailStep, LastStatement
  <2>2. Fail(R(w), w, T(w)) => ~row[R(w)].pending
      BY <1>0, <2>1 DEF WorkerInv, RowInv, Fail, FailFence, HoldsLive
  <2>3. Fail(R(w), w, T(w)) => RowsKept(w) /\ NoneCompletes
      BY <1>0, <2>1, <2>2, EndingKeeps
  <2> QED
      BY <2>1, <2>3, RefusedKeeps, ReturnKeeps DEF Done
<1>3. ASSUME FailOutcomeStep(w) PROVE Kept
  <2>1. pc[w] = "failOutcome" /\ UNCHANGED sinkVars /\ Done(w)
        /\ (FailOutcome(R(w), w, T(w), job[w].bytes) \/ UNCHANGED ledgerVars)
      BY <1>3 DEF FailOutcomeStep, LastStatement
  <2>2. FailOutcome(R(w), w, T(w), job[w].bytes) =>
           ~row[R(w)].pending /\ row[R(w)].payload \in {NoBytes, job[w].bytes}
      BY <1>0, <2>1 DEF WorkerInv, FailOutcome, FailOutcomeFence, HoldsLive, Polling
  <2>3. FailOutcome(R(w), w, T(w), job[w].bytes) => RowsKept(w) /\ NoneCompletes
      BY <1>0, <2>1, <2>2, EndingKeeps
  <2> QED
      BY <2>1, <2>3, RefusedKeeps, ReturnKeeps DEF Done
<1>4. ASSUME ConflictStep(w) PROVE Kept
  <2>1. pc[w] = "conflict" /\ UNCHANGED sinkVars /\ Done(w)
        /\ (FailPublicationConflict(R(w), w, T(w)) \/ UNCHANGED ledgerVars)
      BY <1>4 DEF ConflictStep, LastStatement
  <2>2. FailPublicationConflict(R(w), w, T(w)) => RowsKept(w) /\ NoneCompletes
      BY <1>0, <2>1, EndingKeeps
  <2> QED
      BY <2>1, <2>2, RefusedKeeps, ReturnKeeps DEF Done
<1>5. ASSUME RetryStep(w) PROVE Kept
  <2>1. pc[w] = "retry" /\ UNCHANGED sinkVars /\ Done(w)
        /\ (RetryVerification(R(w), w, T(w)) \/ UNCHANGED ledgerVars)
      BY <1>5 DEF RetryStep, LastStatement
  <2>2. RetryVerification(R(w), w, T(w)) => RowsKept(w) /\ NoneCompletes
      BY <1>0, <2>1, PublicationKeeps
  <2> QED
      BY <2>1, <2>2, RefusedKeeps, ReturnKeeps DEF Done
<1> QED
    BY <1>1, <1>2, <1>3, <1>4, <1>5

\* The only step that completes a run finds its bytes in the sink.
LEMMA CompleteKeeps ==
    ASSUME IInv, TypeOK', NEW w \in Workers, CompleteStep(w)
    PROVE  Kept
<1>1. /\ pc[w] = "complete" /\ UNCHANGED sinkVars /\ Done(w)
      /\ CompletePublished(R(w), w, T(w), job[w].bytes) \/ UNCHANGED ledgerVars
    BY DEF CompleteStep, LastStatement, At
<1>2. /\ R(w) \in Runs /\ T(w) \in Nat /\ job[w].bytes \in Nat \ {NoBytes}
      /\ row[R(w)].payload = job[w].bytes /\ sink[R(w)] = job[w].bytes
    BY <1>1, JobType DEF IInv, TypeOK, WorkerInv, Polling, Staged
<1>3. CASE CompletePublished(R(w), w, T(w), job[w].bytes)
  <2>1. /\ RowsKept(w)
        /\ \A s \in Runs : row'[s].status = "completed" =>
               row[s].status = "completed" \/ s = R(w)
      BY <1>2, <1>3, PublicationKeeps DEF IInv, TypeOK
  <2>2. \A r \in Runs : SinkInv(r)'
    <3> SUFFICES ASSUME NEW r \in Runs PROVE SinkInv(r)'
        OBVIOUS
    <3>1. SinkInv(r) /\ Advances(row[r], row'[r], w)
        BY <2>1 DEF IInv, RowsKept
    <3>2. row'[r].status = "completed" => row'[r].payload # NoBytes /\ sink[r] = row'[r].payload
        BY <1>2, <2>1, <3>1 DEF SinkInv, Advances, Terminal
    <3> QED
        BY <1>1, <3>1, <3>2 DEF SinkInv, Advances, sinkVars
  <2>3. /\ pc'[w] = "recover"
        /\ \A v \in Workers \ {w} : pc'[v] = pc[v] /\ job'[v] = job[v]
      BY <1>1 DEF Done, Return, IInv, TypeOK, WorkerTypeOK
  <2>4. WorkerInv(w)'
      BY <2>3 DEF WorkerInv, Polling, Staged
  <2>5. SinkGrows
      BY <1>1 DEF SinkGrows, sinkVars
  <2> QED
      BY <1>1, <2>1, <2>2, <2>3, <2>4, <2>5, StepKeeps DEF sinkVars
<1>4. CASE UNCHANGED ledgerVars
    BY <1>1, <1>4, RefusedKeeps
<1> QED
    BY <1>1, <1>3, <1>4

\* A step that only moves on keeps what the next label needs, if the fact f is
\* among what the worker knows already.
LEMMA MoveKeeps ==
    ASSUME IInv, TypeOK', NEW w \in Workers, NEW label, label # "publish",
           Goto(w, label), UNCHANGED <<ledgerVars, sinkVars>>,
           R(w)' = R(w) /\ T(w)' = T(w) /\ job'[w] = job[w] /\ pc'[w] = label
                => WorkerInv(w)'
    PROVE  Kept
<1>1. RowsKept(w) /\ NoneCompletes
    BY NothingKeeps DEF IInv, ledgerVars
<1>2. R(w)' = R(w) /\ T(w)' = T(w) /\ job'[w] = job[w] /\ pc'[w] = label
    BY DEF Goto, R, T, IInv, TypeOK, WorkerTypeOK
<1> QED
    BY <1>1, <1>2, GotoKeeps

\* The steps that only choose the next statement.
LEMMA MovesKeep ==
    ASSUME IInv, TypeOK', NEW w \in Workers
    PROVE  /\ DecideStep(w) => Kept
           /\ RestageStep(w) => Kept
           /\ StoreStep(w) => Kept
           /\ FenceStep(w) => Kept
           /\ ReadbackStep(w) => Kept
           /\ VerifyStep(w) => Kept
<1> USE DEF At
<1>0. WorkerInv(w)
    BY DEF IInv
<1> DEFINE still == R(w)' = R(w) /\ T(w)' = T(w) /\ job'[w] = job[w]
                    /\ UNCHANGED <<row, sink, merges>>
<1>1. ASSUME DecideStep(w) PROVE Kept
  <2>1. pc[w] = "decide" /\ UNCHANGED <<ledgerVars, sinkVars>>
        /\ (Done(w) \/ Goto(w, NextStatement(job[w])))
      BY <1>1 DEF DecideStep
  <2>0. RowInv(row[R(w)])
      BY <2>1, JobType DEF IInv, TypeOK, Polling
  <2>2. ASSUME still, pc'[w] = NextStatement(job[w]) PROVE WorkerInv(w)'
    <3>1. CASE job[w].recovered
        BY <1>0, <2>1, <2>2, <3>1 DEF WorkerInv, NextStatement, Holds, Polling, Staged
    <3>2. CASE ~job[w].recovered
      <4>1. /\ T(w) > 0 /\ job[w].bytes # NoBytes /\ ~job[w].pending
            /\ Holds(R(w), w, T(w)) => row[R(w)].pending = job[w].pending
            /\ Holds(R(w), w, T(w)) => row[R(w)].response = NoBytes
          BY <1>0, <2>1, <3>2 DEF WorkerInv, Polling
      <4>2. Holds(R(w), w, T(w)) => row[R(w)].payload = NoBytes
          BY <2>0, <4>1 DEF RowInv
      <4>3. pc'[w] \in {"cancel", "fail", "failOutcome", "stage"}
          BY <2>2, <3>2 DEF NextStatement
      <4> QED
          BY <2>2, <4>1, <4>2, <4>3 DEF WorkerInv, Holds, Polling, Staged
    <3> QED
        BY <3>1, <3>2
  <2>3. NextStatement(job[w]) # "publish"
      BY DEF NextStatement
  <2> QED
      BY <2>1, <2>2, <2>3, MoveKeeps, RefusedKeeps DEF ledgerVars, sinkVars
<1>2. ASSUME RestageStep(w) PROVE Kept
  <2>1. pc[w] = "restage" /\ UNCHANGED <<ledgerVars, sinkVars>>
        /\ (Done(w) \/ Goto(w, "cancel"))
      BY <1>2 DEF RestageStep
  <2>2. ASSUME still, pc'[w] = "cancel" PROVE WorkerInv(w)'
      BY <1>0, <2>1, <2>2 DEF WorkerInv, Holds, Polling, Staged
  <2> QED
      BY <2>1, <2>2, MoveKeeps, RefusedKeeps DEF ledgerVars, sinkVars
<1>3. ASSUME StoreStep(w) PROVE Kept
  <2>1. PICK label \in {"retry", "failOutcome", "verify", "fence"} :
           /\ pc[w] = "store" /\ UNCHANGED <<ledgerVars, sinkVars>>
           /\ Goto(w, label) /\ (label = "failOutcome" => ~job[w].pending)
      BY <1>3 DEF StoreStep
  <2>2. ASSUME still, pc'[w] = label PROVE WorkerInv(w)'
      BY <1>0, <2>1, <2>2 DEF WorkerInv, Holds, Polling, Staged
  <2> QED
      BY <2>1, <2>2, MoveKeeps DEF ledgerVars, sinkVars
<1>4. ASSUME FenceStep(w) PROVE Kept
  <2>1. pc[w] = "fence" /\ UNCHANGED <<ledgerVars, sinkVars>>
        /\ (Done(w) \/ \E label \in {"cancel", "mark"} : Goto(w, label))
      BY <1>4 DEF FenceStep
  <2>2. ASSUME NEW label \in {"cancel", "mark"}, still, pc'[w] = label PROVE WorkerInv(w)'
      BY <1>0, <2>1, <2>2 DEF WorkerInv, Holds, Polling, Staged
  <2> QED
      BY <2>1, <2>2, MoveKeeps, RefusedKeeps DEF ledgerVars, sinkVars
<1>5. ASSUME ReadbackStep(w) PROVE Kept
  <2>1. PICK label \in {"complete", "verify"} :
           /\ pc[w] = "readback" /\ UNCHANGED <<ledgerVars, sinkVars>> /\ Goto(w, label)
           /\ label = "complete" => sink[R(w)] = job[w].bytes
      BY <1>5 DEF ReadbackStep, Verified
  <2>2. ASSUME still, pc'[w] = label PROVE WorkerInv(w)'
      BY <1>0, <2>1, <2>2 DEF WorkerInv, Holds, Polling, Staged
  <2> QED
      BY <2>1, <2>2, MoveKeeps DEF ledgerVars, sinkVars
<1>6. ASSUME VerifyStep(w) PROVE Kept
  <2>1. PICK label \in {"complete", "conflict", "retry"} :
           /\ pc[w] = "verify" /\ UNCHANGED <<ledgerVars, sinkVars>> /\ Goto(w, label)
           /\ label = "complete" => sink[R(w)] = job[w].bytes
      BY <1>6 DEF VerifyStep, Verified
  <2>2. ASSUME still, pc'[w] = label PROVE WorkerInv(w)'
      BY <1>0, <2>1, <2>2 DEF WorkerInv, Holds, Polling, Staged
  <2> QED
      BY <2>1, <2>2, MoveKeeps DEF ledgerVars, sinkVars
<1> QED
    BY <1>1, <1>2, <1>3, <1>4, <1>5, <1>6

\* Staging turns the bytes of the worker into the bytes of the run.
LEMMA StageKeeps ==
    ASSUME IInv, TypeOK', NEW w \in Workers, StageStep(w)
    PROVE  Kept
<1>1. pc[w] = "stage" /\ UNCHANGED sinkVars /\ WorkerInv(w)
    BY DEF StageStep, At, IInv
<1>2. R(w) \in Runs /\ T(w) \in Nat /\ job[w].bytes \in Nat \ {NoBytes}
      /\ job[w].ref \in BOOLEAN
    BY <1>1, JobType DEF IInv, TypeOK, WorkerInv, Polling
<1>3. CASE StageOutcome(R(w), w, T(w), job[w].bytes, job[w].ref) /\ Goto(w, "store")
  <2>1. RowsKept(w) /\ NoneCompletes
      BY <1>2, <1>3, StagingKeeps DEF IInv, TypeOK
  <2>2. R(w)' = R(w) /\ T(w)' = T(w) /\ job'[w] = job[w] /\ pc'[w] = "store"
      BY <1>3 DEF Goto, R, T, IInv, TypeOK, WorkerTypeOK
  <2>3. row'[R(w)].payload = job[w].bytes /\ row'[R(w)].pending = row[R(w)].pending
      BY <1>2, <1>3 DEF StageOutcome, Update, IInv, TypeOK, LedgerTypeOK, Row
  <2>4. Holds(R(w), w, T(w))
      BY <1>3 DEF StageOutcome, StageFence, HoldsLive
  <2>5. WorkerInv(w)'
      BY <1>1, <1>2, <2>2, <2>3, <2>4 DEF WorkerInv, Polling, Staged
  <2> QED
      BY <1>1, <1>3, <2>1, <2>5, GotoKeeps
<1>4. CASE Goto(w, "restage") /\ UNCHANGED ledgerVars
  <2>1. ASSUME R(w)' = R(w), T(w)' = T(w), job'[w] = job[w], pc'[w] = "restage"
        PROVE  WorkerInv(w)'
      BY <1>1, <1>4, <2>1 DEF WorkerInv, Holds, Polling, Staged, ledgerVars
  <2> QED
      BY <1>1, <1>4, <2>1, MoveKeeps
<1> QED
    BY <1>3, <1>4 DEF StageStep

\* The worker that passes the publication cutoff is the only one that may
\* publish, and nobody published before it.
LEMMA MarkPendingKeeps ==
    ASSUME IInv, TypeOK', NEW w \in Workers, MarkPendingStep(w)
    PROVE  Kept
<1>1. pc[w] = "mark" /\ UNCHANGED sinkVars /\ WorkerInv(w)
    BY DEF MarkPendingStep, At, IInv
<1>2. /\ R(w) \in Runs /\ T(w) \in Nat /\ job[w].bytes \in Nat \ {NoBytes}
      /\ row[R(w)].payload = job[w].bytes
      /\ RowInv(row[R(w)]) /\ SinkInv(R(w))
      /\ row[R(w)] \in Row /\ merges[R(w)] \in Nat
    BY <1>1, JobType
       DEF IInv, TypeOK, WorkerInv, Polling, Staged, LedgerTypeOK, SinkTypeOK
<1>3. CASE /\ MarkPublicationPending(R(w), w, T(w))
           /\ pc' = [pc EXCEPT ![w] = "publish"]
           /\ job' = [job EXCEPT ![w].pending = TRUE]
  <2>1. RowsKept(w) /\ NoneCompletes
      BY <1>2, <1>3, 1 \in Nat \ {NoBytes}, TRUE \in BOOLEAN, StagingKeeps
         DEF IInv, TypeOK, RowInv, NoBytes
  <2>2. ~Passed(row[R(w)]) /\ merges[R(w)] = 0
      BY <1>2, <1>3
         DEF MarkPublicationPending, PendingFence, HoldsLive, Holds, Passed, SinkInv
  <2>3. /\ pc'[w] = "publish" /\ R(w)' = R(w) /\ T(w)' = T(w)
        /\ job'[w].bytes = job[w].bytes /\ job'[w].pending
        /\ \A v \in Workers \ {w} : pc'[v] = pc[v] /\ job'[v] = job[v]
      BY <1>3 DEF R, T, IInv, TypeOK, WorkerTypeOK, Job
  <2>4. row'[R(w)].payload = row[R(w)].payload /\ row'[R(w)].pending
      BY <1>2, <1>3 DEF MarkPublicationPending, Update, IInv, TypeOK, LedgerTypeOK, Row
  <2>5. WorkerInv(w)'
      BY <1>1, <1>2, <2>2, <2>3, <2>4
         DEF WorkerInv, Polling, Staged, Passed, sinkVars
  <2>6. \A v \in Workers : pc[v] = "publish" => R(v) # job'[w].run
      BY <2>2, <2>3 DEF IInv, WorkerInv, R
  <2>7. (\A r \in Runs : SinkInv(r)') /\ SinkGrows
      BY <1>1, <2>1, SinkKeeps DEF IInv, SinkGrows, sinkVars
  <2> QED
      BY <1>1, <2>1, <2>3, <2>5, <2>6, <2>7, StepKeeps DEF sinkVars
<1>4. CASE Done(w) /\ UNCHANGED ledgerVars
    BY <1>1, <1>4, RefusedKeeps
<1> QED
    BY <1>3, <1>4 DEF MarkPendingStep

\* The one MERGE: a worker is at it only while none was issued.
LEMMA PublishKeeps ==
    ASSUME IInv, TypeOK', NEW w \in Workers, PublishStep(w)
    PROVE  Kept
<1>1. /\ pc[w] = "publish" /\ UNCHANGED ledgerVars /\ WorkerInv(w)
      /\ RowsKept(w) /\ NoneCompletes
    BY NothingKeeps DEF PublishStep, At, IInv, ledgerVars
<1>2. /\ R(w) \in Runs /\ job[w].bytes \in Nat \ {NoBytes}
      /\ Passed(row[R(w)]) /\ merges[R(w)] = 0
    BY <1>1, JobType DEF IInv, TypeOK, WorkerInv, Polling
<1>3. ASSUME NEW label \in {"readback", "verify", "retry"}, Goto(w, label)
      PROVE  /\ pc'[w] = label /\ WorkerInv(w)'
             /\ \A v \in Workers \ {w} : pc'[v] = pc[v] /\ job'[v] = job[v]
  <2>1. /\ pc'[w] = label /\ R(w)' = R(w) /\ T(w)' = T(w) /\ job'[w] = job[w]
        /\ \A v \in Workers \ {w} : pc'[v] = pc[v] /\ job'[v] = job[v]
      BY <1>3 DEF Goto, R, T, IInv, TypeOK, WorkerTypeOK
  <2> QED
      BY <1>1, <2>1 DEF WorkerInv, Holds, Polling, Staged, ledgerVars
<1>4. CASE /\ MergeCommits(R(w), job[w].bytes) \/ MergeFails(R(w), job[w].bytes)
           /\ Goto(w, "readback") \/ Goto(w, "verify")
  <2>1. /\ merges' = [merges EXCEPT ![R(w)] = 1]
        /\ \A r \in Runs : /\ r # R(w) => sink'[r] = sink[r] /\ orphan'[r] = orphan[r]
                           /\ sink[r] # NoRow => sink'[r] = sink[r]
      BY <1>2, <1>4 DEF MergeCommits, MergeFails, Issued, Inserted, IInv, TypeOK, SinkTypeOK
  <2>2. SinkGrows
      BY <2>1 DEF SinkGrows
  <2>3. ASSUME NEW r \in Runs PROVE SinkInv(r)'
    <3>1. SinkInv(r) /\ row' = row /\ merges[r] \in Nat
        BY <1>1 DEF IInv, ledgerVars, TypeOK, SinkTypeOK
    <3>2. row[r].status = "completed" => sink'[r] = sink[r]
        BY <2>1, <3>1 DEF SinkInv, NoRow, NoBytes
    <3>3. CASE r = R(w)
        BY <1>2, <2>1, <3>1, <3>2, <3>3 DEF SinkInv, IInv, TypeOK, SinkTypeOK
    <3>4. CASE r # R(w)
        BY <2>1, <3>1, <3>4 DEF SinkInv, IInv, TypeOK, SinkTypeOK
    <3> QED
        BY <3>3, <3>4
  <2>4. \A v \in Workers \ {w} : pc[v] = "publish" => merges'[R(v)] = merges[R(v)]
      BY <1>1, <2>1 DEF IInv, OnePublisher, At, TypeOK, SinkTypeOK
  <2> QED
      BY <1>1, <1>3, <1>4, <2>2, <2>3, <2>4, StepKeeps
<1>5. CASE Goto(w, "retry") /\ UNCHANGED sinkVars
    BY <1>1, <1>3, <1>5, QuietKeeps
<1> QED
    BY <1>4, <1>5 DEF PublishStep

\* Clocks, clients and the warehouse.
LEMMA EnvironmentKeeps ==
    ASSUME IInv, TypeOK', NEW r \in Runs
    PROVE  /\ LeaseExpires(r) => Kept
           /\ RetryElapses(r) => Kept
           /\ Submit(r) => Kept
           /\ Cancel(r) => Kept
           /\ Warehouse(r) => Kept
<1>1. ASSUME RowsKept(NoWorker), SinkGrows, UNCHANGED <<merges, pc, job>>,
             \A s \in Runs : SinkInv(s)'
      PROVE  Kept
    BY <1>1, StepKeeps
<1>2. ASSUME RowsKept(NoWorker), NoneCompletes, UNCHANGED <<sinkVars, pc, job>>
      PROVE  Kept
  <2>1. (\A s \in Runs : SinkInv(s)') /\ SinkGrows
      BY <1>2, SinkKeeps DEF IInv, SinkGrows, sinkVars
  <2> QED
      BY <1>1, <1>2, <2>1 DEF sinkVars
<1> USE DEF workerVars
<1>3. ASSUME LeaseExpires(r) PROVE Kept
    BY <1>2, <1>3, ClockKeeps DEF IInv, TypeOK, LeaseExpires
<1>4. ASSUME RetryElapses(r) PROVE Kept
    BY <1>2, <1>4, ClockKeeps DEF IInv, TypeOK, RetryElapses
<1>5. ASSUME Submit(r) PROVE Kept
    BY <1>2, <1>5, ClientKeeps DEF IInv, TypeOK, Submit
<1>6. ASSUME Cancel(r) PROVE Kept
    BY <1>2, <1>6, ClientKeeps DEF IInv, TypeOK, Cancel
<1>7. ASSUME Warehouse(r) PROVE Kept
  <2>1. /\ UNCHANGED <<row, merges, pc, job>>
        /\ OrphanLands(r) \/ OrphanDropped(r) \/ ForeignWrite(r)
      BY <1>7 DEF Warehouse, OrphanLands, OrphanDropped, ForeignWrite, ledgerVars
  <2>2. \A s \in Runs : /\ sink[s] # NoRow => sink'[s] = sink[s]
                        /\ orphan[s] = {} => orphan'[s] = {}
                        /\ orphan[s] = {} => sink'[s] \in {sink[s], Foreign}
      BY <2>1 DEF OrphanLands, OrphanDropped, ForeignWrite, Inserted, IInv, TypeOK, SinkTypeOK
  <2>3. ASSUME NEW s \in Runs PROVE SinkInv(s)'
      BY <2>1, <2>2 DEF IInv, SinkInv, NoRow, NoBytes
  <2>4. RowsKept(NoWorker) /\ SinkGrows
      BY <2>1, <2>2, NothingKeeps DEF IInv, SinkGrows
  <2> QED
      BY <1>1, <2>1, <2>3, <2>4
<1> QED
    BY <1>3, <1>4, <1>5, <1>6, <1>7

\* A replica starts.
LEMMA StartKeeps == ASSUME IInv, TypeOK', ProcessStarts PROVE Kept
<1>1. RowsKept(NoWorker) /\ NoneCompletes
    BY BackfillKeeps DEF IInv, TypeOK, ProcessStarts
<1>2. SinkGrows /\ \A r \in Runs : SinkInv(r)'
    BY <1>1, SinkKeeps DEF IInv, ProcessStarts, SinkGrows, sinkVars
<1> QED
    BY <1>1, <1>2, StepKeeps DEF ProcessStarts, sinkVars, workerVars

-----------------------------------------------------------------------------

\* Nothing is submitted, stored or leased at first.
LEMMA InitIInv == Init => IInv
<1> SUFFICES ASSUME Init PROVE IInv
    OBVIOUS
<1>1. TypeOK
    BY InitTypeOK
<1>2. \A r \in Runs : row[r] = AbsentRow
    BY DEF Init, LedgerInit
<1>0. /\ AbsentRow.status = "absent" /\ AbsentRow.attempt = 0
      /\ ~AbsentRow.cancel /\ ~AbsentRow.pending /\ AbsentRow.retryDue
      /\ AbsentRow.response = NoBytes /\ AbsentRow.payload = NoBytes
    BY DEF AbsentRow
<1>3. \A r \in Runs : RowInv(row[r])
    BY <1>0, <1>2 DEF RowInv, Unfinished
<1>4. \A r \in Runs : SinkInv(r)
  <2> SUFFICES ASSUME NEW r \in Runs PROVE SinkInv(r)
      OBVIOUS
  <2>1. merges[r] = 0 /\ orphan[r] = {} /\ sink[r] = NoRow /\ row[r].status # "completed"
      BY <1>0, <1>2 DEF Init, SinkInit
  <2>2. merges[r] <= 1 /\ ~(merges[r] > 0)
      BY <2>1
  <2> QED
      BY <2>1, <2>2 DEF SinkInv
<1>5. (\A w \in Workers : WorkerInv(w)) /\ OnePublisher
    BY DEF Init, WorkerInv, OnePublisher, Polling, Staged, At
<1> QED
    BY <1>1, <1>3, <1>4, <1>5 DEF IInv

\* Every step keeps the inductive invariant and lets every row advance.
LEMMA NextKeeps ==
    ASSUME IInv, [Next]_vars
    PROVE  Kept
<1>0. TypeOK'
    BY NextTypeOK DEF IInv
<1>1. ASSUME NEW w \in Workers, WorkerStep(w) PROVE Kept
    BY <1>0, <1>1, PollingKeep, LeaseNextKeeps, LastStepsKeep, CompleteKeeps, MovesKeep,
       StageKeeps, MarkPendingKeeps, PublishKeeps DEF WorkerStep
<1>2. ASSUME NEW w \in Workers, Execute(w) \/ Heartbeat(w) \/ Abandon(w) PROVE Kept
    BY <1>0, <1>2, ExecutorKeeps
<1>3. ASSUME NEW r \in Runs,
             \/ LeaseExpires(r) \/ RetryElapses(r) \/ Submit(r)
             \/ Cancel(r) \/ Warehouse(r)
      PROVE  Kept
    BY <1>0, <1>3, EnvironmentKeeps
<1>4. ASSUME UNCHANGED vars PROVE Kept
  <2>1. RowsKept(NoWorker)
      BY <1>4, NothingKeeps DEF IInv, vars
  <2>2. SinkGrows /\ \A r \in Runs : SinkInv(r)'
      BY <1>4 DEF IInv, SinkInv, SinkGrows, vars
  <2> QED
      BY <1>0, <1>4, <2>1, <2>2, StepKeeps DEF vars
<1>5. ASSUME ProcessStarts PROVE Kept
    BY <1>0, <1>5, StartKeeps
<1> QED
    BY <1>1, <1>2, <1>3, <1>4, <1>5 DEF Next

\* The inductive invariant holds in every reachable state.
THEOREM Inductive == Spec => []IInv
<1>1. IInv /\ [Next]_vars => IInv'
    BY NextKeeps DEF Kept
<1> QED
    BY InitIInv, <1>1, PTL DEF Spec

\* A completed run is served with exactly the bytes the sink stores for it
\* (worker.go:285-293, databricks.go:133-174).
THEOREM CompletedIsPublishedHolds == Spec => []CompletedIsPublished
<1>1. IInv => CompletedIsPublished
    BY DEF IInv, SinkInv, CompletedIsPublished
<1> QED
    BY Inductive, <1>1, PTL

\* A canceled run was never offered to the sink (worker.go:236-259,
\* lifecycle_store.go:513-554).
THEOREM CanceledNeverPublishedHolds == Spec => []CanceledNeverPublished
<1>1. IInv => CanceledNeverPublished
  <2> SUFFICES ASSUME IInv, NEW r \in Runs, row[r].status = "canceled"
               PROVE  merges[r] = 0 /\ orphan[r] = {} /\ sink[r] \in {NoRow, Foreign}
      BY DEF CanceledNeverPublished
  <2>1. RowInv(row[r]) /\ SinkInv(r) /\ merges[r] \in Nat
      BY DEF IInv, TypeOK, SinkTypeOK
  <2>2. ~Passed(row[r])
      BY <2>1 DEF RowInv, Passed, Unfinished
  <2> QED
      BY <2>1, <2>2 DEF SinkInv
<1> QED
    BY Inductive, <1>1, PTL

\* Publication is attempted at most once for a run, by one worker
\* (worker.go:239, 260-284).
THEOREM AtMostOneMergeHolds == Spec => []AtMostOneMerge
<1>1. IInv => AtMostOneMerge
    BY DEF IInv, SinkInv, AtMostOneMerge
<1> QED
    BY Inductive, <1>1, PTL

\* Whoever still works on a run past its cutoff works on the staged bytes
\* (worker.go:148-165, 236-284).
THEOREM PublishersAgreeHolds == Spec => []PublishersAgree
<1>1. IInv => PublishersAgree
    BY DEF IInv, WorkerInv, PublishersAgree, Staged, R
<1> QED
    BY Inductive, <1>1, PTL

\* The executor runs at most MaxAttempts times, and never beside a staged
\* result (lifecycle_store.go:342-378).
THEOREM ExecutionBudgetHolds == Spec => []ExecutionBudget
<1>1. IInv => ExecutionBudget
    BY DEF IInv, WorkerInv, ExecutionBudget, At
<1> QED
    BY Inductive, <1>1, PTL

\* A replica that starts never meets a row its migration must refuse
\* (lifecycle_store.go:145-205).
THEOREM StartNeverRefusedHolds == Spec => []StartNeverRefused
<1>1. IInv => StartNeverRefused
    BY DEF IInv, RowInv, SinkInv, StartNeverRefused, StartRefused, LacksPayload, Unfinished
<1> QED
    BY Inductive, <1>1, PTL

\* Each run nobody works on is recovered by exactly one of the three polling
\* statements (lifecycle_store.go:342-378, 492-511).
THEOREM ExactlyOneRecoveryHolds == Spec => []ExactlyOneRecovery
<1>1. IInv => ExactlyOneRecovery
  <2> SUFFICES ASSUME IInv, NEW r \in Runs,
                      row[r].status \in Unfinished,
                      row[r].status = "running" => ~row[r].leaseLive,
                      row[r].retryDue
               PROVE  LET recoveries == {s \in {"lease", "exhaust", "cancel"} :
                                 \/ s = "lease"   /\ Leasable(r)
                                 \/ s = "exhaust" /\ Exhausted(r)
                                 \/ s = "cancel"  /\ CancelRecoverable(r)}
                      IN  \E s \in recoveries : recoveries = {s}
      BY DEF ExactlyOneRecovery
  <2> DEFINE recoveries == {s \in {"lease", "exhaust", "cancel"} :
                                 \/ s = "lease"   /\ Leasable(r)
                                 \/ s = "exhaust" /\ Exhausted(r)
                                 \/ s = "cancel"  /\ CancelRecoverable(r)}
  <2>0. RowInv(row[r]) /\ row[r].attempt \in Nat
      BY DEF IInv, TypeOK, LedgerTypeOK, Row
  <2>1. CASE CancelRecoverable(r)
    <3>1. ~Leasable(r) /\ ~Exhausted(r)
        BY <2>1 DEF CancelRecoverable, Leasable, Exhausted
    <3>2. recoveries = {"cancel"}
        BY <2>1, <3>1
    <3> QED
        BY <3>2
  <2>2. CASE Exhausted(r)
    <3>1. ~Leasable(r) /\ ~CancelRecoverable(r)
        BY <2>0, <2>2 DEF CancelRecoverable, Leasable, Exhausted
    <3>2. recoveries = {"exhaust"}
        BY <2>2, <3>1
    <3> QED
        BY <3>2
  <2>3. CASE ~CancelRecoverable(r) /\ ~Exhausted(r)
    <3>1. Leasable(r)
        BY <2>0, <2>3 DEF CancelRecoverable, Leasable, Exhausted, RowInv, Unfinished
    <3>2. recoveries = {"lease"}
        BY <2>3, <3>1
    <3> QED
        BY <3>2
  <2> QED
      BY <2>1, <2>2, <2>3
<1> QED
    BY Inductive, <1>1, PTL

\* What a step may never do to a row, for the action properties below.
LEMMA StepsAdvance ==
    ASSUME IInv, [Next]_vars
    PROVE  \E a : \A r \in Runs : Advances(row[r], row'[r], a)
BY NextKeeps DEF Kept, RowsKept

\* An ended run never changes again (README.md:121-124).
THEOREM TerminalIsFinalHolds == Spec => TerminalIsFinal
<1>1. IInv /\ [Next]_vars =>
         [\A r \in Runs : row[r].status \in Terminal =>
             row'[r] \in {row[r], [row[r] EXCEPT !.payload = row[r].response]}]_vars
    BY StepsAdvance DEF Advances
<1> QED
    BY Inductive, <1>1, PTL DEF Spec, TerminalIsFinal

\* Staged bytes never change (lifecycle_store.go:405-451).
THEOREM StagedBytesFixedHolds == Spec => StagedBytesFixed
<1>1. IInv /\ [Next]_vars =>
         [\A r \in Runs : row[r].payload # NoBytes =>
             row'[r].payload = row[r].payload /\ row'[r].response = row[r].response]_vars
    BY StepsAdvance DEF Advances
<1> QED
    BY Inductive, <1>1, PTL DEF Spec, StagedBytesFixed

\* No cancel wins against a publication that began (lifecycle_store.go:503-554).
THEOREM CutoffIsFinalHolds == Spec => CutoffIsFinal
<1>1. IInv /\ [Next]_vars =>
         [\A r \in Runs : row[r].pending => row'[r].status # "canceled"]_vars
    BY StepsAdvance DEF Advances
<1> QED
    BY Inductive, <1>1, PTL DEF Spec, CutoffIsFinal

-----------------------------------------------------------------------------
(* Ledger, workers and sink implement the contract of RunContract: initial   *)
(* states map to its initial state, and every step maps, run by run, to a    *)
(* step of the contract or to no step at all.                                *)

\* A run as the contract sees it, from its row o and what the sink holds.
View(o, stored) ==
    [status |-> o.status, result |-> o.response, cutoff |-> o.pending, stored |-> stored]

Views == [status: Status, result: Nat, cutoff: BOOLEAN, stored: Nat \union {Foreign}]

\* A step of the contract for the run r, or none.
Allowed(r, o, stored, n, kept) ==
    \/ View(n, kept) = View(o, stored)
    \/ Contract!Step(r, View(o, stored), View(n, kept))

\* Every run takes a step of the contract, or none.
StepsAllowed == \A r \in Runs : Allowed(r, row[r], sink[r], row'[r], sink'[r])

\* MERGEs that are still on their way carry the staged bytes.
OrphansAreStaged == \A r \in Runs : orphan[r] \subseteq {row[r].payload} \ {NoBytes}

\* The fields of a view.
LEMMA ViewFields ==
    ASSUME NEW o \in Row, NEW stored \in Nat \union {Foreign}
    PROVE  LET v == View(o, stored) IN
           /\ v \in Views
           /\ v.status = o.status /\ v.result = o.response /\ v.cutoff = o.pending
           /\ v.stored = stored
BY DEF View, Views, Row

\* The same for a row o of the ledger that becomes n, while the sink keeps what
\* it has for the run: which changes of the columns are steps of the contract.
Lawful(o, stored, n) ==
    \/ o.status = "absent" /\ n.status = "queued"
          /\ n.response = o.response /\ n.pending = o.pending
    \/ o.status = "queued" /\ n.status = "running"
          /\ n.response = o.response /\ n.pending = o.pending
    \/ o.status = "running" /\ n.status = "running" /\ o.response = 0 /\ n.response # 0
          /\ n.pending = o.pending
    \/ o.status = "running" /\ n.status = "running" /\ o.response # 0
          /\ n.response = o.response /\ ~o.pending /\ n.pending
    \/ o.status = "running" /\ o.pending /\ n.status = "queued"
          /\ n.response = o.response /\ n.pending
    \/ o.status = "running" /\ o.pending /\ o.response # 0 /\ stored = o.response
          /\ n.status = "completed" /\ n.response = o.response /\ ~n.pending
    \/ o.status = "running" /\ n.status = "failed" /\ ~n.pending
          /\ (n.response = o.response \/ o.response = 0)
    \/ o.status \in {"queued", "running"} /\ ~o.pending /\ n.status = "canceled"
          /\ n.response = o.response /\ ~n.pending

\* Two rows the contract cannot tell apart.
Alike(o, n) == n.status = o.status /\ n.response = o.response /\ n.pending = o.pending

LEMMA AlikeIsAllowed ==
    ASSUME NEW r, NEW o, NEW n, NEW stored, Alike(o, n)
    PROVE  Allowed(r, o, stored, n, stored)
BY DEF Alike, Allowed, View

LEMMA LawfulIsAllowed ==
    ASSUME NEW r \in Runs, NEW o \in Row, NEW n \in Row,
           NEW stored \in Nat \union {Foreign}, Lawful(o, stored, n)
    PROVE  Allowed(r, o, stored, n, stored)
<1> DEFINE v == View(o, stored)
           u == View(n, stored)
<1>1. /\ v \in Views /\ v.status = o.status /\ v.result = o.response
      /\ v.cutoff = o.pending /\ v.stored = stored
    BY ViewFields
<1>2. /\ u \in Views /\ u.status = n.status /\ u.result = n.response
      /\ u.cutoff = n.pending /\ u.stored = stored
    BY ViewFields
<1>3. Contract!Step(r, v, u) => Allowed(r, o, stored, n, stored)
    BY DEF Allowed
<1>4. o.pending \in BOOLEAN /\ n.pending \in BOOLEAN
    BY DEF Row
<1> HIDE DEF v, u
<1>5. ASSUME o.status = "absent", n.status = "queued", n.response = o.response, n.pending = o.pending
      PROVE  Contract!Step(r, v, u)
  <2>1. u = [v EXCEPT !.status = "queued"]
      BY <1>1, <1>2, <1>4, <1>5 DEF Views
  <2> QED
      BY <1>1, <1>2, <1>5, <2>1 DEF Views, Contract!Step, Contract!Accept, Contract!None
<1>6. ASSUME o.status = "queued", n.status = "running", n.response = o.response, n.pending = o.pending
      PROVE  Contract!Step(r, v, u)
  <2>1. u = [v EXCEPT !.status = "running"]
      BY <1>1, <1>2, <1>4, <1>6 DEF Views
  <2> QED
      BY <1>1, <1>2, <1>6, <2>1 DEF Views, Contract!Step, Contract!Start, Contract!None
<1>7. ASSUME o.status = "running", n.status = "running", o.response = 0, n.response # 0, n.pending = o.pending
      PROVE  Contract!Step(r, v, u)
  <2>1. u = [v EXCEPT !.result = u.result]
      BY <1>1, <1>2, <1>4, <1>7 DEF Views
  <2> QED
      BY <1>1, <1>2, <1>7, <2>1 DEF Views, Contract!Step, Contract!Settle, Contract!None
<1>8. ASSUME o.status = "running", n.status = "running", o.response # 0, n.response = o.response, ~o.pending, n.pending
      PROVE  Contract!Step(r, v, u)
  <2>1. u = [v EXCEPT !.cutoff = TRUE]
      BY <1>1, <1>2, <1>4, <1>8 DEF Views
  <2> QED
      BY <1>1, <1>2, <1>8, <2>1 DEF Views, Contract!Step, Contract!BeginPublication, Contract!None
<1>9. ASSUME o.status = "running", o.pending, n.status = "queued", n.response = o.response, n.pending
      PROVE  Contract!Step(r, v, u)
  <2>1. u = [v EXCEPT !.status = "queued"]
      BY <1>1, <1>2, <1>4, <1>9 DEF Views
  <2> QED
      BY <1>1, <1>2, <1>9, <2>1 DEF Views, Contract!Step, Contract!Requeue, Contract!None
<1>10. ASSUME o.status = "running", o.pending, o.response # 0, stored = o.response,
             n.status = "completed", n.response = o.response, ~n.pending
      PROVE  Contract!Step(r, v, u)
  <2>1. u = [v EXCEPT !.status = "completed", !.cutoff = FALSE]
      BY <1>1, <1>2, <1>4, <1>10 DEF Views
  <2> QED
      BY <1>1, <1>2, <1>10, <2>1 DEF Views, Contract!Step, Contract!Complete, Contract!None
<1>11. ASSUME o.status = "running", n.status = "failed", ~n.pending, n.response = o.response \/ o.response = 0
      PROVE  Contract!Step(r, v, u)
  <2>1. u = [v EXCEPT !.status = "failed", !.cutoff = FALSE, !.result = u.result]
      BY <1>1, <1>2, <1>4, <1>11 DEF Views
  <2> QED
      BY <1>1, <1>2, <1>11, <2>1 DEF Views, Contract!Step, Contract!FailRun, Contract!None
<1>12. ASSUME o.status \in {"queued", "running"}, ~o.pending, n.status = "canceled",
             n.response = o.response, ~n.pending
      PROVE  Contract!Step(r, v, u)
  <2>1. u = [v EXCEPT !.status = "canceled"]
      BY <1>1, <1>2, <1>4, <1>12 DEF Views
  <2> QED
      BY <1>1, <1>2, <1>12, <2>1 DEF Views, Contract!Step, Contract!CancelRun, Contract!None
<1> QED
    BY <1>3, <1>5, <1>6, <1>7, <1>8, <1>9, <1>10, <1>11, <1>12 DEF Lawful

\* What the sink gets is the result of a run past its cutoff, or the row of
\* another writer.
LEMMA StoringIsAllowed ==
    ASSUME NEW r \in Runs, NEW o \in Row, NEW n \in Row, Alike(o, n),
           NEW kept \in Nat \union {Foreign},
           \/ (o.pending \/ o.status = "failed") /\ o.response # 0 /\ kept = o.response
           \/ r \in ForeignRuns /\ kept = Foreign
    PROVE  Allowed(r, o, 0, n, kept)
<1> DEFINE v == View(o, 0)
           u == View(n, kept)
<1>1. /\ v \in Views /\ v.status = o.status /\ v.result = o.response
      /\ v.cutoff = o.pending /\ v.stored = 0
    BY ViewFields
<1>2. /\ u \in Views /\ u.status = o.status /\ u.result = o.response
      /\ u.cutoff = o.pending /\ u.stored = kept
    BY ViewFields DEF Alike
<1>3. Contract!Step(r, v, u) => Allowed(r, o, 0, n, kept)
    BY DEF Allowed
<1> HIDE DEF v, u
<1>4. u = [v EXCEPT !.stored = kept]
    BY <1>1, <1>2 DEF Views
<1>5. Contract!Step(r, v, u)
    BY <1>1, <1>4
       DEF Views, Contract!Step, Contract!Store, Contract!Usurp, Contract!None
<1> QED
    BY <1>3, <1>5

-----------------------------------------------------------------------------
(* The statements, run by run.  Only the warehouse and a committed MERGE     *)
(* change what the sink holds, and they change no row.                       *)

LEMMA RowsAllowed ==
    ASSUME TypeOK, TypeOK', UNCHANGED sink,
           \A r \in Runs : \/ Alike(row[r], row'[r])
                           \/ Lawful(row[r], sink[r], row'[r])
    PROVE  StepsAllowed
<1> SUFFICES ASSUME NEW r \in Runs
             PROVE  Allowed(r, row[r], sink[r], row'[r], sink'[r])
    BY DEF StepsAllowed
<1>1. row[r] \in Row /\ row'[r] \in Row /\ sink[r] \in Nat \union {Foreign} /\ sink'[r] = sink[r]
    BY DEF TypeOK, LedgerTypeOK, SinkTypeOK
<1> QED
    BY <1>1, AlikeIsAllowed, LawfulIsAllowed

\* It is enough to look at the one row a statement updates.
LEMMA RowAllowed ==
    ASSUME TypeOK, TypeOK', UNCHANGED sink, NEW r \in Runs, NEW n,
           row' = [row EXCEPT ![r] = n],
           Alike(row[r], n) \/ Lawful(row[r], sink[r], n)
    PROVE  StepsAllowed
<1>1. \A s \in Runs : Alike(row[s], row'[s]) \/ Lawful(row[s], sink[s], row'[s])
    BY DEF TypeOK, LedgerTypeOK, Alike
<1> QED
    BY <1>1, RowsAllowed

\* Most steps change neither a row nor the sink.
LEMMA NothingAllowed ==
    ASSUME TypeOK, TypeOK', UNCHANGED sink, UNCHANGED row
    PROVE  StepsAllowed
BY RowsAllowed DEF Alike

LEMMA FinishAllAllowed ==
    ASSUME TypeOK, TypeOK', UNCHANGED sink,
           NEW S \in SUBSET Runs, NEW status \in {"failed", "canceled"},
           FinishAll(S, status),
           \A s \in S : row[s].status = "running" /\ ~row[s].pending
    PROVE  StepsAllowed
<1>1. ASSUME NEW s \in Runs
      PROVE  Alike(row[s], row'[s]) \/ Lawful(row[s], sink[s], row'[s])
  <2>1. row[s] \in Row
      BY DEF TypeOK, LedgerTypeOK
  <2>2. CASE s \in S
    <3>1. row'[s] = Released(row[s], status)
        BY <2>2 DEF FinishAll
    <3> QED
        BY <2>1, <2>2, <3>1, ReleasedRow DEF Status, Terminal, Lawful
  <2>3. CASE s \notin S
      BY <2>3 DEF FinishAll, Alike
  <2> QED
      BY <2>2, <2>3
<1> QED
    BY <1>1, RowsAllowed

\* The statements of the HTTP handlers and the clocks.
LEMMA OutsideAllowed ==
    ASSUME TypeOK, TypeOK', UNCHANGED sink, NEW r \in Runs
    PROVE  /\ CreateRow(r) => StepsAllowed
           /\ CancelRow(r) => StepsAllowed
           /\ row' = [row EXCEPT ![r] = [row[r] EXCEPT !.leaseLive = FALSE]] => StepsAllowed
           /\ row' = [row EXCEPT ![r] = [row[r] EXCEPT !.retryDue = TRUE]] => StepsAllowed
<1>0. row[r] \in Row
    BY DEF TypeOK, LedgerTypeOK
<1>1. ASSUME CreateRow(r) PROVE StepsAllowed
  <2> DEFINE n == [row[r] EXCEPT !.status = "queued"]
  <2>1. row' = [row EXCEPT ![r] = n]
      BY <1>1 DEF CreateRow
  <2>2. Lawful(row[r], sink[r], n)
      BY <1>0, <1>1 DEF CreateRow, Row, Lawful
  <2> QED
      BY <2>1, <2>2, RowAllowed
<1>2. ASSUME CancelRow(r) PROVE StepsAllowed
  <2> DEFINE n == [row[r] EXCEPT !.cancel = TRUE]
             m == [n EXCEPT !.status = "canceled"]
  <2>0. \/ row[r].status = "queued" /\ ~row[r].pending /\ row' = [row EXCEPT ![r] = m]
        \/ row' = [row EXCEPT ![r] = n]
      BY <1>2, Zenon DEF CancelRow, Finish, Update
  <2>1. CASE row[r].status = "queued" /\ ~row[r].pending /\ row' = [row EXCEPT ![r] = m]
    <3>1. Lawful(row[r], sink[r], m)
        BY <1>0, <2>1 DEF Row, Lawful
    <3> QED
        BY <2>1, <3>1, RowAllowed
  <2>2. CASE row' = [row EXCEPT ![r] = n]
    <3>1. Alike(row[r], n)
        BY <1>0 DEF Row, Alike
    <3> QED
        BY <2>2, <3>1, RowAllowed
  <2> QED
      BY <2>0, <2>1, <2>2
<1>3. /\ Alike(row[r], [row[r] EXCEPT !.leaseLive = FALSE])
      /\ Alike(row[r], [row[r] EXCEPT !.retryDue = TRUE])
    BY <1>0 DEF Row, Alike
<1>4. ASSUME row' = [row EXCEPT ![r] = [row[r] EXCEPT !.leaseLive = FALSE]]
      PROVE  StepsAllowed
    BY <1>3, <1>4, RowAllowed
<1>5. ASSUME row' = [row EXCEPT ![r] = [row[r] EXCEPT !.retryDue = TRUE]]
      PROVE  StepsAllowed
    BY <1>3, <1>5, RowAllowed
<1> QED
    BY <1>1, <1>2, <1>4, <1>5

\* A lease starts a queued run, or takes over a running one.
LEMMA LeaseAllowed ==
    ASSUME TypeOK, TypeOK', UNCHANGED sink, NEW r \in Runs, NEW w, LeaseRow(r, w)
    PROVE  StepsAllowed
<1>0. row[r] \in Row
    BY DEF TypeOK, LedgerTypeOK
<1>1. PICK k \in Nat : k = row[r].attempt + 1
    BY <1>0 DEF Row
<1> DEFINE n == [row[r] EXCEPT !.status = "running", !.owner = w, !.token = k,
                               !.attempt = k, !.leaseLive = TRUE, !.retryDue = TRUE]
<1>2. row' = [row EXCEPT ![r] = n]
    BY <1>1 DEF LeaseRow, Update
<1>3. Alike(row[r], n) \/ Lawful(row[r], sink[r], n)
    BY <1>0 DEF LeaseRow, Leasable, Row, Alike, Lawful
<1> QED
    BY <1>2, <1>3, RowAllowed

\* The migration of a starting process shows in no client's view.
LEMMA BackfillAllowed ==
    ASSUME TypeOK, TypeOK', UNCHANGED sink, Backfill
    PROVE  StepsAllowed
<1>1. ASSUME NEW s \in Runs PROVE Alike(row[s], row'[s])
  <2>1. row[s] \in Row
      BY DEF TypeOK, LedgerTypeOK
  <2>2. row'[s] = row[s] \/ row'[s] = [row[s] EXCEPT !.payload = row[s].response]
      BY DEF Backfill
  <2> QED
      BY <2>1, <2>2 DEF Row, Alike
<1> QED
    BY <1>1, RowsAllowed

\* The statements of executeOne, from what their callers know.
LEMMA StatementsAllowed ==
    ASSUME TypeOK, TypeOK', UNCHANGED sink, NEW r \in Runs, RowInv(row[r]),
           NEW w \in Workers, NEW t \in Nat,
           NEW bytes \in Nat \ {NoBytes}, NEW ref \in BOOLEAN
    PROVE  /\ StageOutcome(r, w, t, bytes, ref) => StepsAllowed
           /\ MarkPublicationPending(r, w, t) /\ row[r].response # NoBytes => StepsAllowed
           /\ CompletePublished(r, w, t, bytes) /\ row[r].pending
              /\ row[r].response = bytes /\ sink[r] = bytes => StepsAllowed
           /\ Fail(r, w, t) /\ ~row[r].pending => StepsAllowed
           /\ FailOutcome(r, w, t, bytes) /\ ~row[r].pending
              /\ row[r].response \in {NoBytes, bytes} => StepsAllowed
           /\ FailPublicationConflict(r, w, t) => StepsAllowed
           /\ MarkCanceled(r, w, t) => StepsAllowed
           /\ RetryVerification(r, w, t) => StepsAllowed
<1>0. row[r] \in Row
    BY DEF TypeOK, LedgerTypeOK
<1> DEFINE failed == Released(row[r], "failed")
           canceled == Released(row[r], "canceled")
           completed == Released(row[r], "completed")
<1>01. /\ failed \in Row /\ failed.status = "failed"
       /\ canceled \in Row /\ canceled.status = "canceled"
       /\ completed \in Row /\ completed.status = "completed"
       /\ failed.response = row[r].response /\ failed.pending = row[r].pending
       /\ canceled.response = row[r].response /\ canceled.pending = row[r].pending
       /\ completed.response = row[r].response /\ completed.pending = row[r].pending
    BY <1>0, ReleasedRow, ReleasedType DEF Status, Terminal
<1> HIDE DEF failed, canceled, completed
<1> USE DEF Holds, HoldsLive, NoBytes
<1>1. ASSUME StageOutcome(r, w, t, bytes, ref) PROVE StepsAllowed
  <2> DEFINE n == [row[r] EXCEPT !.response = bytes, !.payload = bytes, !.ref = ref]
  <2>1. row' = [row EXCEPT ![r] = n]
      BY <1>1 DEF StageOutcome, Update
  <2>2. Lawful(row[r], sink[r], n)
      BY <1>0, <1>1 DEF StageOutcome, StageFence, Row, Lawful
  <2> QED
      BY <2>1, <2>2, RowAllowed
<1>2. ASSUME MarkPublicationPending(r, w, t), row[r].response # NoBytes PROVE StepsAllowed
  <2> DEFINE n == [row[r] EXCEPT !.pending = TRUE, !.retryDue = TRUE]
  <2>1. row' = [row EXCEPT ![r] = n]
      BY <1>2 DEF MarkPublicationPending, Update
  <2>2. Lawful(row[r], sink[r], n)
      BY <1>0, <1>2 DEF MarkPublicationPending, PendingFence, Row, Lawful
  <2> QED
      BY <2>1, <2>2, RowAllowed
<1>3. ASSUME CompletePublished(r, w, t, bytes), row[r].pending,
             row[r].response = bytes, sink[r] = bytes
      PROVE  StepsAllowed
  <2> DEFINE n == [completed EXCEPT !.response = bytes, !.payload = bytes,
                                    !.pending = FALSE, !.retryDue = TRUE]
  <2>1. row' = [row EXCEPT ![r] = n]
      BY <1>3 DEF CompletePublished, Finish, completed
  <2>2. Lawful(row[r], sink[r], n)
      BY <1>0, <1>01, <1>3 DEF CompletePublished, CompleteFence, Row, Lawful
  <2> QED
      BY <2>1, <2>2, RowAllowed
<1>4. ASSUME Fail(r, w, t), ~row[r].pending PROVE StepsAllowed
  <2>1. row' = [row EXCEPT ![r] = failed]
      BY <1>4 DEF Fail, Finish, failed
  <2>2. Lawful(row[r], sink[r], failed)
      BY <1>01, <1>4 DEF Fail, FailFence, Lawful
  <2> QED
      BY <2>1, <2>2, RowAllowed
<1>5. ASSUME FailOutcome(r, w, t, bytes), ~row[r].pending, row[r].response \in {NoBytes, bytes}
      PROVE  StepsAllowed
  <2> DEFINE n == [failed EXCEPT !.response = bytes]
  <2>1. row' = [row EXCEPT ![r] = n]
      BY <1>5 DEF FailOutcome, Finish, failed
  <2>2. Lawful(row[r], sink[r], n)
      BY <1>01, <1>5 DEF FailOutcome, FailOutcomeFence, Row, Lawful
  <2> QED
      BY <2>1, <2>2, RowAllowed
<1>6. ASSUME FailPublicationConflict(r, w, t) PROVE StepsAllowed
  <2> DEFINE n == [failed EXCEPT !.pending = FALSE]
  <2>1. row' = [row EXCEPT ![r] = n]
      BY <1>6 DEF FailPublicationConflict, Finish, failed
  <2>2. Lawful(row[r], sink[r], n)
      BY <1>01, <1>6 DEF FailPublicationConflict, FailFence, Row, Lawful
  <2> QED
      BY <2>1, <2>2, RowAllowed
<1>7. ASSUME MarkCanceled(r, w, t) PROVE StepsAllowed
  <2>1. row' = [row EXCEPT ![r] = canceled]
      BY <1>7 DEF MarkCanceled, Finish, canceled
  <2>2. Lawful(row[r], sink[r], canceled)
      BY <1>01, <1>7 DEF MarkCanceled, CancelFence, Lawful
  <2> QED
      BY <2>1, <2>2, RowAllowed
<1>8. ASSUME RetryVerification(r, w, t) PROVE StepsAllowed
  <2>0. PICK k \in Nat : k = row[r].verified + 1
      BY <1>0 DEF Row
  <2> DEFINE looked == [row[r] EXCEPT !.verified = k]
             over == Released(looked, "failed")
             again == Released(looked, "queued")
             n == [over EXCEPT !.pending = FALSE, !.retryDue = TRUE]
             m == [again EXCEPT !.pending = TRUE, !.retryDue = FALSE]
  <2>1. row' = [row EXCEPT ![r] = n] \/ row' = [row EXCEPT ![r] = m]
      BY <1>8, <2>0, Zenon DEF RetryVerification, Finish, Update
  <2>2. looked \in Row /\ looked.response = row[r].response
      BY <1>0 DEF Row
  <2> HIDE DEF looked
  <2>3. /\ over \in Row /\ over.status = "failed" /\ over.response = row[r].response
        /\ again \in Row /\ again.status = "queued" /\ again.response = row[r].response
      BY <2>2, ReleasedRow, ReleasedType DEF Status, Unfinished, Terminal
  <2> HIDE DEF over, again
  <2>4. Lawful(row[r], sink[r], n) /\ Lawful(row[r], sink[r], m)
      BY <1>0, <1>8, <2>3 DEF RetryVerification, RetryFence, Row, Lawful
  <2> HIDE DEF n, m
  <2> QED
      BY <2>1, <2>4, RowAllowed
<1> QED
    BY <1>1, <1>2, <1>3, <1>4, <1>5, <1>6, <1>7, <1>8

-----------------------------------------------------------------------------
(* The steps. *)

\* The polling steps end and lease runs as the contract allows.
LEMMA PollingAllowed ==
    ASSUME IInv, TypeOK', NEW w \in Workers
    PROVE  /\ RecoverCanceledStep(w) => StepsAllowed
           /\ FailExhaustedStep(w) => StepsAllowed
           /\ LeaseNext(w) => StepsAllowed
           /\ NothingToLease(w) => StepsAllowed
<1> USE DEF IInv, sinkVars, ledgerVars
<1>1. ASSUME RecoverCanceledStep(w) PROVE StepsAllowed
  <2> DEFINE S == {r \in Runs : CancelRecoverable(r)}
  <2>1. S \in SUBSET Runs /\ \A s \in S : row[s].status = "running" /\ ~row[s].pending
      BY DEF CancelRecoverable
  <2>2. FinishAll(S, "canceled") /\ UNCHANGED sink
      BY <1>1 DEF RecoverCanceledStep, RecoverCanceled
  <2> HIDE DEF S
  <2> QED
      BY <2>1, <2>2, FinishAllAllowed
<1>2. ASSUME FailExhaustedStep(w) PROVE StepsAllowed
  <2> DEFINE S == {r \in Runs : Exhausted(r)}
  <2>1. S \in SUBSET Runs /\ \A s \in S : row[s].status = "running" /\ ~row[s].pending
      BY DEF Exhausted, RowInv
  <2>2. FinishAll(S, "failed") /\ UNCHANGED sink
      BY <1>2 DEF FailExhaustedStep, FailExhausted
  <2> HIDE DEF S
  <2> QED
      BY <2>1, <2>2, FinishAllAllowed
<1>3. ASSUME LeaseNext(w) PROVE StepsAllowed
  <2>1. PICK r \in Runs : LeaseRow(r, w)
      BY <1>3 DEF LeaseNext
  <2>2. UNCHANGED sink
      BY <1>3 DEF LeaseNext
  <2> QED
      BY <2>1, <2>2, LeaseAllowed
<1>4. ASSUME NothingToLease(w) PROVE StepsAllowed
    BY <1>4, NothingAllowed DEF NothingToLease
<1> QED
    BY <1>1, <1>2, <1>3, <1>4

\* What a worker knows when it issues a statement past the decision.
LEMMA StatementKnows ==
    ASSUME IInv, NEW w \in Workers, pc[w] \notin Polling
    PROVE  /\ R(w) \in Runs /\ T(w) \in Nat /\ job[w].ref \in BOOLEAN
           /\ pc[w] # "execute" => job[w].bytes \in Nat \ {NoBytes}
           /\ WorkerInv(w) /\ RowInv(row[R(w)]) /\ SinkInv(R(w))
BY JobType DEF IInv, TypeOK, WorkerInv

\* The last statement of an execution ends or re-queues its run, or is refused.
LEMMA LastStepsAllowed ==
    ASSUME IInv, TypeOK', NEW w \in Workers
    PROVE  /\ MarkCanceledStep(w) => StepsAllowed
           /\ FailStep(w) => StepsAllowed
           /\ FailOutcomeStep(w) => StepsAllowed
           /\ CompleteStep(w) => StepsAllowed
           /\ ConflictStep(w) => StepsAllowed
           /\ RetryStep(w) => StepsAllowed
<1> USE DEF At, ledgerVars, sinkVars
<1>0. ASSUME pc[w] \in {"cancel", "fail", "failOutcome", "complete", "conflict", "retry"}
      PROVE  /\ R(w) \in Runs /\ T(w) \in Nat /\ job[w].ref \in BOOLEAN
             /\ job[w].bytes \in Nat \ {NoBytes}
             /\ WorkerInv(w) /\ RowInv(row[R(w)]) /\ SinkInv(R(w)) /\ TypeOK
    BY <1>0, StatementKnows DEF Polling, IInv
<1>1. ASSUME MarkCanceledStep(w) PROVE StepsAllowed
  <2>1. pc[w] = "cancel" /\ UNCHANGED sink
        /\ (MarkCanceled(R(w), w, T(w)) \/ UNCHANGED row)
      BY <1>1 DEF MarkCanceledStep, LastStatement
  <2> QED
      BY <1>0, <2>1, StatementsAllowed, NothingAllowed
<1>2. ASSUME FailStep(w) PROVE StepsAllowed
  <2>1. pc[w] = "fail" /\ UNCHANGED sink /\ (Fail(R(w), w, T(w)) \/ UNCHANGED row)
      BY <1>2 DEF FailStep, LastStatement
  <2>2. Fail(R(w), w, T(w)) => ~row[R(w)].pending
      BY <1>0, <2>1 DEF WorkerInv, RowInv, Fail, FailFence, HoldsLive
  <2> QED
      BY <1>0, <2>1, <2>2, StatementsAllowed, NothingAllowed
<1>3. ASSUME FailOutcomeStep(w) PROVE StepsAllowed
  <2>1. pc[w] = "failOutcome" /\ UNCHANGED sink
        /\ (FailOutcome(R(w), w, T(w), job[w].bytes) \/ UNCHANGED row)
      BY <1>3 DEF FailOutcomeStep, LastStatement
  <2>2. FailOutcome(R(w), w, T(w), job[w].bytes) =>
           ~row[R(w)].pending /\ row[R(w)].response \in {NoBytes, job[w].bytes}
      BY <1>0, <2>1
         DEF WorkerInv, RowInv, FailOutcome, FailOutcomeFence, Holds, HoldsLive, Polling, Unfinished
  <2> QED
      BY <1>0, <2>1, <2>2, StatementsAllowed, NothingAllowed
<1>4. ASSUME CompleteStep(w) PROVE StepsAllowed
  <2>1. pc[w] = "complete" /\ UNCHANGED sink
        /\ (CompletePublished(R(w), w, T(w), job[w].bytes) \/ UNCHANGED row)
      BY <1>4 DEF CompleteStep, LastStatement
  <2>2. row[R(w)].payload = job[w].bytes /\ sink[R(w)] = job[w].bytes
        /\ row[R(w)].response = job[w].bytes
      BY <1>0, <2>1 DEF WorkerInv, RowInv, Staged
  <2>3. merges[R(w)] > 0
    <3>1. sink[R(w)] \notin {NoRow, Foreign} /\ merges[R(w)] \in Nat
        BY <1>0, <2>1, <2>2 DEF TypeOK, SinkTypeOK, NoRow, NoBytes
    <3> QED
        BY <1>0, <2>1, <3>1 DEF SinkInv
  <2>4. CompletePublished(R(w), w, T(w), job[w].bytes) => row[R(w)].pending
      BY <1>0, <2>1, <2>3
         DEF SinkInv, Passed, CompletePublished, CompleteFence, Holds, HoldsLive
  <2> QED
      BY <1>0, <2>1, <2>2, <2>4, StatementsAllowed, NothingAllowed
<1>5. ASSUME ConflictStep(w) PROVE StepsAllowed
  <2>1. pc[w] = "conflict" /\ UNCHANGED sink
        /\ (FailPublicationConflict(R(w), w, T(w)) \/ UNCHANGED row)
      BY <1>5 DEF ConflictStep, LastStatement
  <2> QED
      BY <1>0, <2>1, StatementsAllowed, NothingAllowed
<1>6. ASSUME RetryStep(w) PROVE StepsAllowed
  <2>1. pc[w] = "retry" /\ UNCHANGED sink
        /\ (RetryVerification(R(w), w, T(w)) \/ UNCHANGED row)
      BY <1>6 DEF RetryStep, LastStatement
  <2> QED
      BY <1>0, <2>1, StatementsAllowed, NothingAllowed
<1> QED
    BY <1>1, <1>2, <1>3, <1>4, <1>5, <1>6

\* Staging settles the result, and the mark begins its publication.
LEMMA StagingAllowed ==
    ASSUME IInv, TypeOK', NEW w \in Workers
    PROVE  /\ StageStep(w) => StepsAllowed
           /\ MarkPendingStep(w) => StepsAllowed
<1> USE DEF At, ledgerVars, sinkVars
<1>0. ASSUME pc[w] \in {"stage", "mark"}
      PROVE  /\ R(w) \in Runs /\ T(w) \in Nat /\ job[w].ref \in BOOLEAN
             /\ job[w].bytes \in Nat \ {NoBytes}
             /\ WorkerInv(w) /\ RowInv(row[R(w)]) /\ TypeOK
    BY <1>0, StatementKnows DEF Polling, IInv
<1>1. ASSUME StageStep(w) PROVE StepsAllowed
  <2>1. pc[w] = "stage" /\ UNCHANGED sink
        /\ (StageOutcome(R(w), w, T(w), job[w].bytes, job[w].ref) \/ UNCHANGED row)
      BY <1>1 DEF StageStep
  <2> QED
      BY <1>0, <2>1, StatementsAllowed, NothingAllowed
<1>2. ASSUME MarkPendingStep(w) PROVE StepsAllowed
  <2>1. pc[w] = "mark" /\ UNCHANGED sink
        /\ (MarkPublicationPending(R(w), w, T(w)) \/ UNCHANGED row)
      BY <1>2 DEF MarkPendingStep
  <2>2. row[R(w)].response # NoBytes
      BY <1>0, <2>1 DEF WorkerInv, RowInv, Staged
  <2> QED
      BY <1>0, <2>1, <2>2, StatementsAllowed, NothingAllowed
<1> QED
    BY <1>1, <1>2

\* A MERGE of the staged bytes stores the result of a run past its cutoff.
LEMMA MergeAllowed ==
    ASSUME IInv, TypeOK', NEW r \in Runs, UNCHANGED row,
           NEW bytes \in Nat \ {NoBytes}, row[r].payload = bytes,
           Passed(row[r]), sink' = Inserted(r, bytes)
    PROVE  StepsAllowed
<1>1. TypeOK /\ RowInv(row[r]) /\ SinkInv(r)
    BY DEF IInv
<1> SUFFICES ASSUME NEW s \in Runs
             PROVE  Allowed(s, row[s], sink[s], row'[s], sink'[s])
    BY DEF StepsAllowed
<1>2. row[s] \in Row /\ Alike(row[s], row'[s])
    BY <1>1 DEF TypeOK, LedgerTypeOK, Alike
<1>3. CASE s = r /\ sink[r] = NoRow
  <2>1. sink'[s] = bytes /\ sink[s] = 0
      BY <1>1, <1>3 DEF Inserted, NoRow, TypeOK, SinkTypeOK
  <2>2. row[s].response = bytes /\ (row[s].pending \/ row[s].status = "failed")
      BY <1>1, <1>3 DEF RowInv, SinkInv, Passed, NoRow, NoBytes
  <2> QED
      BY <1>2, <2>1, <2>2, StoringIsAllowed DEF NoBytes
<1>4. CASE s # r \/ sink[r] # NoRow
  <2>1. sink'[s] = sink[s]
      BY <1>1, <1>4 DEF Inserted, TypeOK, SinkTypeOK
  <2> QED
      BY <1>2, <2>1, AlikeIsAllowed
<1> QED
    BY <1>3, <1>4

LEMMA PublishAllowed ==
    ASSUME IInv, TypeOK', NEW w \in Workers, PublishStep(w)
    PROVE  StepsAllowed
<1>1. pc[w] = "publish" /\ UNCHANGED row
    BY DEF PublishStep, At, ledgerVars
<1>2. /\ R(w) \in Runs /\ job[w].bytes \in Nat \ {NoBytes}
      /\ row[R(w)].payload = job[w].bytes /\ Passed(row[R(w)])
    BY <1>1, StatementKnows DEF Polling, WorkerInv, Staged
<1>3. sink' = Inserted(R(w), job[w].bytes) \/ UNCHANGED sink
    BY DEF PublishStep, MergeCommits, MergeFails, sinkVars
<1> QED
    BY <1>1, <1>2, <1>3, MergeAllowed, NothingAllowed DEF IInv

\* The warehouse stores what was staged, or what another writer has.
LEMMA WarehouseAllowed ==
    ASSUME IInv, OrphansAreStaged, TypeOK', NEW r \in Runs, Warehouse(r)
    PROVE  StepsAllowed
<1>0. UNCHANGED row /\ TypeOK /\ SinkInv(r)
    BY DEF Warehouse, ledgerVars, IInv
<1>1. CASE OrphanLands(r)
  <2>1. PICK bytes \in orphan[r] : sink' = Inserted(r, bytes)
      BY <1>1 DEF OrphanLands
  <2>2. bytes \in Nat \ {NoBytes} /\ row[r].payload = bytes
      BY <1>0 DEF OrphansAreStaged, TypeOK, SinkTypeOK
  <2>3. Passed(row[r])
      BY <1>0, <2>1 DEF SinkInv, TypeOK, SinkTypeOK
  <2> QED
      BY <1>0, <2>1, <2>2, <2>3, MergeAllowed
<1>2. CASE OrphanDropped(r)
    BY <1>0, <1>2, NothingAllowed DEF OrphanDropped
<1>3. CASE ForeignWrite(r)
  <2> SUFFICES ASSUME NEW s \in Runs
               PROVE  Allowed(s, row[s], sink[s], row'[s], sink'[s])
      BY DEF StepsAllowed
  <2>1. row[s] \in Row /\ Alike(row[s], row'[s])
      BY <1>0 DEF TypeOK, LedgerTypeOK, Alike
  <2>2. CASE s = r
    <3>1. sink[s] = 0 /\ sink'[s] = Foreign /\ s \in ForeignRuns
        BY <1>0, <1>3, <2>2 DEF ForeignWrite, NoRow, TypeOK, SinkTypeOK
    <3> QED
        BY <1>0, <2>1, <3>1, StoringIsAllowed
  <2>3. CASE s # r
    <3>1. sink'[s] = sink[s]
        BY <1>0, <1>3, <2>3 DEF ForeignWrite, TypeOK, SinkTypeOK
    <3> QED
        BY <2>1, <3>1, AlikeIsAllowed
  <2> QED
      BY <2>2, <2>3
<1> QED
    BY <1>1, <1>2, <1>3 DEF Warehouse

\* Every step maps, run by run, to a step of the contract or to none.
LEMMA NextAllowed ==
    ASSUME IInv, OrphansAreStaged, [Next]_vars
    PROVE  StepsAllowed
<1>0. TypeOK /\ TypeOK'
    BY NextTypeOK DEF IInv
<1> USE DEF ledgerVars, sinkVars
<1>1. ASSUME NEW w \in Workers,
             DecideStep(w) \/ RestageStep(w) \/ StoreStep(w) \/ FenceStep(w)
             \/ ReadbackStep(w) \/ VerifyStep(w) \/ Execute(w) \/ Heartbeat(w) \/ Abandon(w)
      PROVE  StepsAllowed
  <2>1. UNCHANGED <<row, sink>>
      BY <1>1 DEF DecideStep, RestageStep, StoreStep, FenceStep, ReadbackStep, VerifyStep,
                  Execute, Heartbeat, Abandon
  <2> QED
      BY <1>0, <2>1, NothingAllowed
<1>2. ASSUME NEW w \in Workers, WorkerStep(w) PROVE StepsAllowed
    BY <1>0, <1>1, <1>2, PollingAllowed, LastStepsAllowed, StagingAllowed, PublishAllowed
       DEF WorkerStep
<1>3. ASSUME NEW r \in Runs,
             LeaseExpires(r) \/ RetryElapses(r) \/ Submit(r) \/ Cancel(r)
      PROVE  StepsAllowed
  <2>1. \/ row' = [row EXCEPT ![r] = [row[r] EXCEPT !.leaseLive = FALSE]]
        \/ row' = [row EXCEPT ![r] = [row[r] EXCEPT !.retryDue = TRUE]]
        \/ CreateRow(r) \/ CancelRow(r)
      BY <1>3 DEF LeaseExpires, RetryElapses, Submit, Cancel, Update
  <2>2. UNCHANGED sink
      BY <1>3 DEF LeaseExpires, RetryElapses, Submit, Cancel
  <2> QED
      BY <1>0, <2>1, <2>2, OutsideAllowed
<1>4. ASSUME ProcessStarts PROVE StepsAllowed
    BY <1>0, <1>4, BackfillAllowed DEF ProcessStarts
<1>5. ASSUME UNCHANGED vars PROVE StepsAllowed
    BY <1>0, <1>5, NothingAllowed DEF vars
<1>6. ASSUME NEW r \in Runs, Warehouse(r) PROVE StepsAllowed
    BY <1>0, <1>6, WarehouseAllowed
<1> QED
    BY <1>1, <1>2, <1>3, <1>4, <1>5, <1>6 DEF Next

\* No step makes a MERGE carry anything but staged bytes, which stay staged.
LEMMA OrphansStayStaged ==
    ASSUME IInv, OrphansAreStaged, [Next]_vars
    PROVE  OrphansAreStaged'
<1>1. PICK a : \A r \in Runs : Advances(row[r], row'[r], a)
    BY StepsAdvance
<1>2. ASSUME NEW r \in Runs,
             orphan'[r] \subseteq orphan[r]
             \/ \E bytes \in {row[r].payload} \ {NoBytes} : orphan'[r] \subseteq orphan[r] \union {bytes}
      PROVE  orphan'[r] \subseteq {row'[r].payload} \ {NoBytes}
    BY <1>1, <1>2 DEF OrphansAreStaged, Advances
<1>3. ASSUME NEW r \in Runs
      PROVE  orphan'[r] \subseteq orphan[r]
             \/ \E bytes \in {row[r].payload} \ {NoBytes} : orphan'[r] \subseteq orphan[r] \union {bytes}
  <2>0. orphan \in [Runs -> SUBSET Nat]
      BY DEF IInv, TypeOK, SinkTypeOK
  <2>1. CASE UNCHANGED orphan
      BY <2>1
  <2>2. ASSUME NEW w \in Workers, PublishStep(w)
        PROVE  orphan'[r] \subseteq orphan[r]
               \/ \E bytes \in {row[r].payload} \ {NoBytes} : orphan'[r] \subseteq orphan[r] \union {bytes}
    <3>1. /\ R(w) \in Runs /\ job[w].bytes # NoBytes /\ row[R(w)].payload = job[w].bytes
        BY <2>2, StatementKnows DEF Polling, WorkerInv, Staged, PublishStep, At
    <3>2. UNCHANGED orphan
          \/ orphan' = [orphan EXCEPT ![R(w)] = orphan[R(w)] \union {job[w].bytes}]
        BY <2>2 DEF PublishStep, MergeCommits, MergeFails, sinkVars
    <3> QED
        BY <2>0, <3>1, <3>2
  <2>3. ASSUME NEW s \in Runs, Warehouse(s) PROVE orphan'[r] \subseteq orphan[r]
    <3>1. UNCHANGED orphan \/ \E bytes \in orphan[s] : orphan' = [orphan EXCEPT ![s] = orphan[s] \ {bytes}]
        BY <2>3 DEF Warehouse, OrphanLands, OrphanDropped, ForeignWrite
    <3> QED
        BY <2>0, <3>1
  <2>4. \/ UNCHANGED orphan
        \/ \E w \in Workers : PublishStep(w)
        \/ \E s \in Runs : Warehouse(s)
    <3> USE DEF sinkVars
    <3>1. ASSUME NEW w \in Workers, WorkerStep(w), ~PublishStep(w) PROVE UNCHANGED orphan
        BY <3>1 DEF WorkerStep, RecoverCanceledStep, FailExhaustedStep, LeaseNext, NothingToLease,
              DecideStep, MarkCanceledStep, FailStep, FailOutcomeStep, StageStep, RestageStep,
              StoreStep, FenceStep, MarkPendingStep, ReadbackStep, VerifyStep, CompleteStep,
              ConflictStep, RetryStep, LastStatement
    <3>2. ASSUME NEW w \in Workers, Execute(w) \/ Heartbeat(w) \/ Abandon(w) PROVE UNCHANGED orphan
        BY <3>2 DEF Execute, Heartbeat, Abandon
    <3>3. ASSUME NEW s \in Runs, LeaseExpires(s) \/ RetryElapses(s) \/ Submit(s) \/ Cancel(s)
          PROVE  UNCHANGED orphan
        BY <3>3 DEF LeaseExpires, RetryElapses, Submit, Cancel
    <3>4. ASSUME ProcessStarts \/ UNCHANGED vars PROVE UNCHANGED orphan
        BY <3>4 DEF ProcessStarts, vars
    <3> QED
        BY <3>1, <3>2, <3>3, <3>4 DEF Next
  <2> QED
      BY <2>1, <2>2, <2>3, <2>4
<1> QED
    BY <1>2, <1>3 DEF OrphansAreStaged

LEMMA StartsLikeContract ==
    ASSUME Init
    PROVE  OrphansAreStaged /\ Contract!Init
<1>1. OrphansAreStaged
    BY DEF Init, SinkInit, OrphansAreStaged
<1>2. \A r \in Runs : /\ row[r] = AbsentRow /\ sink[r] = 0
    BY DEF Init, LedgerInit, SinkInit, NoRow
<1>3. AbsentRow.status = "absent" /\ AbsentRow.response = 0 /\ AbsentRow.pending = FALSE
    BY DEF AbsentRow, NoBytes
<1>4. ContractView = [r \in Runs |-> Contract!New]
    BY <1>2, <1>3 DEF ContractView, Contract!New, Contract!None
<1> QED
    BY <1>1, <1>4 DEF Contract!Init

LEMMA NextIsContractStep ==
    ASSUME IInv, OrphansAreStaged, [Next]_vars
    PROVE  Contract!Next
<1>1. \A r \in Runs : ContractView[r] = View(row[r], sink[r])
                      /\ ContractView'[r] = View(row'[r], sink'[r])
    BY DEF ContractView, View
<1>2. ContractView' = [r \in Runs |-> ContractView'[r]]
    BY DEF ContractView
<1> QED
    BY <1>1, <1>2, NextAllowed DEF StepsAllowed, Allowed, Contract!Next

\* Every behaviour of ledger, workers and sink is one the contract of
\* README.md:121-124 allows a client to see, whatever crashes, leases lost,
\* late MERGEs and racing cancels it contains (worker.go, lifecycle_store.go,
\* databricks.go).
THEOREM ImplementsContractHolds == Spec => ImplementsContract
<1>1. IInv /\ OrphansAreStaged /\ [Next]_vars => [Contract!Next]_ContractView
    BY NextIsContractStep
<1>2. IInv /\ OrphansAreStaged /\ [Next]_vars => OrphansAreStaged'
    BY OrphansStayStaged
<1> QED
    BY Inductive, StartsLikeContract, <1>1, <1>2, PTL
       DEF Spec, ImplementsContract, Contract!Spec
=============================================================================
