----------------------------- MODULE ServiceProofs -----------------------------
(***************************************************************************)
(* The safety properties of Service hold for any number of runs, workers,  *)
(* dispatchers and faults: callback events follow the ledger, a caller     *)
(* that is woken reads the outcome, and duplicates are paid for.           *)
(***************************************************************************)
EXTENDS ServiceInvariant, RunProofs, FiniteSetTheorems

USE LedgerAssumption, SinkAssumption, WorkerAssumption, NoRunAssumption,
    DispatcherAssumption

-----------------------------------------------------------------------------
(* What the statements of clients and workers do to the events. *)

\* The event of r stays as it is while the run goes on or stays ended, is armed
\* when the run ends, and is set up when the run is created.
EventKept(r) ==
    \/ /\ outbox'[r] = outbox[r]
       /\ \/ row'[r].status = row[r].status
          \/ row[r].status \in Unfinished /\ row'[r].status \in Unfinished
    \/ /\ row[r].status \in Unfinished /\ row'[r].status \in Terminal
       /\ outbox'[r].state = IF outbox[r].state = "none" THEN "none" ELSE "pending"
    \/ /\ row[r].status = "absent" /\ row'[r].status = "queued"
       /\ outbox'[r].state = IF r \in CallbackRuns THEN "waiting" ELSE "none"

EventsKept == \A r \in Runs : EventKept(r)

\* An UPDATE that leaves the run unfinished, or as it was.
LEMMA UpdateKeepsEvents ==
    ASSUME LedgerTypeOK, NEW r \in Runs, NEW n,
           row' = [row EXCEPT ![r] = n], UNCHANGED outbox,
           \/ n.status = row[r].status
           \/ row[r].status \in Unfinished /\ n.status \in Unfinished
    PROVE  EventsKept
BY DEF EventsKept, EventKept, LedgerTypeOK

\* An UPDATE that ends an unfinished run.
LEMMA FinishKeepsEvents ==
    ASSUME LedgerTypeOK, NEW r \in Runs, NEW n,
           row[r].status \in Unfinished, n.status \in Terminal, Finish(r, n)
    PROVE  EventsKept
BY DEF EventsKept, EventKept, LedgerTypeOK, Finish, EventReady

LEMMA FinishAllKeepsEvents ==
    ASSUME LedgerTypeOK, NEW S \in SUBSET Runs, NEW status \in Terminal,
           \A r \in S : row[r].status \in Unfinished, FinishAll(S, status)
    PROVE  EventsKept
<1>1. ASSUME NEW r \in S PROVE row'[r].status = status
  <2>1. row[r] \in Row /\ status \in Status
      BY DEF LedgerTypeOK, Status
  <2>2. row'[r] = Released(row[r], status)
      BY DEF FinishAll
  <2> QED
      BY <2>1, <2>2, ReleasedRow
<1>2. \A r \in Runs \ S : row'[r] = row[r]
    BY DEF FinishAll
<1> QED
    BY <1>1, <1>2 DEF EventsKept, EventKept, FinishAll, EventReady

LEMMA NothingKeepsEvents ==
    ASSUME UNCHANGED ledgerVars
    PROVE  EventsKept
BY DEF EventsKept, EventKept, ledgerVars

\* The statements of the HTTP handlers, the clock and the migration.
LEMMA OutsideKeepsEvents ==
    ASSUME LedgerTypeOK, \A s \in Runs : RowInv(row[s]), NEW r \in Runs
    PROVE  /\ CreateRow(r) => EventsKept
           /\ CancelRow(r) => EventsKept
           /\ LeaseExpires(r) => EventsKept
           /\ RetryElapses(r) => EventsKept
           /\ Backfill => EventsKept
<1>0. row[r] \in Row
    BY DEF LedgerTypeOK
<1>1. CreateRow(r) => EventsKept
    BY <1>0 DEF CreateRow, EventsKept, EventKept, LedgerTypeOK, Row
<1>2. ASSUME CancelRow(r) PROVE EventsKept
  <2> DEFINE n == [row[r] EXCEPT !.cancel = TRUE]
             m == [n EXCEPT !.status = "canceled"]
  <2>1. n.status = row[r].status /\ m.status = "canceled"
      BY <1>0 DEF Row
  <2>2. row[r].status \in Unfinished /\ (Finish(r, m) \/ Update(r, n))
      BY <1>2, Zenon DEF CancelRow
  <2> HIDE DEF n, m
  <2> QED
      BY <2>1, <2>2, UpdateKeepsEvents, FinishKeepsEvents DEF Update, Terminal
<1>3. LeaseExpires(r) => EventsKept
    BY <1>0, UpdateKeepsEvents DEF LeaseExpires, Update, Row
<1>4. RetryElapses(r) => EventsKept
    BY <1>0, UpdateKeepsEvents DEF RetryElapses, Update, Row
<1>5. ASSUME Backfill PROVE EventsKept
  <2>1. ASSUME NEW s \in Runs PROVE row'[s].status = row[s].status /\ outbox'[s] = outbox[s]
      BY <1>5 DEF Backfill, LedgerTypeOK, Row
  <2> QED
      BY <2>1 DEF EventsKept, EventKept
<1> QED
    BY <1>1, <1>2, <1>3, <1>4, <1>5

\* The fenced statements of executeOne, and the new lease.
LEMMA StatementsKeepEvents ==
    ASSUME LedgerTypeOK, NEW r \in Runs, NEW w \in Workers, NEW t \in Nat,
           NEW bytes \in Nat, NEW ref \in BOOLEAN
    PROVE  /\ LeaseRow(r, w) => EventsKept
           /\ StageOutcome(r, w, t, bytes, ref) => EventsKept
           /\ MarkPublicationPending(r, w, t) => EventsKept
           /\ CompletePublished(r, w, t, bytes) => EventsKept
           /\ Fail(r, w, t) => EventsKept
           /\ FailOutcome(r, w, t, bytes) => EventsKept
           /\ FailPublicationConflict(r, w, t) => EventsKept
           /\ MarkCanceled(r, w, t) => EventsKept
           /\ RetryVerification(r, w, t) => EventsKept
<1>0. row[r] \in Row
    BY DEF LedgerTypeOK
<1>00. /\ Released(row[r], "failed") \in Row /\ Released(row[r], "failed").status = "failed"
       /\ Released(row[r], "canceled") \in Row /\ Released(row[r], "canceled").status = "canceled"
       /\ Released(row[r], "completed") \in Row /\ Released(row[r], "completed").status = "completed"
    BY <1>0, ReleasedType, ReleasedRow DEF Status, Terminal
<1> USE DEF Holds, HoldsLive, Unfinished, Terminal
<1>1. ASSUME LeaseRow(r, w) PROVE EventsKept
  <2>1. PICK k : k = row[r].attempt + 1
      OBVIOUS
  <2> DEFINE n == [row[r] EXCEPT !.status = "running", !.owner = w, !.token = k,
                                 !.attempt = k, !.leaseLive = TRUE, !.retryDue = TRUE]
  <2>2. row' = [row EXCEPT ![r] = n] /\ UNCHANGED outbox /\ row[r].status \in Unfinished
      BY <1>1, <2>1 DEF LeaseRow, Leasable, Update
  <2>3. n.status = "running"
      BY <1>0 DEF Row
  <2> QED
      BY <2>2, <2>3, UpdateKeepsEvents
<1>2. ASSUME StageOutcome(r, w, t, bytes, ref) PROVE EventsKept
    BY <1>0, <1>2, UpdateKeepsEvents DEF StageOutcome, Update, Row
<1>3. ASSUME MarkPublicationPending(r, w, t) PROVE EventsKept
    BY <1>0, <1>3, UpdateKeepsEvents DEF MarkPublicationPending, Update, Row
<1>4. ASSUME CompletePublished(r, w, t, bytes) PROVE EventsKept
  <2> DEFINE n == [Released(row[r], "completed") EXCEPT !.response = bytes, !.payload = bytes,
                                                        !.pending = FALSE, !.retryDue = TRUE]
  <2>1. n.status = "completed"
      BY <1>00 DEF Row
  <2>2. Finish(r, n) /\ row[r].status = "running"
      BY <1>4 DEF CompletePublished, CompleteFence
  <2> HIDE DEF n
  <2> QED
      BY <2>1, <2>2, FinishKeepsEvents
<1>5. ASSUME Fail(r, w, t) PROVE EventsKept
    BY <1>00, <1>5, FinishKeepsEvents DEF Fail, FailFence
<1>6. ASSUME FailOutcome(r, w, t, bytes) PROVE EventsKept
  <2> DEFINE n == [Released(row[r], "failed") EXCEPT !.response = bytes]
  <2>1. n.status = "failed"
      BY <1>00 DEF Row
  <2>2. Finish(r, n) /\ row[r].status = "running"
      BY <1>6 DEF FailOutcome, FailOutcomeFence
  <2> HIDE DEF n
  <2> QED
      BY <2>1, <2>2, FinishKeepsEvents
<1>7. ASSUME FailPublicationConflict(r, w, t) PROVE EventsKept
  <2> DEFINE n == [Released(row[r], "failed") EXCEPT !.pending = FALSE]
  <2>1. n.status = "failed"
      BY <1>00 DEF Row
  <2>2. Finish(r, n) /\ row[r].status = "running"
      BY <1>7 DEF FailPublicationConflict, FailFence
  <2> HIDE DEF n
  <2> QED
      BY <2>1, <2>2, FinishKeepsEvents
<1>8. ASSUME MarkCanceled(r, w, t) PROVE EventsKept
    BY <1>00, <1>8, FinishKeepsEvents DEF MarkCanceled, CancelFence
<1>9. ASSUME RetryVerification(r, w, t) PROVE EventsKept
  <2>1. PICK k \in Nat : k = row[r].verified + 1
      BY <1>0 DEF Row
  <2> DEFINE looked == [row[r] EXCEPT !.verified = k]
             n == [Released(looked, "failed") EXCEPT !.pending = FALSE, !.retryDue = TRUE]
             m == [Released(looked, "queued") EXCEPT !.pending = TRUE, !.retryDue = FALSE]
  <2>2. looked \in Row
      BY <1>0 DEF Row
  <2>3. n.status = "failed" /\ m.status = "queued"
    <3>1. /\ Released(looked, "failed") \in Row /\ Released(looked, "failed").status = "failed"
          /\ Released(looked, "queued") \in Row /\ Released(looked, "queued").status = "queued"
        BY <2>2, ReleasedType, ReleasedRow DEF Status
    <3> QED
        BY <3>1 DEF Row
  <2>4. row[r].status = "running" /\ (Finish(r, n) \/ Update(r, m))
      BY <1>9, <2>1 DEF RetryVerification, RetryFence
  <2> HIDE DEF n, m
  <2> QED
      BY <2>3, <2>4, UpdateKeepsEvents, FinishKeepsEvents DEF Update
<1> QED
    BY <1>1, <1>2, <1>3, <1>4, <1>5, <1>6, <1>7, <1>8, <1>9

\* Every step of workers, clients, clock and warehouse.
LEMMA NextKeepsEvents ==
    ASSUME IInv, [Next]_vars
    PROVE  EventsKept
<1>0. LedgerTypeOK /\ \A s \in Runs : RowInv(row[s])
    BY DEF IInv, TypeOK
<1>1. ASSUME NEW w \in Workers, WorkerStep(w), pc[w] \in Polling
      PROVE  EventsKept
  <2>1. CASE RecoverCanceledStep(w)
      BY <1>0, <2>1, FinishAllKeepsEvents
         DEF RecoverCanceledStep, RecoverCanceled, CancelRecoverable, Unfinished, Terminal
  <2>2. CASE FailExhaustedStep(w)
      BY <1>0, <2>2, FinishAllKeepsEvents
         DEF FailExhaustedStep, FailExhausted, Exhausted, Unfinished, Terminal
  <2>3. CASE LeaseNext(w)
      BY <1>0, <2>3, StatementsKeepEvents DEF LeaseNext
  <2>4. CASE NothingToLease(w)
      BY <2>4, NothingKeepsEvents DEF NothingToLease
  <2> QED
      BY <1>1, <2>1, <2>2, <2>3, <2>4
         DEF WorkerStep, Polling, At, LastStatement, DecideStep, MarkCanceledStep, FailStep,
             FailOutcomeStep, StageStep, RestageStep, StoreStep, FenceStep, MarkPendingStep,
             PublishStep, ReadbackStep, VerifyStep, CompleteStep, ConflictStep, RetryStep
<1>2. ASSUME NEW w \in Workers, WorkerStep(w), pc[w] \notin Polling
      PROVE  EventsKept
  <2>1. R(w) \in Runs /\ T(w) \in Nat /\ job[w].bytes \in Nat /\ job[w].ref \in BOOLEAN
      BY <1>2, JobType DEF IInv, TypeOK, R, T
  <2>2. CASE UNCHANGED ledgerVars
      BY <2>2, NothingKeepsEvents
  <2>3. \/ UNCHANGED ledgerVars
        \/ MarkCanceled(R(w), w, T(w)) \/ Fail(R(w), w, T(w))
        \/ FailOutcome(R(w), w, T(w), job[w].bytes)
        \/ StageOutcome(R(w), w, T(w), job[w].bytes, job[w].ref)
        \/ MarkPublicationPending(R(w), w, T(w))
        \/ CompletePublished(R(w), w, T(w), job[w].bytes)
        \/ FailPublicationConflict(R(w), w, T(w)) \/ RetryVerification(R(w), w, T(w))
      BY <1>2
         DEF WorkerStep, Polling, At, LastStatement, DecideStep, MarkCanceledStep, FailStep,
             FailOutcomeStep, StageStep, RestageStep, StoreStep, FenceStep, MarkPendingStep,
             PublishStep, ReadbackStep, VerifyStep, CompleteStep, ConflictStep, RetryStep,
             RecoverCanceledStep, FailExhaustedStep, LeaseNext, NothingToLease
  <2> QED
      BY <1>0, <2>1, <2>2, <2>3, StatementsKeepEvents
<1>3. ASSUME NEW w \in Workers, Execute(w) \/ Heartbeat(w) \/ Abandon(w)
      PROVE  EventsKept
    BY <1>3, NothingKeepsEvents DEF Execute, Heartbeat, Abandon
<1>4. ASSUME NEW r \in Runs,
             LeaseExpires(r) \/ RetryElapses(r) \/ Submit(r) \/ Cancel(r) \/ Warehouse(r)
      PROVE  EventsKept
    BY <1>0, <1>4, OutsideKeepsEvents, NothingKeepsEvents DEF Submit, Cancel, Warehouse
<1>5. ASSUME ProcessStarts PROVE EventsKept
  <2>1. CASE Runs = {}
      BY <2>1 DEF EventsKept
  <2>2. CASE Runs # {}
      BY <1>0, <1>5, <2>2, OutsideKeepsEvents DEF ProcessStarts
  <2> QED
      BY <2>1, <2>2
<1>6. ASSUME UNCHANGED vars PROVE EventsKept
    BY <1>6, NothingKeepsEvents DEF vars, ledgerVars
<1> QED
    BY <1>1, <1>2, <1>3, <1>4, <1>5, <1>6 DEF Next

-----------------------------------------------------------------------------
(* The invariant survives every step of workers, clients and warehouse. *)

\* The step of a run that leaves its deliveries alone.
LEMMA EventInvKept ==
    ASSUME NEW r \in Runs, EventInv(r), EventKept(r), NEW a,
           Advances(row[r], row'[r], a), row[r] \in Row, row'[r] \in Row,
           UNCHANGED dispatcherVars
    PROVE  /\ EventInv(r)'
           /\ outbox'[r].state \in SettledStates <=> outbox[r].state \in SettledStates
           /\ outbox[r].state \in SettledStates => outbox'[r].state = outbox[r].state
<1>1. row[r].status \in Terminal => row'[r].status = row[r].status
    BY DEF Advances, Row
<1>2. row[r].status \in Status /\ row'[r].status \in Status
    BY DEF Row
<1> QED
    BY <1>1, <1>2 DEF EventInv, EventFits, EventKept, SettledStates, Status, Unfinished, Terminal,
                      dispatcherVars

\* What a worker, a client or the warehouse does leaves every delivery intact.
LEMMA NextKeepsService ==
    ASSUME ServiceInv, [Next]_vars, UNCHANGED dispatcherVars
    PROVE  /\ ServiceInv'
           /\ \A r \in Runs : outbox[r].state \in SettledStates =>
                                outbox'[r].state = outbox[r].state
<1>1. IInv' /\ \E a : \A r \in Runs : Advances(row[r], row'[r], a)
    BY NextKeeps DEF ServiceInv, Kept, RowsKept
<1>2. PICK a : \A r \in Runs : Advances(row[r], row'[r], a)
    BY <1>1
<1>3. EventsKept
    BY NextKeepsEvents DEF ServiceInv
<1>4. \A r \in Runs : row[r] \in Row /\ row'[r] \in Row
    BY <1>1 DEF ServiceInv, IInv, TypeOK, LedgerTypeOK
<1>5. ASSUME NEW r \in Runs
      PROVE  /\ EventInv(r)'
             /\ outbox'[r].state \in SettledStates <=> outbox[r].state \in SettledStates
             /\ outbox[r].state \in SettledStates => outbox'[r].state = outbox[r].state
    BY <1>2, <1>3, <1>4, EventInvKept DEF EventsKept, ServiceInv
<1>6. DispatcherTypeOK'
    BY DEF ServiceInv, DispatcherTypeOK, dispatcherVars
<1>7. ASSUME NEW d \in Dispatchers PROVE DeliveryInv(d)'
  <2>1. \A r \in Runs : row[r].status \in Terminal => row'[r].status \in Terminal
      BY <1>2, <1>4 DEF Advances, Row
  <2> QED
      BY <2>1 DEF ServiceInv, DeliveryInv, dispatcherVars
<1>8. ASSUME NEW r \in Runs PROVE CopiesPaid(r)'
  <2>1. \A d \in Dispatchers : Rightful(d, r)' <=> Rightful(d, r)
      BY DEF Rightful, dispatcherVars
  <2>2. Stale(r)' = Stale(r)
      BY <2>1 DEF Stale, dispatcherVars
  <2>3. Earned(r)' <=> Earned(r)
      BY <1>5, <2>1 DEF Earned, dispatcherVars
  <2> QED
      BY <2>2, <2>3 DEF CopiesPaid, ServiceInv, dispatcherVars
<1> QED
    BY <1>1, <1>5, <1>6, <1>7, <1>8 DEF ServiceInv

-----------------------------------------------------------------------------
(* The invariant survives every step of a dispatcher. *)

\* A dispatcher touches no row, no sink and no worker.
LEMMA DispatcherKeepsRuns ==
    ASSUME IInv, UNCHANGED <<row, sinkVars, workerVars>>,
           outbox' \in [Runs -> [state: CallbackState, due: BOOLEAN]]
    PROVE  IInv'
<1>1. TypeOK'
    BY DEF IInv, TypeOK, LedgerTypeOK, SinkTypeOK, WorkerTypeOK, sinkVars, workerVars
<1>2. \A r \in Runs : SinkInv(r)'
    BY DEF IInv, SinkInv, sinkVars
<1>3. \A w \in Workers : WorkerInv(w)'
    BY DEF IInv, WorkerInv, Holds, R, T, sinkVars, workerVars
<1>4. OnePublisher'
    BY DEF IInv, OnePublisher, At, R, workerVars
<1> QED
    BY <1>1, <1>2, <1>3, <1>4 DEF IInv

\* The accounts of one run, before and after a step.  S and U are the lost
\* claims that may still deliver a copy, a and b the accepted copies, f and g
\* the faults, p and q whether one copy was free.
LEMMA AccountsBalance ==
    ASSUME NEW S, NEW U, NEW a \in Nat, NEW b \in Nat, NEW f \in Nat, NEW g \in Nat,
           NEW p \in 0..1, NEW q \in 0..1,
           IsFiniteSet(S), a + Cardinality(S) <= f + p,
           \/ U \subseteq S /\ b <= a + (g - f) /\ g >= f /\ p <= q
           \/ U \subseteq S /\ b = a /\ g = f + 1
           \/ (\E d : U \subseteq S \union {d}) /\ b = a /\ g = f + 1 /\ p <= q
           \/ (\E d \in S : U = S \ {d}) /\ b = a + 1 /\ g = f /\ p <= q
           \/ U \subseteq S /\ b = a + 1 /\ g = f /\ p = 0 /\ q = 1
    PROVE  IsFiniteSet(U) /\ b + Cardinality(U) <= g + q
<1>0. PICK n \in Nat : n = Cardinality(S)
    BY FS_CardinalityType
<1>1. ASSUME U \subseteq S
      PROVE  IsFiniteSet(U) /\ \E m \in Nat : m = Cardinality(U) /\ m <= n
    BY <1>0, <1>1, FS_Subset, FS_CardinalityType
<1>2. CASE U \subseteq S /\ b <= a + (g - f) /\ g >= f /\ p <= q
  <2>1. PICK m \in Nat : m = Cardinality(U) /\ m <= n
      BY <1>1, <1>2
  <2>2. a + n <= f + p
      BY <1>0
  <2>3. b + m <= g + q
      BY <1>2, <2>1, <2>2
  <2> QED
      BY <1>1, <1>2, <2>1, <2>3
<1>3. CASE U \subseteq S /\ b = a /\ g = f + 1
  <2>1. PICK m \in Nat : m = Cardinality(U) /\ m <= n
      BY <1>1, <1>3
  <2>2. a + n <= f + p
      BY <1>0
  <2>3. b + m <= g + q
      BY <1>3, <2>1, <2>2
  <2> QED
      BY <1>1, <1>3, <2>1, <2>3
<1>4. CASE (\E d : U \subseteq S \union {d}) /\ b = a /\ g = f + 1 /\ p <= q
  <2>1. PICK d : U \subseteq S \union {d}
      BY <1>4
  <2>2. IsFiniteSet(S \union {d}) /\ Cardinality(S \union {d}) \in {n, n + 1}
      BY <1>0, FS_AddElement
  <2>3. IsFiniteSet(U) /\ Cardinality(U) <= Cardinality(S \union {d})
      BY <2>1, <2>2, FS_Subset
  <2>4. PICK m \in Nat : m = Cardinality(U)
      BY <2>3, FS_CardinalityType
  <2>5. m <= n + 1 /\ a + n <= f + p
      BY <1>0, <2>2, <2>3, <2>4
  <2>6. b + m <= g + q
      BY <1>4, <2>5
  <2> QED
      BY <2>3, <2>4, <2>6
<1>5. CASE (\E d \in S : U = S \ {d}) /\ b = a + 1 /\ g = f /\ p <= q
  <2>1. IsFiniteSet(U) /\ Cardinality(U) = n - 1
      BY <1>0, <1>5, FS_RemoveElement
  <2>2. a + n <= f + p
      BY <1>0
  <2>3. b + (n - 1) <= g + q
      BY <1>5, <2>2
  <2> QED
      BY <2>1, <2>3
<1>6. CASE U \subseteq S /\ b = a + 1 /\ g = f /\ p = 0 /\ q = 1
  <2>1. PICK m \in Nat : m = Cardinality(U) /\ m <= n
      BY <1>1, <1>6
  <2>2. a + n <= f + p
      BY <1>0
  <2>3. b + m <= g + q
      BY <1>6, <2>1, <2>2
  <2> QED
      BY <1>1, <1>6, <2>1, <2>3
<1> QED
    BY <1>2, <1>3, <1>4, <1>5, <1>6

\* What may happen to the accounts of run r: nothing is added without a fault
\* to pay for it; a claim is lost; a copy of a lost claim arrives; the copy of
\* the claim in force arrives, and was not there before.
Balanced(r) ==
    LET copies == accepts'[r] - accepts[r]
        missed == deliveryFaults' - deliveryFaults
        fewer  == Stale(r)' \subseteq Stale(r)
        keeps  == Earned(r) => Earned(r)'
    IN
    \/ fewer /\ copies <= missed /\ missed >= 0 /\ keeps
    \/ fewer /\ copies = 0 /\ missed = 1
    \/ (\E d : Stale(r)' \subseteq Stale(r) \union {d}) /\ copies = 0 /\ missed = 1 /\ keeps
    \/ (\E d \in Stale(r) : Stale(r)' = Stale(r) \ {d}) /\ copies = 1 /\ missed = 0 /\ keeps
    \/ fewer /\ copies = 1 /\ missed = 0 /\ ~Earned(r) /\ Earned(r)'

LEMMA BalancedPays ==
    ASSUME NEW r \in Runs, CopiesPaid(r), DispatcherTypeOK, DispatcherTypeOK', Balanced(r)
    PROVE  CopiesPaid(r)'
<1> DEFINE S == Stale(r)
           U == Stale(r)'
           f == deliveryFaults
           g == deliveryFaults'
           a == accepts[r]
           b == accepts'[r]
           p == IF Earned(r) THEN 1 ELSE 0
           q == IF Earned(r)' THEN 1 ELSE 0
<1>1. f \in Nat /\ g \in Nat /\ a \in Nat /\ b \in Nat
    BY DEF DispatcherTypeOK
<1>2. p \in 0..1 /\ q \in 0..1
    OBVIOUS
<1>3. /\ (Earned(r) => Earned(r)') => p <= q
      /\ ~Earned(r) /\ Earned(r)' => p = 0 /\ q = 1
    OBVIOUS
<1>4. IsFiniteSet(S) /\ a + Cardinality(S) <= f + p
    BY DEF CopiesPaid
<1>5. \/ U \subseteq S /\ b - a <= g - f /\ g - f >= 0 /\ p <= q
      \/ U \subseteq S /\ b - a = 0 /\ g - f = 1
      \/ (\E d : U \subseteq S \union {d}) /\ b - a = 0 /\ g - f = 1 /\ p <= q
      \/ (\E d \in S : U = S \ {d}) /\ b - a = 1 /\ g - f = 0 /\ p <= q
      \/ U \subseteq S /\ b - a = 1 /\ g - f = 0 /\ p = 0 /\ q = 1
    BY <1>3, Zenon DEF Balanced
<1>6. (IsFiniteSet(U) /\ b + Cardinality(U) <= g + q) => CopiesPaid(r)'
    BY DEF CopiesPaid
<1> HIDE DEF S, U, f, g, a, b, p, q
<1>7. \/ U \subseteq S /\ b <= a + (g - f) /\ g >= f /\ p <= q
      \/ U \subseteq S /\ b = a /\ g = f + 1
      \/ (\E d : U \subseteq S \union {d}) /\ b = a /\ g = f + 1 /\ p <= q
      \/ (\E d \in S : U = S \ {d}) /\ b = a + 1 /\ g = f /\ p <= q
      \/ U \subseteq S /\ b = a + 1 /\ g = f /\ p = 0 /\ q = 1
  <2>1. /\ (b - a <= g - f /\ g - f >= 0) => (b <= a + (g - f) /\ g >= f)
        /\ (b - a = 0) => b = a
        /\ (b - a = 1) => b = a + 1
        /\ (g - f = 0) => g = f
        /\ (g - f = 1) => g = f + 1
      BY <1>1
  <2> QED
      BY <1>5, <2>1, Zenon
<1> QED
    BY <1>1, <1>2, <1>4, <1>6, <1>7, AccountsBalance

\* What each action of a dispatcher does, in the terms of the invariant.
Delivers ==
    /\ outbox' \in [Runs -> [state: CallbackState, due: BOOLEAN]]
    /\ DispatcherTypeOK'
    /\ \A r \in Runs : EventInv(r)'
    /\ \A d \in Dispatchers : DeliveryInv(d)'
    /\ \A r \in Runs : Balanced(r)
    /\ \A r \in Runs : outbox[r].state \in SettledStates => outbox'[r].state = outbox[r].state

LEMMA DeliversKeepsService ==
    ASSUME ServiceInv, UNCHANGED <<row, sinkVars, workerVars>>, Delivers
    PROVE  ServiceInv'
<1>1. IInv'
    BY DispatcherKeepsRuns DEF ServiceInv, Delivers
<1>2. \A r \in Runs : CopiesPaid(r)'
    BY BalancedPays DEF ServiceInv, Delivers
<1> QED
    BY <1>1, <1>2 DEF ServiceInv, Delivers

\* The types the proofs below start from.
LEMMA ServiceTypes ==
    ASSUME ServiceInv
    PROVE  /\ DispatcherTypeOK
           /\ outbox \in [Runs -> [state: CallbackState, due: BOOLEAN]]
           /\ row \in [Runs -> Row]
           /\ \A r \in Runs : EventInv(r)
           /\ \A d \in Dispatchers : DeliveryInv(d)
BY DEF ServiceInv, IInv, TypeOK, LedgerTypeOK

\* The accounts of a run whose event no step touches.
LEMMA UntouchedIsBalanced ==
    ASSUME ServiceInv, DispatcherTypeOK', NEW r \in Runs,
           outbox'[r].state = outbox[r].state, claim'[r] = claim[r],
           accepts'[r] = accepts[r],
           deliveryFaults' = deliveryFaults \/ deliveryFaults' = deliveryFaults + 1,
           \A d \in Dispatchers :
               \/ dpc'[d] = dpc[d] /\ delivery'[d] = delivery[d]
               \/ /\ ~(dpc[d] = "succeeded" /\ delivery[d] = r)
                  /\ ~(dpc'[d] \in {"post", "succeeded"} /\ delivery'[d] = r)
    PROVE  Balanced(r)
<1>0. accepts[r] \in Nat /\ deliveryFaults \in Nat
    BY DEF ServiceInv, DispatcherTypeOK
<1>1. Stale(r)' \subseteq Stale(r)
    BY DEF Stale, Rightful
<1>2. Earned(r) => Earned(r)'
    BY DEF Earned, Rightful
<1>3. /\ accepts'[r] - accepts[r] = 0
      /\ deliveryFaults' - deliveryFaults \in {0, 1}
    BY <1>0
<1> QED
    BY <1>1, <1>2, <1>3 DEF Balanced

LEMMA ClaimDelivers ==
    ASSUME ServiceInv, NEW d \in Dispatchers, ClaimNextCallback(d)
    PROVE  Delivers
<1>1. PICK r \in Runs :
        /\ Claimable(r)
        /\ outbox' = [outbox EXCEPT ![r].state = "delivering"]
        /\ claim' = [claim EXCEPT ![r] = [holder |-> d, live |-> TRUE]]
        /\ delivery' = [delivery EXCEPT ![d] = r]
    BY DEF ClaimNextCallback
<1>2. /\ dpc[d] = "poll" /\ dpc' = [dpc EXCEPT ![d] = "post"]
      /\ row' = row /\ accepts' = accepts /\ seen' = seen /\ deliveryFaults' = deliveryFaults
    BY DEF ClaimNextCallback
<1>3. outbox' \in [Runs -> [state: CallbackState, due: BOOLEAN]]
    BY <1>1, ServiceTypes DEF CallbackState
<1>4. DispatcherTypeOK'
    BY <1>1, <1>2, ServiceTypes DEF DispatcherTypeOK
<1>5. ASSUME NEW s \in Runs PROVE EventInv(s)'
    BY <1>1, <1>2, ServiceTypes
       DEF EventInv, EventFits, Claimable, DispatcherTypeOK, Unfinished, Terminal
<1>6. ASSUME NEW e \in Dispatchers PROVE DeliveryInv(e)'
    BY <1>1, <1>2, ServiceTypes DEF DeliveryInv, Claimable, DispatcherTypeOK
<1>7. ASSUME NEW s \in Runs PROVE Balanced(s)
  <2>1. CASE s # r
      BY <1>1, <1>2, <1>4, <2>1, ServiceTypes, UntouchedIsBalanced DEF DispatcherTypeOK
  <2>2. CASE s = r
    <3>1. Stale(s)' \subseteq Stale(s)
        BY <1>1, <1>2, <2>2, ServiceTypes DEF Stale, Rightful, DispatcherTypeOK, Claimable
    <3>2. ~Earned(s)
        BY <1>1, <2>2 DEF Earned, Rightful, Claimable, SettledStates
    <3>3. accepts'[s] - accepts[s] = 0 /\ deliveryFaults' - deliveryFaults = 0
        BY <1>2, ServiceTypes DEF DispatcherTypeOK
    <3> QED
        BY <3>1, <3>2, <3>3 DEF Balanced
  <2> QED
      BY <2>1, <2>2
<1>8. \A s \in Runs : outbox[s].state \in SettledStates => outbox'[s].state = outbox[s].state
    BY <1>1, ServiceTypes DEF Claimable, SettledStates
<1> QED
    BY <1>3, <1>4, <1>5, <1>6, <1>7, <1>8 DEF Delivers

\* The four answers a POST may get.
LEMMA AnswerDelivers ==
    ASSUME ServiceInv, NEW d \in Dispatchers,
           PostAccepted(d) \/ PostAnswerLost(d) \/ PostRefused(d) \/ PostRejected(d)
    PROVE  Delivers
<1> DEFINE r == delivery[d]
<1>0. /\ r \in Runs /\ row[r].status \in Terminal /\ dpc[d] = "post"
      /\ outbox' = outbox /\ row' = row /\ claim' = claim /\ delivery' = delivery
      /\ accepts \in [Runs -> Nat] /\ deliveryFaults \in Nat
      /\ seen \in [Runs -> SUBSET Status] /\ row[r].status \in Status
  <2>1. dpc[d] = "post" /\ outbox' = outbox /\ row' = row /\ claim' = claim /\ delivery' = delivery
      BY DEF PostAccepted, PostAnswerLost, PostRefused, PostRejected, Answered
  <2>2. r \in Runs /\ row[r].status \in Terminal
      BY <2>1, ServiceTypes DEF DeliveryInv
  <2>3. row[r].status \in Status
      BY <2>2, ServiceTypes DEF Row
  <2> QED
      BY <2>1, <2>2, <2>3, ServiceTypes DEF DispatcherTypeOK
<1>1. PICK label \in {"succeeded", "retry", "config"} : dpc' = [dpc EXCEPT ![d] = label]
    BY DEF PostAccepted, PostAnswerLost, PostRefused, PostRejected, Answered
<1>2. \/ label = "succeeded" /\ Woken(r) /\ deliveryFaults' = deliveryFaults
      \/ label # "succeeded" /\ Woken(r) /\ deliveryFaults' = deliveryFaults + 1
      \/ /\ label # "succeeded" /\ accepts' = accepts /\ seen' = seen
         /\ deliveryFaults' = deliveryFaults
  <2>1. dpc'[d] = label
      BY <1>1, ServiceTypes DEF DispatcherTypeOK
  <2>2. ASSUME NEW l, dpc' = [dpc EXCEPT ![d] = l] PROVE dpc'[d] = l
      BY <2>2, ServiceTypes DEF DispatcherTypeOK
  <2> QED
      BY <2>1, <2>2
         DEF PostAccepted, PostAnswerLost, PostRefused, PostRejected, Answered, DeliveryFault
<1> HIDE DEF r
<1>3. DispatcherTypeOK'
    BY <1>0, <1>1, <1>2, ServiceTypes DEF DispatcherTypeOK, Woken
<1>4. ASSUME NEW s \in Runs PROVE EventInv(s)'
  <2>1. EventInv(s)
      BY ServiceTypes
  <2>2. accepts'[s] >= accepts[s] /\ accepts[s] \in Nat /\ accepts'[s] \in Nat
      BY <1>0, <1>2, <1>3 DEF DispatcherTypeOK, Woken
  <2>3. seen'[s] = seen[s] \/ (s = r /\ seen'[s] = seen[s] \union {row[r].status})
      BY <1>0, <1>2 DEF Woken
  <2>4. seen'[s] # {} => row[s].status \in Terminal /\ seen'[s] = {row[s].status}
      BY <1>0, <2>1, <2>3 DEF EventInv
  <2> QED
      BY <1>0, <2>1, <2>2, <2>4 DEF EventInv, EventFits
<1>5. ASSUME NEW e \in Dispatchers PROVE DeliveryInv(e)'
  <2>1. DeliveryInv(e)
      BY ServiceTypes
  <2>2. \A s \in Runs : accepts[s] > 0 => accepts'[s] > 0
      BY <1>0, <1>2 DEF Woken
  <2>3. dpc \in [Dispatchers -> {"poll", "post", "succeeded", "retry", "config"}]
      BY ServiceTypes DEF DispatcherTypeOK
  <2>4. label = "succeeded" => accepts'[r] > 0
      BY <1>0, <1>2 DEF Woken
  <2> QED
      BY <1>0, <1>1, <2>1, <2>2, <2>3, <2>4 DEF DeliveryInv, r
<1>6. ASSUME NEW s \in Runs PROVE Balanced(s)
  <2>0. dpc \in [Dispatchers -> {"poll", "post", "succeeded", "retry", "config"}]
      BY ServiceTypes DEF DispatcherTypeOK
  <2>1. CASE s # r
    <3>1. accepts'[s] = accepts[s] /\ deliveryFaults' \in {deliveryFaults, deliveryFaults + 1}
        BY <1>0, <1>2, <2>1 DEF Woken
    <3>2. \A e \in Dispatchers : e # d => dpc'[e] = dpc[e]
        BY <1>1, <2>0
    <3>3. delivery'[d] # s /\ delivery[d] # s
        BY <1>0, <2>1 DEF r
    <3> QED
        BY <1>0, <1>3, <3>1, <3>2, <3>3, UntouchedIsBalanced
  <2>2. CASE s = r
    <3>1. \A e \in Dispatchers : Rightful(e, s)' <=> Rightful(e, s)
        BY <1>0 DEF Rightful
    <3>2. Stale(s)' = Stale(s) \ {d}
        BY <1>0, <1>1, <2>0, <3>1 DEF Stale
    <3>3. Earned(s) => Earned(s)'
      <4>1. ASSUME NEW e \in Dispatchers, dpc[e] = "succeeded" PROVE dpc'[e] = "succeeded"
          BY <1>0, <1>1, <2>0, <4>1
      <4> QED
          BY <1>0, <3>1, <4>1 DEF Earned
    <3>4. CASE label = "succeeded" /\ Woken(r) /\ deliveryFaults' = deliveryFaults
      <4>1. accepts'[s] - accepts[s] = 1 /\ deliveryFaults' - deliveryFaults = 0
          BY <1>0, <2>2, <3>4 DEF Woken
      <4>2. CASE d \in Stale(s)
          BY <3>2, <3>3, <4>1, <4>2 DEF Balanced
      <4>3. CASE d \notin Stale(s)
        <5>1. Rightful(d, s)
            BY <1>0, <2>2, <4>3 DEF Stale, r
        <5>2. dpc'[d] = "succeeded"
            BY <1>1, <2>0, <3>4
        <5>3. Earned(s)'
            BY <3>1, <5>1, <5>2 DEF Earned
        <5>4. ~Earned(s)
          <6>1. claim[s].live /\ claim[s].holder = d
              BY <5>1 DEF Rightful
          <6>2. outbox[s].state = "delivering"
              BY <6>1, ServiceTypes DEF EventInv
          <6> QED
              BY <1>0, <6>1, <6>2 DEF Earned, Rightful, SettledStates
        <5> QED
            BY <3>2, <4>1, <5>3, <5>4 DEF Balanced
      <4> QED
          BY <4>2, <4>3
    <3>5. CASE Woken(r) /\ deliveryFaults' = deliveryFaults + 1
      <4>1. accepts'[s] - accepts[s] = 1 /\ deliveryFaults' - deliveryFaults = 1
          BY <1>0, <2>2, <3>5 DEF Woken
      <4> QED
          BY <3>2, <3>3, <4>1 DEF Balanced
    <3>6. CASE accepts' = accepts /\ deliveryFaults' = deliveryFaults
      <4>1. accepts'[s] - accepts[s] = 0 /\ deliveryFaults' - deliveryFaults = 0
          BY <1>0, <3>6
      <4> QED
          BY <3>2, <3>3, <4>1 DEF Balanced
    <3> QED
        BY <1>2, <3>4, <3>5, <3>6
  <2> QED
      BY <2>1, <2>2
<1> QED
    BY <1>0, <1>3, <1>4, <1>5, <1>6, ServiceTypes DEF Delivers

\* What a dispatcher records after an answer, fenced by the token of its claim.
LEMMA RecordDelivers ==
    ASSUME ServiceInv, NEW d \in Dispatchers,
           CallbackSucceeded(d) \/ CallbackFailed(d) \/ CallbackConfigurationFailed(d)
    PROVE  Delivers
<1> DEFINE r == delivery[d]
<1>1. PICK label \in {"succeeded", "retry", "config"},
           state \in {"delivered", "retry", "configuration_failed"}, due \in BOOLEAN :
        /\ Record(d, label, state, due)
        /\ state = "delivered" => label = "succeeded"
        /\ state = "retry" => label = "retry"
    BY DEF CallbackSucceeded, CallbackFailed, CallbackConfigurationFailed
<1>2. /\ dpc[d] = label /\ dpc' = [dpc EXCEPT ![d] = "poll"]
      /\ delivery' = [delivery EXCEPT ![d] = NoRun]
      /\ row' = row /\ accepts' = accepts /\ seen' = seen /\ deliveryFaults' = deliveryFaults
    BY <1>1 DEF Record
<1>3. \/ /\ CallbackFence(r, d)
         /\ outbox' = [outbox EXCEPT ![r] = [state |-> state, due |-> due]]
         /\ claim' = [claim EXCEPT ![r] = NoClaim]
      \/ ~CallbackFence(r, d) /\ outbox' = outbox /\ claim' = claim
    BY <1>1, Zenon DEF Record
<1>4. r \in Runs /\ row[r].status \in Terminal /\ (label = "succeeded" => accepts[r] > 0)
    BY <1>2, ServiceTypes DEF DeliveryInv
<1>5. /\ dpc \in [Dispatchers -> {"poll", "post", "succeeded", "retry", "config"}]
      /\ delivery \in [Dispatchers -> Runs \union {NoRun}]
      /\ claim \in [Runs -> [holder: Dispatchers \union {NoDispatcher}, live: BOOLEAN]]
      /\ accepts \in [Runs -> Nat] /\ deliveryFaults \in Nat
      /\ outbox \in [Runs -> [state: CallbackState, due: BOOLEAN]]
    BY ServiceTypes DEF DispatcherTypeOK
<1>6. outbox' \in [Runs -> [state: CallbackState, due: BOOLEAN]]
    BY <1>3, <1>4, <1>5 DEF CallbackState
<1>7. DispatcherTypeOK'
  <2>1. claim' \in [Runs -> [holder: Dispatchers \union {NoDispatcher}, live: BOOLEAN]]
    <3>1. NoClaim \in [holder: Dispatchers \union {NoDispatcher}, live: BOOLEAN]
        BY DEF NoClaim
    <3> QED
        BY <1>3, <1>4, <1>5, <3>1
  <2>2. /\ dpc' \in [Dispatchers -> {"poll", "post", "succeeded", "retry", "config"}]
        /\ delivery' \in [Dispatchers -> Runs \union {NoRun}]
      BY <1>2, <1>5
  <2> QED
      BY <1>2, <2>1, <2>2, ServiceTypes DEF DispatcherTypeOK
<1>8. ASSUME NEW s \in Runs
      PROVE  /\ EventInv(s)'
             /\ outbox[s].state \in SettledStates => outbox'[s].state = outbox[s].state
  <2>1. EventInv(s)
      BY ServiceTypes
  <2>2. CASE s = r /\ CallbackFence(r, d)
    <3>1. outbox'[s].state = state /\ ~claim'[s].live /\ outbox[s].state = "delivering"
        BY <1>3, <1>4, <1>5, <2>2 DEF CallbackFence, NoClaim
    <3> HIDE DEF r
    <3> QED
        BY <1>1, <1>2, <1>4, <2>1, <2>2, <3>1
           DEF EventInv, EventFits, SettledStates, Unfinished, Terminal
  <2>3. CASE ~(s = r /\ CallbackFence(r, d))
    <3>1. outbox'[s] = outbox[s] /\ claim'[s] = claim[s]
        BY <1>3, <1>4, <1>5, <2>3
    <3> QED
        BY <1>2, <2>1, <3>1 DEF EventInv, EventFits
  <2> QED
      BY <2>2, <2>3
<1>9. ASSUME NEW e \in Dispatchers PROVE DeliveryInv(e)'
    BY <1>2, <1>5, ServiceTypes DEF DeliveryInv
<1>10. ASSUME NEW s \in Runs PROVE Balanced(s)
  <2>1. CASE s # r
    <3>1. /\ outbox'[s].state = outbox[s].state /\ claim'[s] = claim[s]
          /\ accepts'[s] = accepts[s]
        BY <1>2, <1>3, <1>4, <1>5, <2>1
    <3>2. \A e \in Dispatchers \ {d} : dpc'[e] = dpc[e] /\ delivery'[e] = delivery[e]
        BY <1>2, <1>5
    <3>3. dpc'[d] = "poll"
        BY <1>2, <1>5
    <3> QED
        BY <1>2, <1>7, <2>1, <3>1, <3>2, <3>3, UntouchedIsBalanced
  <2>2. CASE s = r
    <3>0. accepts'[s] - accepts[s] = 0 /\ deliveryFaults' - deliveryFaults = 0
        BY <1>2, <1>5
    <3>1. \A e \in Dispatchers \ {d} : dpc'[e] = dpc[e] /\ delivery'[e] = delivery[e]
        BY <1>2, <1>5
    <3>2. dpc'[d] = "poll"
        BY <1>2, <1>5
    <3>3. CASE CallbackFence(r, d)
      <4>1. claim[s].holder = d /\ outbox[s].state = "delivering" /\ outbox'[s].state = state
          BY <1>3, <1>5, <2>2, <3>3 DEF CallbackFence
      <4>2. Stale(s)' \subseteq Stale(s)
          BY <1>2, <3>1, <3>2, <4>1 DEF Stale, Rightful
      <4>3. Earned(s) => Earned(s)'
        <5>1. CASE state \in SettledStates
            BY <4>1, <5>1 DEF Earned
        <5>2. CASE state \notin SettledStates
            BY <1>1, <1>2, <4>1, <5>2 DEF Earned, Rightful, SettledStates
        <5> QED
            BY <5>1, <5>2
      <4> QED
          BY <3>0, <4>2, <4>3 DEF Balanced
    <3>4. CASE ~CallbackFence(r, d)
      <4>1. outbox' = outbox /\ claim' = claim
          BY <1>3, <3>4
      <4>2. Stale(s)' \subseteq Stale(s)
          BY <3>1, <3>2, <4>1 DEF Stale, Rightful
      <4>3. ~Rightful(d, s)
          BY <2>2, <3>4, ServiceTypes DEF Rightful, CallbackFence, EventInv
      <4>4. Earned(s) => Earned(s)'
          BY <3>1, <4>1, <4>3 DEF Earned, Rightful
      <4> QED
          BY <3>0, <4>2, <4>4 DEF Balanced
    <3> QED
        BY <3>3, <3>4
  <2> QED
      BY <2>1, <2>2
<1> QED
    BY <1>6, <1>7, <1>8, <1>9, <1>10 DEF Delivers

\* A dispatcher that stops keeps its claim until it expires, and pays a fault.
LEMMA StopDelivers ==
    ASSUME ServiceInv, NEW d \in Dispatchers, DispatcherStops(d)
    PROVE  Delivers
<1>1. /\ dpc' = [dpc EXCEPT ![d] = "poll"] /\ delivery' = [delivery EXCEPT ![d] = NoRun]
      /\ row' = row /\ outbox' = outbox /\ claim' = claim
      /\ accepts' = accepts /\ seen' = seen /\ deliveryFaults' = deliveryFaults + 1
    BY DEF DispatcherStops, DeliveryFault
<1>2. DispatcherTypeOK'
    BY <1>1, ServiceTypes DEF DispatcherTypeOK
<1>3. \A r \in Runs : EventInv(r)'
    BY <1>1, ServiceTypes DEF EventInv, EventFits
<1>4. \A e \in Dispatchers : DeliveryInv(e)'
    BY <1>1, ServiceTypes DEF DeliveryInv, DispatcherTypeOK
<1>5. ASSUME NEW r \in Runs PROVE Balanced(r)
  <2>1. accepts'[r] - accepts[r] = 0 /\ deliveryFaults' - deliveryFaults = 1
      BY <1>1, ServiceTypes DEF DispatcherTypeOK
  <2>2. Stale(r)' \subseteq Stale(r)
      BY <1>1, ServiceTypes DEF Stale, Rightful, DispatcherTypeOK
  <2> QED
      BY <2>1, <2>2 DEF Balanced
<1> QED
    BY <1>1, <1>2, <1>3, <1>4, <1>5, ServiceTypes DEF Delivers

\* A claim that expires while its dispatcher works is lost, and pays a fault:
\* either for the copy that dispatcher may still deliver or for the one it did.
LEMMA ExpiryDelivers ==
    ASSUME ServiceInv, NEW r \in Runs, ClaimExpires(r)
    PROVE  Delivers
<1>1. /\ claim[r].live /\ claim' = [claim EXCEPT ![r].live = FALSE]
      /\ row' = row /\ outbox' = outbox /\ dpc' = dpc /\ delivery' = delivery
      /\ accepts' = accepts /\ seen' = seen
    BY DEF ClaimExpires
<1>2. \/ ~Delivering(r) /\ deliveryFaults' = deliveryFaults
      \/ deliveryFaults' = deliveryFaults + 1
    BY DEF ClaimExpires, DeliveryFault
<1>3. DispatcherTypeOK'
  <2>1. claim' \in [Runs -> [holder: Dispatchers \union {NoDispatcher}, live: BOOLEAN]]
    <3>1. claim \in [Runs -> [holder: Dispatchers \union {NoDispatcher}, live: BOOLEAN]]
        BY ServiceTypes DEF DispatcherTypeOK
    <3>2. [claim[r] EXCEPT !.live = FALSE]
             \in [holder: Dispatchers \union {NoDispatcher}, live: BOOLEAN]
        BY <3>1
    <3>3. claim' = [claim EXCEPT ![r] = [claim[r] EXCEPT !.live = FALSE]]
        BY <1>1
    <3> QED
        BY <3>1, <3>2, <3>3
  <2>2. deliveryFaults' \in Nat
      BY <1>2, ServiceTypes DEF DispatcherTypeOK
  <2> QED
      BY <1>1, <2>1, <2>2, ServiceTypes DEF DispatcherTypeOK
<1>4. /\ claim'[r].holder = claim[r].holder /\ ~claim'[r].live
      /\ \A s \in Runs \ {r} : claim'[s] = claim[s]
    BY <1>1, ServiceTypes DEF DispatcherTypeOK
<1>5. \A s \in Runs : EventInv(s)'
    BY <1>1, <1>4, ServiceTypes DEF EventInv, EventFits
<1>6. \A e \in Dispatchers : DeliveryInv(e)'
    BY <1>1, ServiceTypes DEF DeliveryInv
<1>7. ASSUME NEW s \in Runs PROVE Balanced(s)
  <2>1. CASE s # r
      BY <1>1, <1>2, <1>3, <1>4, <2>1, UntouchedIsBalanced
  <2>2. CASE s = r /\ deliveryFaults' = deliveryFaults + 1
    <3>1. accepts'[s] - accepts[s] = 0 /\ deliveryFaults' - deliveryFaults = 1
        BY <1>1, <2>2, ServiceTypes DEF DispatcherTypeOK
    <3>2. Stale(s)' \subseteq Stale(s) \union {claim[s].holder}
        BY <1>1, <1>4, <2>2 DEF Stale, Rightful
    <3>3. CASE Earned(s) => Earned(s)'
        BY <3>1, <3>2, <3>3 DEF Balanced
    <3>4. CASE Earned(s) /\ ~Earned(s)'
      <4>1. dpc[claim[s].holder] = "succeeded"
          BY <1>1, <3>4 DEF Earned, Rightful
      <4>2. Stale(s)' \subseteq Stale(s)
          BY <1>1, <3>2, <4>1 DEF Stale
      <4> QED
          BY <3>1, <4>2 DEF Balanced
    <3> QED
        BY <3>3, <3>4
  <2>3. CASE s = r /\ ~Delivering(r) /\ deliveryFaults' = deliveryFaults
    <3>1. accepts'[s] - accepts[s] = 0 /\ deliveryFaults' - deliveryFaults = 0
        BY <1>1, <2>3, ServiceTypes DEF DispatcherTypeOK
    <3>2. \A e \in Dispatchers : ~Rightful(e, s)
        BY <2>3 DEF Rightful, Delivering
    <3>3. Stale(s)' \subseteq Stale(s)
        BY <1>1, <3>2 DEF Stale
    <3>4. Earned(s) => Earned(s)'
        BY <1>1, <3>2 DEF Earned
    <3> QED
        BY <3>1, <3>3, <3>4 DEF Balanced
  <2> QED
      BY <1>2, <2>1, <2>2, <2>3
<1> QED
    BY <1>1, <1>3, <1>5, <1>6, <1>7, ServiceTypes DEF Delivers

LEMMA DueDelivers ==
    ASSUME ServiceInv, NEW r \in Runs, DeliveryDue(r)
    PROVE  Delivers
<1>1. /\ outbox' = [outbox EXCEPT ![r].due = TRUE] /\ row' = row /\ claim' = claim
      /\ dpc' = dpc /\ delivery' = delivery /\ accepts' = accepts /\ seen' = seen
      /\ deliveryFaults' = deliveryFaults
    BY DEF DeliveryDue, dispatcherVars
<1>2. /\ outbox' \in [Runs -> [state: CallbackState, due: BOOLEAN]]
      /\ \A s \in Runs : outbox'[s].state = outbox[s].state
    BY <1>1, ServiceTypes
<1>3. DispatcherTypeOK'
    BY <1>1, ServiceTypes DEF DispatcherTypeOK
<1>4. \A s \in Runs : EventInv(s)'
    BY <1>1, <1>2, ServiceTypes DEF EventInv, EventFits
<1>5. \A e \in Dispatchers : DeliveryInv(e)'
    BY <1>1, ServiceTypes DEF DeliveryInv
<1>6. \A s \in Runs : Balanced(s)
    BY <1>1, <1>2, <1>3, UntouchedIsBalanced
<1> QED
    BY <1>2, <1>3, <1>4, <1>5, <1>6 DEF Delivers

LEMMA DispatcherNextDelivers ==
    ASSUME ServiceInv, DispatcherNext
    PROVE  Delivers /\ row' = row
<1>1. Delivers
    BY ClaimDelivers, AnswerDelivers, RecordDelivers, StopDelivers, ExpiryDelivers, DueDelivers
       DEF DispatcherNext, DispatcherStep
<1>2. row' = row
    BY DEF DispatcherNext, DispatcherStep, ClaimNextCallback, PostAccepted, PostAnswerLost,
           PostRefused, PostRejected, Answered, Record, CallbackSucceeded, CallbackFailed,
           CallbackConfigurationFailed, DispatcherStops, ClaimExpires, DeliveryDue
<1> QED
    BY <1>1, <1>2

-----------------------------------------------------------------------------
(* The invariant holds in every state of the service. *)

LEMMA ServiceStarts ==
    ASSUME ServiceInit
    PROVE  ServiceInv
<1>1. IInv
    BY InitIInv DEF ServiceInit
<1>2. DispatcherTypeOK
    BY DEF ServiceInit, DispatcherInit, DispatcherTypeOK, NoClaim
<1>3. \A r \in Runs : EventInv(r)
    BY DEF ServiceInit, Init, LedgerInit, DispatcherInit, EventInv, EventFits, NoClaim, AbsentRow,
           Unfinished
<1>4. \A d \in Dispatchers : DeliveryInv(d)
    BY DEF ServiceInit, DispatcherInit, DeliveryInv
<1>5. ASSUME NEW r \in Runs PROVE CopiesPaid(r)
  <2>1. Stale(r) = {}
      BY DEF ServiceInit, DispatcherInit, Stale
  <2>2. accepts[r] = 0 /\ deliveryFaults = 0
      BY DEF ServiceInit, DispatcherInit
  <2> QED
      BY <2>1, <2>2, FS_EmptySet DEF CopiesPaid
<1> QED
    BY <1>1, <1>2, <1>3, <1>4, <1>5 DEF ServiceInv

LEMMA ServiceStepKeeps ==
    ASSUME ServiceInv, [ServiceNext]_serviceVars
    PROVE  /\ ServiceInv'
           /\ \A r \in Runs : outbox[r].state \in SettledStates =>
                                outbox'[r].state = outbox[r].state
<1>1. CASE DispatcherNext /\ UNCHANGED <<sinkVars, workerVars>>
    BY <1>1, DispatcherNextDelivers, DeliversKeepsService DEF Delivers
<1>2. CASE [Next]_vars /\ UNCHANGED dispatcherVars
    BY <1>2, NextKeepsService
<1> QED
    BY <1>1, <1>2 DEF ServiceNext, serviceVars

\* The inductive invariant holds in every reachable state.
THEOREM ServiceInductive == ServiceSpec => []ServiceInv
<1>1. ServiceInv /\ [ServiceNext]_serviceVars => ServiceInv'
    BY ServiceStepKeeps
<1> QED
    BY ServiceStarts, <1>1, PTL DEF ServiceSpec

\* A caller woken by any copy of the event, however late, reads the outcome the
\* run ends with (callback.go:142-189, lifecycle_store.go:656-688).
THEOREM WakeupSeesOutcomeHolds == ServiceSpec => []WakeupSeesOutcome
<1>1. ServiceInv => WakeupSeesOutcome
    BY DEF ServiceInv, EventInv, WakeupSeesOutcome
<1> QED
    BY ServiceInductive, <1>1, PTL

\* An event is recorded as delivered only if the receiver took the wakeup
\* (callback.go:142-189, lifecycle_store.go:690-702).
THEOREM DeliveredWasAcceptedHolds == ServiceSpec => []DeliveredWasAccepted
<1>1. ServiceInv => DeliveredWasAccepted
    BY DEF ServiceInv, EventInv, DeliveredWasAccepted
<1> QED
    BY ServiceInductive, <1>1, PTL

\* However many dispatchers, lost claims and lost answers there are, the copies
\* a receiver accepts exceed the faults by one at most
\* (lifecycle_store.go:656-724).
THEOREM DuplicatesAreFaultsHolds == ServiceSpec => []DuplicatesAreFaults
<1>1. ServiceInv => DuplicatesAreFaults
  <2> SUFFICES ASSUME ServiceInv, NEW r \in Runs
               PROVE  accepts[r] <= 1 + deliveryFaults
      BY DEF DuplicatesAreFaults
  <2>1. CopiesPaid(r) /\ accepts[r] \in Nat /\ deliveryFaults \in Nat
      BY DEF ServiceInv, DispatcherTypeOK
  <2>2. PICK n \in Nat : n = Cardinality(Stale(r))
      BY <2>1, FS_CardinalityType DEF CopiesPaid
  <2>3. accepts[r] + n <= deliveryFaults + 1
      BY <2>1, <2>2 DEF CopiesPaid
  <2> QED
      BY <2>1, <2>3
<1> QED
    BY ServiceInductive, <1>1, PTL

\* The event of a run waits exactly as long as the run is unfinished: no
\* statement ends a run without arming its event (lifecycle_store.go:424-594).
THEOREM EventFollowsLedgerHolds == ServiceSpec => []EventFollowsLedger
<1>1. ServiceInv => EventFollowsLedger
  <2> SUFFICES ASSUME ServiceInv, NEW r \in CallbackRuns
               PROVE  (row[r].status \in Unfinished) <=> (outbox[r].state = "waiting")
      BY DEF EventFollowsLedger
  <2>1. EventInv(r) /\ row[r].status \in Status
      BY DEF ServiceInv, IInv, TypeOK, LedgerTypeOK, Row
  <2> QED
      BY <2>1 DEF EventInv, EventFits, Status, Unfinished
<1> QED
    BY ServiceInductive, <1>1, PTL

\* A settled event stays as it was settled (lifecycle_store.go:690-724).
THEOREM SettledIsFinalHolds == ServiceSpec => SettledIsFinal
<1>1. ServiceInv /\ [ServiceNext]_serviceVars =>
         [\A r \in Runs : outbox[r].state \in {"delivered", "configuration_failed"}
             => outbox'[r].state = outbox[r].state]_serviceVars
    BY ServiceStepKeeps DEF SettledStates
<1> QED
    BY ServiceInductive, <1>1, PTL DEF ServiceSpec, SettledIsFinal

\* With dispatchers beside it the service still implements the contract: no
\* statement on the outbox is a step of a run (lifecycle_store.go:656-724).
THEOREM ServiceImplementsContractHolds == ServiceSpec => ImplementsContract
<1>1. ServiceInit => OrphansAreStaged /\ Contract!Init
    BY StartsLikeContract DEF ServiceInit
<1>2. ServiceInv /\ OrphansAreStaged /\ [ServiceNext]_serviceVars
         => [Contract!Next]_ContractView /\ OrphansAreStaged'
  <2> SUFFICES ASSUME ServiceInv, OrphansAreStaged, [ServiceNext]_serviceVars
               PROVE  [Contract!Next]_ContractView /\ OrphansAreStaged'
      OBVIOUS
  <2>1. CASE DispatcherNext /\ UNCHANGED <<sinkVars, workerVars>>
    <3>1. row' = row /\ sink' = sink /\ orphan' = orphan
        BY <2>1, DispatcherNextDelivers DEF sinkVars
    <3> QED
        BY <3>1 DEF ContractView, OrphansAreStaged
  <2>2. CASE [Next]_vars
      BY <2>2, NextIsContractStep, OrphansStayStaged DEF ServiceInv
  <2> QED
      BY <2>1, <2>2 DEF ServiceNext, serviceVars
<1> QED
    BY ServiceInductive, <1>1, <1>2, PTL DEF ServiceSpec, ImplementsContract, Contract!Spec
=============================================================================
