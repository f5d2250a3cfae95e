------------------------------ MODULE RunLedger ------------------------------
(***************************************************************************)
(* The mitigation_check_run table (api/lifecycle_store.go) and the SQL     *)
(* statements the run worker and the HTTP handlers issue against it.  Each *)
(* statement is one PostgreSQL transaction, so each is one action here.  A *)
(* statement takes effect when its WHERE clause selects the row; the       *)
(* caller of a statement that selects nothing says what happens then.      *)
(*                                                                         *)
(* Abstractions.  Result bytes are named by the lease token of the         *)
(* execution that produced them, so two executions never yield equal       *)
(* bytes (each outcome carries its own timestamps).  A comparison of a     *)
(* timestamp column with now() is a Boolean that clock actions of the      *)
(* modules above flip: leaseLive for lease_expires_at > now(), retryDue    *)
(* for publication_retry_at <= now().  Progress texts, failure details and *)
(* timestamps that no WHERE clause reads are left out.                     *)
(***************************************************************************)
EXTENDS Naturals, RunIds

CONSTANTS
    CallbackRuns,     \* the runs submitted with X-Janus-Callback-* headers
    Workers,          \* run worker processes (one per replica)
    NoWorker,         \* worker_id IS NULL
    MaxAttempts,      \* RunWorker.maxAttempts
    MaxVerifications  \* RunWorker.maxVerificationAttempts

ASSUME LedgerAssumption ==
    /\ CallbackRuns \subseteq Runs
    /\ NoWorker \notin Workers
    /\ MaxAttempts \in Nat \ {0}
    /\ MaxVerifications \in Nat \ {0}

VARIABLES
    row,    \* row[r]: the lifecycle columns of r
    outbox  \* outbox[r]: callback_state of r, and whether callback_next_at <= now()

ledgerVars == <<row, outbox>>

NoBytes == 0   \* an empty response / result_payload column
NoToken == 0   \* lease_token IS NULL

Terminal   == {"completed", "failed", "canceled"}
Unfinished == {"queued", "running"}
Status     == {"absent"} \union Unfinished \union Terminal

CallbackState ==
    {"none", "waiting", "pending", "delivering", "retry", "delivered",
     "configuration_failed"}

Row == [status:    Status,
        cancel:    BOOLEAN,                       \* cancel_requested
        attempt:   Nat,
        owner:     Workers \union {NoWorker},     \* worker_id
        token:     Nat,                           \* lease_token
        leaseLive: BOOLEAN,
        response:  Nat,
        payload:   Nat,                           \* result_payload
        ref:       BOOLEAN,                       \* the staged result has a result_ref
        pending:   BOOLEAN,                       \* publication_pending
        verified:  Nat,                           \* verification_attempt
        retryDue:  BOOLEAN]

LedgerTypeOK ==
    /\ row \in [Runs -> Row]
    /\ outbox \in [Runs -> [state: CallbackState, due: BOOLEAN]]

AbsentRow ==
    [status |-> "absent", cancel |-> FALSE, attempt |-> 0, owner |-> NoWorker,
     token |-> NoToken, leaseLive |-> FALSE, response |-> NoBytes,
     payload |-> NoBytes, ref |-> FALSE, pending |-> FALSE, verified |-> 0,
     retryDue |-> TRUE]

LedgerInit ==
    /\ row = [r \in Runs |-> AbsentRow]
    /\ outbox = [r \in Runs |-> [state |-> "none", due |-> FALSE]]

-----------------------------------------------------------------------------
(* Helpers shared by the statements. *)

\* The token fence every worker statement carries ...
Holds(r, w, t) ==
    /\ row[r].status = "running"
    /\ row[r].owner = w
    /\ row[r].token = t

\* ... and the fence of every statement but MarkCanceled.
HoldsLive(r, w, t) == Holds(r, w, t) /\ row[r].leaseLive

\* A row o after a statement that ends its lease with the given status.
Released(o, status) ==
    [o EXCEPT !.status = status, !.owner = NoWorker, !.token = NoToken,
              !.leaseLive = FALSE]

\* callback_state and callback_next_at as every terminal statement sets them.
EventReady(S) ==
    outbox' = [r \in Runs |->
                 IF r \in S /\ outbox[r].state # "none"
                 THEN [state |-> "pending", due |-> TRUE]
                 ELSE outbox[r]]

\* UPDATE ... WHERE run_id = r that does not end the run.
Update(r, o) ==
    /\ row' = [row EXCEPT ![r] = o]
    /\ UNCHANGED outbox

\* UPDATE ... WHERE run_id = r that ends the run as o.
Finish(r, o) ==
    /\ row' = [row EXCEPT ![r] = o]
    /\ EventReady({r})

\* Wrong on purpose: the polling statements forget the callback event.
FinishAllQuietly(S, status) ==
    /\ row' = [r \in Runs |-> IF r \in S THEN Released(row[r], status) ELSE row[r]]
    /\ UNCHANGED outbox

\* One UPDATE without a run_id: every row of S becomes Released(.., status).
FinishAll(S, status) ==
    /\ row' = [r \in Runs |-> IF r \in S THEN Released(row[r], status) ELSE row[r]]
    /\ EventReady(S)

-----------------------------------------------------------------------------
(* The migration NewRunStore runs when a process starts: rows of an older    *)
(* release, and failed runs, have a response but no result_payload yet.  The *)
(* rebuilt bytes stand for the same outcome and keep its name.               *)

LacksPayload(r) == row[r].payload = NoBytes /\ row[r].response # NoBytes

\* The bytes of a run that was or may be published cannot be rebuilt.
StartRefused ==
    \E r \in Runs : LacksPayload(r) /\ (row[r].pending \/ row[r].status = "completed")

Backfill ==
    /\ ~StartRefused
    /\ row' = [r \in Runs |-> IF LacksPayload(r)
                              THEN [row[r] EXCEPT !.payload = row[r].response]
                              ELSE row[r]]
    /\ UNCHANGED outbox

-----------------------------------------------------------------------------
(* Statements of the HTTP handlers. *)

\* CreateOrGet for a request_id that is not in the table yet.
CreateRow(r) ==
    /\ row[r].status = "absent"
    /\ row' = [row EXCEPT ![r].status = "queued"]
    /\ outbox' = [outbox EXCEPT ![r] =
                    [state |-> IF r \in CallbackRuns THEN "waiting" ELSE "none",
                     due |-> TRUE]]

\* Wrong on purpose: only a running run is spared, an ended one is not.
CancelUnlessRunning(r) ==
    /\ row[r].status # "absent"
    /\ LET requested == [row[r] EXCEPT !.cancel = TRUE]
       IN  \/ /\ row[r].status # "running" /\ ~row[r].pending
              /\ Finish(r, [requested EXCEPT !.status = "canceled"])
           \/ /\ row[r].status = "running" \/ row[r].pending
              /\ Update(r, requested)

\* Cancel: a queued run that is not being published ends at once, any other
\* unfinished run only records the request.
CancelRow(r) ==
    /\ row[r].status \in Unfinished
    /\ LET requested == [row[r] EXCEPT !.cancel = TRUE]
       IN  \/ /\ row[r].status = "queued" /\ ~row[r].pending
              /\ Finish(r, [requested EXCEPT !.status = "canceled"])
           \/ /\ row[r].status = "running" \/ row[r].pending
              /\ Update(r, requested)

-----------------------------------------------------------------------------
(* Statements of the worker's polling loop. *)

\* Wrong on purpose: an expired lease is canceled past the publication cutoff.
CancelRecoverableAnyTime(r) ==
    row[r].status = "running" /\ ~row[r].leaseLive /\ row[r].cancel

CancelRecoverable(r) ==
    /\ row[r].status = "running" /\ ~row[r].leaseLive
    /\ row[r].cancel /\ ~row[r].pending

RecoverCanceled == FinishAll({r \in Runs : CancelRecoverable(r)}, "canceled")

\* Wrong on purpose: off by one against LeaseNext's attempt < maxAttempts.
ExhaustedTooLate(r) ==
    /\ row[r].status = "running" /\ ~row[r].leaseLive
    /\ ~row[r].cancel
    /\ row[r].response = NoBytes
    /\ row[r].attempt > MaxAttempts

Exhausted(r) ==
    /\ row[r].status = "running" /\ ~row[r].leaseLive
    /\ ~row[r].cancel
    /\ row[r].response = NoBytes
    /\ row[r].attempt >= MaxAttempts

FailExhausted == FinishAll({r \in Runs : Exhausted(r)}, "failed")

\* Wrong on purpose: a staged result does not exempt a run from the budget.
LeasableWithinBudget(r) ==
    /\ ~row[r].cancel \/ row[r].pending
    /\ row[r].attempt < MaxAttempts
    /\ row[r].retryDue
    /\ \/ row[r].status = "queued"
       \/ row[r].status = "running" /\ ~row[r].leaseLive

\* Wrong on purpose: one execution too many.
LeasableOnceMore(r) ==
    /\ ~row[r].cancel \/ row[r].pending
    /\ row[r].attempt <= MaxAttempts \/ row[r].response # NoBytes
    /\ row[r].retryDue
    /\ \/ row[r].status = "queued"
       \/ row[r].status = "running" /\ ~row[r].leaseLive

Leasable(r) ==
    /\ ~row[r].cancel \/ row[r].pending
    /\ row[r].attempt < MaxAttempts \/ row[r].response # NoBytes
    /\ row[r].retryDue
    /\ \/ row[r].status = "queued"
       \/ row[r].status = "running" /\ ~row[r].leaseLive

\* LeaseNext takes the oldest leasable row that no other statement has locked
\* (FOR UPDATE SKIP LOCKED), so any leasable row may be the one taken.  The
\* fresh lease token is named by the attempt it starts.
LeaseRow(r, w) ==
    /\ Leasable(r)
    /\ Update(r, [row[r] EXCEPT !.status = "running", !.owner = w,
                                !.token = row[r].attempt + 1,
                                !.attempt = row[r].attempt + 1,
                                !.leaseLive = TRUE, !.retryDue = TRUE])

-----------------------------------------------------------------------------
(* Statements of executeOne, fenced by the lease token t of worker w. *)

\* Wrong on purpose: any worker that executed the run may stage its outcome.
StageUnfenced(r, w, t) == row[r].status = "running" /\ ~row[r].cancel

StageFence(r, w, t) ==
    /\ HoldsLive(r, w, t)
    /\ ~row[r].cancel
    /\ row[r].response = NoBytes

\* Wrong on purpose: staging leaves the exact bytes to be rebuilt later.
StageProjection(r, w, t, bytes, ref) ==
    /\ StageFence(r, w, t)
    /\ Update(r, [row[r] EXCEPT !.response = bytes, !.ref = ref])

StageOutcome(r, w, t, bytes, ref) ==
    /\ StageFence(r, w, t)
    /\ Update(r, [row[r] EXCEPT !.response = bytes, !.payload = bytes, !.ref = ref])

PendingFence(r, w, t) ==
    /\ HoldsLive(r, w, t)
    /\ ~row[r].cancel
    /\ ~row[r].pending

MarkPublicationPending(r, w, t) ==
    /\ PendingFence(r, w, t)
    /\ Update(r, [row[r] EXCEPT !.pending = TRUE, !.retryDue = TRUE])

CompleteFence(r, w, t) == HoldsLive(r, w, t)

\* Wrong on purpose: publication_pending is not reset.
CompleteStillPending(r, w, t, bytes) ==
    /\ CompleteFence(r, w, t)
    /\ Finish(r, [Released(row[r], "completed") EXCEPT
                    !.response = bytes, !.payload = bytes, !.retryDue = TRUE])

CompletePublished(r, w, t, bytes) ==
    /\ CompleteFence(r, w, t)
    /\ Finish(r, [Released(row[r], "completed") EXCEPT
                    !.response = bytes, !.payload = bytes,
                    !.pending = FALSE, !.retryDue = TRUE])

FailFence(r, w, t) == HoldsLive(r, w, t)

Fail(r, w, t) ==
    /\ FailFence(r, w, t)
    /\ Finish(r, Released(row[r], "failed"))

FailOutcomeFence(r, w, t) == HoldsLive(r, w, t) /\ ~row[r].cancel

\* FailOutcome writes the response column but not result_payload.
FailOutcome(r, w, t, bytes) ==
    /\ FailOutcomeFence(r, w, t)
    /\ Finish(r, [Released(row[r], "failed") EXCEPT !.response = bytes])

FailPublicationConflict(r, w, t) ==
    /\ FailFence(r, w, t)
    /\ Finish(r, [Released(row[r], "failed") EXCEPT !.pending = FALSE])

CancelFence(r, w, t) ==
    /\ Holds(r, w, t)
    /\ row[r].cancel
    /\ ~row[r].pending

MarkCanceled(r, w, t) ==
    /\ CancelFence(r, w, t)
    /\ Finish(r, Released(row[r], "canceled"))

RetryFence(r, w, t) == HoldsLive(r, w, t) /\ row[r].pending

\* RetryVerification re-queues the run for another look at the sink until
\* MaxVerifications looks have been spent, and fails it then.
RetryVerification(r, w, t) ==
    /\ RetryFence(r, w, t)
    /\ LET looked == [row[r] EXCEPT !.verified = row[r].verified + 1]
       IN  \/ /\ looked.verified >= MaxVerifications
              /\ Finish(r, [Released(looked, "failed") EXCEPT
                              !.pending = FALSE, !.retryDue = TRUE])
           \/ /\ looked.verified < MaxVerifications
              /\ Update(r, [Released(looked, "queued") EXCEPT
                              !.pending = TRUE, !.retryDue = FALSE])
=============================================================================
