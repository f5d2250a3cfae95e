--------------------------- MODULE CallbackDispatcher ---------------------------
(***************************************************************************)
(* The callback dispatcher (api/callback.go) and the outbox statements it  *)
(* issues against the ledger (lifecycle_store.go:656-724): claim a due     *)
(* event of an ended run under a lease, POST the wakeup, record what came  *)
(* back.  Several replicas run one dispatcher each.                        *)
(*                                                                         *)
(* A claim's token is fresh and a dispatcher holds one claim at a time, so *)
(* claim[r].holder = d says that the token in the row is the one d works   *)
(* under.  callback_attempt only selects the next delay: CallbackBackoff   *)
(* models it, with the durations that are a Boolean "due" here.            *)
(* The receiver is outside the repository: a POST may be accepted (202),   *)
(* rejected for good, refused for now or never reach it, and an accepted   *)
(* POST may be answered too late for the 15 second client timeout.         *)
(***************************************************************************)
EXTENDS RunLedger

CONSTANTS
    Dispatchers,        \* callback dispatcher processes (one per replica)
    NoDispatcher,       \* callback_lease_token IS NULL
    Authorized,         \* the dispatchers with CAPABILITY_CALLBACK_TOKEN set
    MaxDeliveryFaults   \* bound: lost answers, dispatcher crashes, lost claims

ASSUME DispatcherAssumption ==
    /\ NoDispatcher \notin Dispatchers
    /\ Authorized \subseteq Dispatchers
    /\ MaxDeliveryFaults \in Nat

VARIABLES
    claim,           \* claim[r]: callback_lease_token and callback_lease_expires_at
    dpc,             \* dpc[d]: what dispatcher d does next
    delivery,        \* delivery[d]: the run whose event d delivers
    accepts,         \* accepts[r]: how often the receiver took the wakeup of r
    seen,            \* seen[r]: statuses a caller polling on a wakeup could read
    deliveryFaults

dispatcherVars == <<claim, dpc, delivery, accepts, seen, deliveryFaults>>

NoClaim == [holder |-> NoDispatcher, live |-> FALSE]

DispatcherInit ==
    /\ claim = [r \in Runs |-> NoClaim]
    /\ dpc = [d \in Dispatchers |-> "poll"]
    /\ delivery = [d \in Dispatchers |-> NoRun]
    /\ accepts = [r \in Runs |-> 0]
    /\ seen = [r \in Runs |-> {}]
    /\ deliveryFaults = 0

-----------------------------------------------------------------------------

DeliveryFault ==
    /\ deliveryFaults < MaxDeliveryFaults
    /\ deliveryFaults' = deliveryFaults + 1

\* Wrong on purpose: another dispatcher's live claim is ignored.
ClaimableTwice(r) ==
    /\ row[r].status \in Terminal
    /\ outbox[r].state \in {"pending", "retry", "delivering"}
    /\ outbox[r].due

\* Wrong on purpose: an event whose dispatcher died is never claimed again.
ClaimableFresh(r) ==
    /\ row[r].status \in Terminal
    /\ outbox[r].state \in {"pending", "retry"}
    /\ outbox[r].due
    /\ ~claim[r].live

Claimable(r) ==
    /\ row[r].status \in Terminal
    /\ outbox[r].state \in {"pending", "retry", "delivering"}
    /\ outbox[r].due
    /\ ~claim[r].live

\* ClaimNextCallback; SKIP LOCKED lets it take any claimable event.
ClaimNextCallback(d) ==
    /\ dpc[d] = "poll"
    /\ \E r \in Runs :
        /\ Claimable(r)
        /\ outbox' = [outbox EXCEPT ![r].state = "delivering"]
        /\ claim' = [claim EXCEPT ![r] = [holder |-> d, live |-> TRUE]]
        /\ delivery' = [delivery EXCEPT ![d] = r]
    /\ dpc' = [dpc EXCEPT ![d] = "post"]
    /\ UNCHANGED <<row, accepts, seen, deliveryFaults>>

Answered(d, label) ==
    /\ dpc[d] = "post"
    /\ dpc' = [dpc EXCEPT ![d] = label]
    /\ UNCHANGED <<row, outbox, claim, delivery>>

\* The receiver took the wakeup: its caller may now poll the run's status.
Woken(r) ==
    /\ accepts' = [accepts EXCEPT ![r] = accepts[r] + 1]
    /\ seen' = [seen EXCEPT ![r] = seen[r] \union {row[r].status}]

PostAccepted(d) ==
    /\ d \in Authorized
    /\ Answered(d, "succeeded")
    /\ Woken(delivery[d])
    /\ UNCHANGED deliveryFaults

PostAnswerLost(d) ==
    /\ d \in Authorized
    /\ Answered(d, "retry")
    /\ Woken(delivery[d])
    /\ DeliveryFault

\* Wrong on purpose: any answer counts as a delivery.
PostRefusedTaken(d) ==
    /\ d \in Authorized
    /\ Answered(d, "succeeded")
    /\ UNCHANGED <<accepts, seen, deliveryFaults>>

\* A retryable status, or the request never arrived.
PostRefused(d) ==
    /\ d \in Authorized
    /\ Answered(d, "retry")
    /\ UNCHANGED <<accepts, seen, deliveryFaults>>

\* No token to send, or a status that is not retryable.
PostRejected(d) ==
    /\ Answered(d, "config")
    /\ UNCHANGED <<accepts, seen, deliveryFaults>>

\* Wrong on purpose: the claim's token is not compared.
CallbackUnfenced(r, d) == row[r].status \in Terminal

CallbackFence(r, d) == outbox[r].state = "delivering" /\ claim[r].holder = d

\* CallbackSucceeded, CallbackFailed and CallbackConfigurationFailed: an UPDATE
\* fenced by the claim's token, whose refusal is only logged.
Record(d, label, state, due) ==
    LET r == delivery[d] IN
    /\ dpc[d] = label
    /\ IF CallbackFence(r, d)
       THEN /\ outbox' = [outbox EXCEPT ![r] = [state |-> state, due |-> due]]
            /\ claim' = [claim EXCEPT ![r] = NoClaim]
       ELSE UNCHANGED <<outbox, claim>>
    /\ dpc' = [dpc EXCEPT ![d] = "poll"]
    /\ delivery' = [delivery EXCEPT ![d] = NoRun]
    /\ UNCHANGED <<row, accepts, seen, deliveryFaults>>

CallbackSucceeded(d)           == Record(d, "succeeded", "delivered", TRUE)
CallbackFailed(d)              == Record(d, "retry", "retry", FALSE)
CallbackConfigurationFailed(d) == Record(d, "config", "configuration_failed", TRUE)

\* The dispatcher stops between two of its steps, or a statement it issued
\* failed: the claim stays until it expires.
DispatcherStops(d) ==
    /\ dpc[d] # "poll"
    /\ DeliveryFault
    /\ dpc' = [dpc EXCEPT ![d] = "poll"]
    /\ delivery' = [delivery EXCEPT ![d] = NoRun]
    /\ UNCHANGED <<row, outbox, claim, accepts, seen>>

Delivering(r) == \E d \in Dispatchers : delivery[d] = r /\ claim[r].holder = d

ClaimExpires(r) ==
    /\ claim[r].live
    /\ \/ ~Delivering(r) /\ UNCHANGED deliveryFaults
       \/ Delivering(r) /\ DeliveryFault
    /\ claim' = [claim EXCEPT ![r].live = FALSE]
    /\ UNCHANGED <<row, outbox, dpc, delivery, accepts, seen>>

DeliveryDue(r) ==
    /\ outbox[r].state = "retry" /\ ~outbox[r].due
    /\ outbox' = [outbox EXCEPT ![r].due = TRUE]
    /\ UNCHANGED <<row, dispatcherVars>>

DispatcherStep(d) ==
    \/ ClaimNextCallback(d)
    \/ PostAccepted(d) \/ PostRefused(d) \/ PostRejected(d)
    \/ CallbackSucceeded(d) \/ CallbackFailed(d) \/ CallbackConfigurationFailed(d)

DispatcherNext ==
    \/ \E d \in Dispatchers :
          DispatcherStep(d) \/ PostAnswerLost(d) \/ DispatcherStops(d)
    \/ \E r \in Runs : ClaimExpires(r) \/ DeliveryDue(r)

\* The dispatcher goroutine is scheduled, the database clock moves on, and a
\* receiver that is tried again and again answers for good in the end.
DispatcherFairness ==
    /\ \A d \in Dispatchers :
        /\ WF_<<ledgerVars, dispatcherVars>>(DispatcherStep(d))
        /\ SF_<<ledgerVars, dispatcherVars>>(PostAccepted(d) \/ PostRejected(d))
    /\ \A r \in Runs :
        /\ WF_<<ledgerVars, dispatcherVars>>(~Delivering(r) /\ ClaimExpires(r))
        /\ WF_<<ledgerVars, dispatcherVars>>(DeliveryDue(r))
=============================================================================
