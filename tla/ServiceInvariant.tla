--------------------------- MODULE ServiceInvariant ---------------------------
(***************************************************************************)
(* The inductive invariant behind the safety properties of Service: what   *)
(* ties the event of a run to its row, to the claim on it and to the       *)
(* dispatchers that work under a claim, current or lost.                   *)
(***************************************************************************)
EXTENDS Service, RunInvariant, FiniteSets

DispatcherTypeOK ==
    /\ claim \in [Runs -> [holder: Dispatchers \union {NoDispatcher}, live: BOOLEAN]]
    /\ dpc \in [Dispatchers -> {"poll", "post", "succeeded", "retry", "config"}]
    /\ delivery \in [Dispatchers -> Runs \union {NoRun}]
    /\ accepts \in [Runs -> Nat]
    /\ seen \in [Runs -> SUBSET Status]
    /\ deliveryFaults \in Nat

SettledStates == {"delivered", "configuration_failed"}

\* The state of the event of a run with the given status.
EventFits(r, status, state) ==
    /\ r \notin CallbackRuns \/ status = "absent" => state = "none"
    /\ r \in CallbackRuns /\ status # "absent" =>
          /\ state # "none"
          /\ status \in Unfinished <=> state = "waiting"

\* How the event of r, its row, its claim and its history hang together.
EventInv(r) ==
    /\ EventFits(r, row[r].status, outbox[r].state)
    /\ claim[r].live => outbox[r].state = "delivering" /\ claim[r].holder \in Dispatchers
    /\ outbox[r].state = "delivered" => accepts[r] > 0
    /\ seen[r] # {} => row[r].status \in Terminal /\ seen[r] = {row[r].status}

\* What dispatcher d may rely on while it works on a delivery.
DeliveryInv(d) ==
    /\ dpc[d] # "poll" => delivery[d] \in Runs /\ row[delivery[d]].status \in Terminal
    /\ dpc[d] = "succeeded" => accepts[delivery[d]] > 0

\* Dispatcher d works on r under the claim that is in the row and in force.
Rightful(d, r) == claim[r].live /\ claim[r].holder = d /\ delivery[d] = r

\* The dispatchers about to post for r under a claim they lost: each one's loss
\* was counted as a fault, and pays for the copy it may still deliver.
Stale(r) == {d \in Dispatchers : dpc[d] = "post" /\ delivery[d] = r /\ ~Rightful(d, r)}

\* One accepted copy needs no fault: the one that settles the event.
Earned(r) ==
    \/ outbox[r].state \in SettledStates
    \/ \E d \in Dispatchers : dpc[d] = "succeeded" /\ Rightful(d, r)

\* Accepted copies, and those that lost claims may still add, are paid for.
CopiesPaid(r) ==
    /\ IsFiniteSet(Stale(r))
    /\ accepts[r] + Cardinality(Stale(r)) <= deliveryFaults + (IF Earned(r) THEN 1 ELSE 0)

\* The inductive invariant of ServiceSpec.
ServiceInv ==
    /\ IInv
    /\ DispatcherTypeOK
    /\ \A r \in Runs : EventInv(r)
    /\ \A d \in Dispatchers : DeliveryInv(d)
    /\ \A r \in Runs : CopiesPaid(r)
=============================================================================
