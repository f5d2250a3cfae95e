------------------------------- MODULE Service -------------------------------
(***************************************************************************)
(* The service as main.go wires it: clients, run workers and callback      *)
(* dispatchers over one ledger, with the result sink beside it.            *)
(***************************************************************************)
EXTENDS RunWorker, CallbackDispatcher

serviceVars == <<vars, dispatcherVars>>

ServiceInit == Init /\ DispatcherInit

ServiceNext ==
    \/ Next /\ UNCHANGED dispatcherVars
    \/ DispatcherNext /\ UNCHANGED <<sinkVars, workerVars>>

ServiceSpec == ServiceInit /\ [][ServiceNext]_serviceVars

ServiceLiveSpec ==
    ServiceSpec /\ Fairness /\ ExecutorsReturn /\ DispatcherFairness

-----------------------------------------------------------------------------

\* A caller woken by any copy of the event, however late, reads the outcome the
\* run ends with (mitigation-check-lld.md:85-87, ClaimNextCallback's status test).
WakeupSeesOutcome ==
    \A r \in Runs : seen[r] # {} => row[r].status \in Terminal /\ seen[r] = {row[r].status}

\* "delivered" is only ever recorded for a wakeup the receiver accepted.
DeliveredWasAccepted ==
    \A r \in Runs : outbox[r].state = "delivered" => accepts[r] > 0

\* Duplicate wakeups have a cause: each accepted copy after the first is paid
\* for by a lost answer, a stopped dispatcher or a claim lost while in use.
DuplicatesAreFaults == \A r \in Runs : accepts[r] <= 1 + deliveryFaults

\* The event stays "waiting" exactly as long as the run is unfinished: the
\* statement that ends a run arms its event (mitigation-check-lld.md:77-79).
EventFollowsLedger ==
    \A r \in CallbackRuns :
        (row[r].status \in Unfinished) <=> (outbox[r].state = "waiting")

\* A settled event is never armed or delivered again, by any statement of a
\* worker, a client or a stale dispatcher.
SettledIsFinal ==
    [][\A r \in Runs : outbox[r].state \in {"delivered", "configuration_failed"}
          => outbox'[r].state = outbox[r].state]_serviceVars

\* Every run submitted with a callback ends with its event settled, once faults
\* stop and the receiver answers.
CallerIsWoken ==
    \A r \in CallbackRuns :
        row[r].status = "queued" ~>
            outbox[r].state \in {"delivered", "configuration_failed"}
=============================================================================
