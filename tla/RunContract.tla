------------------------------ MODULE RunContract ------------------------------
(***************************************************************************)
(* What a client may rely on, without leases, workers, retries or MERGEs:  *)
(* the transitions README.md:121-124 lists, one immutable result, and the  *)
(* publication cutoff after which a run can no longer be canceled.  Each   *)
(* run evolves on its own.  RunRefinement shows that the ledger, the       *)
(* workers and the sink implement this contract.                           *)
(***************************************************************************)
EXTENDS Naturals, RunIds

CONSTANTS
    ForeignRuns,  \* runs whose result_id another writer may take
    Foreign       \* what such a writer stores

VARIABLE
    run  \* run[r]: status as the API shows it, the one canonical result,
         \* whether r is being published, and what the sink holds for r

None == 0

New == [status |-> "absent", result |-> None, cutoff |-> FALSE, stored |-> None]

Init == run = [r \in Runs |-> New]

-----------------------------------------------------------------------------
(* The steps a run may take from o to n. *)

Accept(o, n) == o.status = "absent" /\ n = [o EXCEPT !.status = "queued"]

Start(o, n) == o.status = "queued" /\ n = [o EXCEPT !.status = "running"]

\* The check's verdict becomes the result of the run, once.
Settle(o, n) ==
    /\ o.status = "running" /\ o.result = None
    /\ n.result \in Nat \ {None}
    /\ n = [o EXCEPT !.result = n.result]

BeginPublication(o, n) ==
    /\ o.status = "running" /\ o.result # None /\ ~o.cutoff
    /\ n = [o EXCEPT !.cutoff = TRUE]

\* The sink takes the result while it is being published, or later, when the
\* run already failed and the write was still on its way.
Store(o, n) ==
    /\ o.cutoff \/ o.status = "failed"
    /\ o.result # None /\ o.stored = None
    /\ n = [o EXCEPT !.stored = o.result]

Usurp(o, n) == o.stored = None /\ n = [o EXCEPT !.stored = Foreign]

\* running -> queued, for a publication that could not be confirmed yet.
Requeue(o, n) ==
    /\ o.status = "running" /\ o.cutoff
    /\ n = [o EXCEPT !.status = "queued"]

Complete(o, n) ==
    /\ o.status = "running" /\ o.cutoff
    /\ o.result # None /\ o.stored = o.result
    /\ n = [o EXCEPT !.status = "completed", !.cutoff = FALSE]

\* A run may fail with the report of a malfunction, unless it has a result.
FailRun(o, n) ==
    /\ o.status = "running"
    /\ n.result = o.result \/ (o.result = None /\ n.result \in Nat)
    /\ n = [o EXCEPT !.status = "failed", !.cutoff = FALSE, !.result = n.result]

CancelRun(o, n) ==
    /\ o.status \in {"queued", "running"} /\ ~o.cutoff
    /\ n = [o EXCEPT !.status = "canceled"]

Step(r, o, n) ==
    \/ Accept(o, n)   \/ Start(o, n)    \/ Settle(o, n)
    \/ BeginPublication(o, n)           \/ Store(o, n)
    \/ Requeue(o, n)  \/ Complete(o, n) \/ FailRun(o, n) \/ CancelRun(o, n)
    \/ r \in ForeignRuns /\ Usurp(o, n)

Next ==
    /\ run' = [r \in Runs |-> run'[r]]
    /\ \A r \in Runs : run'[r] = run[r] \/ Step(r, run[r], run'[r])

Spec == Init /\ [][Next]_run
=============================================================================
