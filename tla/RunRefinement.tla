---------------------------- MODULE RunRefinement ----------------------------
(***************************************************************************)
(* RunWorker implements RunContract.  A run's status is its status column, *)
(* its result the response column, its cutoff publication_pending,   *)
(* and what is stored for it the row of the sink.                          *)
(***************************************************************************)
EXTENDS RunWorker

ContractView ==
    [r \in Runs |-> [status |-> row[r].status, result |-> row[r].response,
                     cutoff |-> row[r].pending, stored |-> sink[r]]]

Contract == INSTANCE RunContract WITH run <- ContractView

\* Every behaviour of ledger, workers and sink, with crashes, lost leases and
\* late MERGEs, is one the contract allows (README.md:121-124).
ImplementsContract == Contract!Spec
=============================================================================
