-------------------------------- MODULE MCRun --------------------------------
(* RunWorker, its properties and the contract it implements, on one run. *)
EXTENDS RunInvariant, RunRefinement
=============================================================================
