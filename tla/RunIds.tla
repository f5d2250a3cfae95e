-------------------------------- MODULE RunIds --------------------------------
(* The run ids of the service: the key every component shares. *)
CONSTANTS
    Runs,   \* run ids a client may submit
    NoRun   \* the run of a process that works on none

ASSUME NoRunAssumption == NoRun \notin Runs
=============================================================================
