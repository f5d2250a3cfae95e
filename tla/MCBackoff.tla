------------------------------ MODULE MCBackoff ------------------------------
(* One event, two dispatchers, a schedule of one delay and durations of six   *)
(* bits and a sign: a Retry-After of 13 seconds wraps to a negative delay, one *)
(* of 26 to a tiny one, and 64 is no integer of that width.                   *)
EXTENDS CallbackBackoff, TLC

MCSchedule == <<1>>
MCHeaders == {6, 13, 26, 64}
MCSymmetry == Permutations(Dispatchers)
=============================================================================
