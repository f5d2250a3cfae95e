------------------------------ MODULE MCService ------------------------------
(* One run, two workers, two dispatchers. *)
EXTENDS Service
=============================================================================
