-------------------------- MODULE MCSharedContract --------------------------
(***************************************************************************)
(* The documents for the checks and the documents for the control, in      *)
(* numbered families so that TLC need not compare those of different ones. *)
(***************************************************************************)
EXTENDS MCSharedDocuments, MCSharedControl

MCDocuments ==
    {c[2] : c \in ({1} \X DocumentCases) \union ({2} \X ControlCases)}
=============================================================================
