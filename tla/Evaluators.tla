----------------------------- MODULE Evaluators -----------------------------
(***************************************************************************)
(* executeScenario (executor.go) gives a candidate to one of the two       *)
(* evaluators that keep no state between requests: in the firewall mode to *)
(* the firewall evaluator, in every other mode to the WAF, in this process *)
(* or on a runner that calls executeScenario itself.  The other evaluator  *)
(* rests.                                                                  *)
(***************************************************************************)
EXTENDS WafRule, Firewall

CONSTANTS Modes, FirewallMode

ASSUME ModeAssumption == FirewallMode \in Modes

VARIABLE mode       \* req.ExecutionMode after its default

evaluatorsVars == <<mode, vars, firewallVars>>

\* An evaluator that rests has refused its candidate, and reaches no verdict.
WafRests ==
    /\ written = "none" /\ request = "none" /\ bounds = "none"
    /\ clamped = FALSE
    /\ phase = "refused"
FirewallRests ==
    /\ engine = "none" /\ override = "" /\ compact = "none"
    /\ options = <<>> /\ pos = 1
    /\ rule = NewRule /\ target = ""
    /\ stage = "refused"

EvaluatorsInit ==
    /\ mode \in Modes
    /\ IF mode = FirewallMode THEN FirewallInit /\ WafRests ELSE Init /\ FirewallRests

EvaluateFirewall ==
    /\ mode = FirewallMode
    /\ FirewallNext
    /\ UNCHANGED <<mode, vars>>

EvaluateWaf ==
    /\ mode # FirewallMode
    /\ Next
    /\ UNCHANGED <<mode, firewallVars>>

EvaluatorsNext == EvaluateFirewall \/ EvaluateWaf

EvaluatorsSpec == EvaluatorsInit /\ [][EvaluatorsNext]_evaluatorsVars
=============================================================================
