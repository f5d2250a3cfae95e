---------------------------- MODULE MCEvaluators ----------------------------
(***************************************************************************)
(* Candidates of both evaluators.  For the WAF: rules with every           *)
(* quantifier around a limit of two, of one or two targets, and requests   *)
(* whose parts hold texts of every length and encoding.  For the firewall: *)
(* every compact rule, and every sequence of up to three options, over one *)
(* network and the ports up to two.                                        *)
(***************************************************************************)
EXTENDS Evaluators

CONSTANTS h1, h2

----------------------------------------------------------------------------
(* WAF rules and requests *)

MCTargets == Whole \union {"ARGS:", "REMOTE_ADDR"}
Target(kind, name) == <<kind, name>>
Accepted ==
    {<<Target(k, "")>> : k \in Whole}
      \union {<<Target("ARGS:", "a")>>, <<Target("ARGS", ""), Target("REQUEST_HEADERS", "")>>}
Rejected ==
    {<<>>, <<Target("REMOTE_ADDR", "")>>, <<Target("ARGS:", "")>>,
     <<Target("ARGS", ""), Target("ARGS", ""), Target("ARGS", "")>>}
MCBounds ==
    [kind: {"exact", "open"}, lo: 0..3, hi: {0}] \union [kind: {"closed"}, lo: 0..3, hi: 0..3]
AnyGap == [kind |-> "open", lo |-> 0, hi |-> 0]
MCRules ==
    {[targets |-> ts, bounds |-> b, rx |-> TRUE, action |-> "deny"] : ts \in Accepted, b \in MCBounds}
      \union {[targets |-> ts, bounds |-> AnyGap, rx |-> TRUE, action |-> "deny"] : ts \in Rejected}
      \union {[targets |-> <<Target("ARGS", "")>>, bounds |-> AnyGap, rx |-> rx, action |-> action] :
                 rx \in BOOLEAN, action \in {"deny", "pass"}}

One == [gap: 1..3, coded: 0..2]
Texts == {{}} \union {{t} : t \in One}
Nothing == [n \in {"a", "b"} |-> {}]
Only(n, s) == [Nothing EXCEPT ![n] = s]
PlainRequest == [body |-> Empty, uri |-> [gap |-> 0, coded |-> 2], headers |-> Nothing,
          nameText |-> [n \in {"a", "b"} |-> [gap |-> 0, coded |-> 2]],
          form |-> Nothing, query |-> Nothing, formParses |-> TRUE, uriParses |-> TRUE]
MCRequests ==
    {[PlainRequest EXCEPT !.form = Only("a", f), !.query = Only("a", q)] : f \in Texts, q \in Texts}
      \union {[PlainRequest EXCEPT !.form = Only("a", f), !.formParses = FALSE] : f \in Texts}
      \union {[PlainRequest EXCEPT !.headers = Only("b", s)] : s \in Texts}
      \union {[PlainRequest EXCEPT !.body = b] : b \in One}
      \union {[PlainRequest EXCEPT !.uri = t, !.uriParses = p, !.nameText[n] = t, !.query = Only(n, {t})] :
                t \in One, p \in BOOLEAN, n \in {"a", "b"}}

----------------------------------------------------------------------------
(* Firewall rules *)

MCNets == {{h1}}
Ival(a, b) == [any |-> FALSE, ok |-> TRUE, lo |-> a, hi |-> b]
MCPortLists == {<<Ival(1, 1)>>, <<Ival(2, 1)>>, <<Ival(0, 1), Ival(2, 2)>>,
                <<Ival(2, 1), Ival(2, 2)>>,
                <<Ival(1, 1), [any |-> FALSE, ok |-> FALSE, lo |-> 0, hi |-> 0]>>}
=============================================================================
