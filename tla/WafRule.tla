------------------------------ MODULE WafRule ------------------------------
(***************************************************************************)
(* The WAF of executeScenario (executor.go): a candidate SecRule is        *)
(* compiled for Go's RE2 and evaluated on the test request.                *)
(*                                                                         *)
(* A pattern looks for two marks with a bounded number of characters       *)
(* between them.  A text is that number (its gap) and how often the marks  *)
(* are URL-encoded, or Empty.  The order in which targets and values are   *)
(* tried only decides which text the step log names: values are sets.      *)
(***************************************************************************)
EXTENDS Integers, Sequences, FiniteSets

CONSTANTS
    MaxRepeat,      \* re2MaxRepeat
    MaxTargets,     \* longest target expression
    MaxGap,         \* longest gap of a text (bound of the model)
    Names,          \* names of arguments and headers
    Targets,        \* targets that rules name
    Rules,          \* candidate rules
    HttpRequests,   \* test requests
    Empty           \* the empty text

Whole == {"REQUEST_BODY", "REQUEST_URI", "REQUEST_HEADERS", "ARGS", "ARGS_NAMES"}
Text == [gap: 0..MaxGap, coded: 0..2]
Bounds == [kind: {"exact", "open", "closed"}, lo: Nat, hi: Nat]

ASSUME WafAssumption ==
    /\ MaxRepeat \in Nat /\ MaxTargets \in Nat /\ MaxGap \in Nat
    /\ Empty \notin Text

ASSUME RuleAssumption ==
    /\ \A r \in Rules : /\ r.bounds \in Bounds
                        /\ r.targets \in Seq(Targets \X (Names \union {""}))
                        /\ r.rx \in BOOLEAN /\ r.action \in {"deny", "pass"}
    /\ \A q \in HttpRequests :
         /\ q.body \in Text \union {Empty} /\ q.uri \in Text \union {Empty}
         /\ q.headers \in [Names -> SUBSET Text] /\ q.nameText \in [Names -> Text]
         /\ q.form \in [Names -> SUBSET Text] /\ q.query \in [Names -> SUBSET Text]
         /\ q.formParses \in BOOLEAN /\ q.uriParses \in BOOLEAN

VARIABLES
    written,    \* the candidate
    request,
    bounds,     \* quantifier of the compiled pattern
    clamped,
    phase       \* "written", "compiled", "refused", "blocked" or "passed"

vars == <<written, request, bounds, clamped, phase>>

----------------------------------------------------------------------------
(* Quantifiers *)

MinOf(a, b) == IF a <= b THEN a ELSE b

\* clampRE2Repeats on {n}, {n,} and {n,m}.
Clamp(b) == [b EXCEPT !.lo = MinOf(@, MaxRepeat), !.hi = MinOf(@, MaxRepeat)]
Clamped(b) == b.lo > MaxRepeat \/ (b.kind = "closed" /\ b.hi > MaxRepeat)

\* What a quantifier means.
Admits(b, n) ==
    CASE b.kind = "exact" -> n = b.lo
      [] b.kind = "open" -> b.lo <= n
      [] OTHER -> b.lo <= n /\ n <= b.hi

----------------------------------------------------------------------------
(* Values *)

\* urlDecode: one pass.
Decoded(t) == IF t = Empty \/ t.coded = 0 THEN t ELSE [t EXCEPT !.coded = @ - 1]

\* Wrong on purpose: a query argument replaces the form's of the same name.
ArgumentsLast(q, name) ==
    IF q.uriParses /\ q.query[name] # {}
    THEN {Decoded(t) : t \in q.query[name]}
    ELSE IF q.formParses THEN {Decoded(t) : t \in q.form[name]} ELSE {}

\* requestArguments: form and query arguments, which parsing has decoded once;
\* a body or a URI that does not parse has none.
Arguments(q, name) ==
    (IF q.formParses THEN {Decoded(t) : t \in q.form[name]} ELSE {})
      \union (IF q.uriParses THEN {Decoded(t) : t \in q.query[name]} ELSE {})

\* targetValuesForOne
ValuesOf(target, q) ==
    CASE target[1] = "REQUEST_BODY" -> {q.body}
      [] target[1] = "REQUEST_URI" -> {q.uri}
      [] target[1] = "REQUEST_HEADERS" -> UNION {q.headers[n] : n \in Names}
      [] target[1] = "ARGS" -> UNION {Arguments(q, n) : n \in Names}
      [] target[1] = "ARGS_NAMES" -> {q.nameText[n] : n \in {n \in Names : Arguments(q, n) # {}}}
      [] OTHER -> Arguments(q, target[2])

Supported(target) == target[1] \in Whole \/ (target[1] = "ARGS:" /\ target[2] # "")

\* The pattern finds its marks, Admits the gap between them.
Found(b, t) == t # Empty /\ t.coded = 0 /\ Admits(b, t.gap)

----------------------------------------------------------------------------
Init ==
    /\ written \in Rules
    /\ request \in HttpRequests
    /\ bounds = written.bounds
    /\ clamped = FALSE
    /\ phase = "written"

\* compileRule: the targets, the operator, the bounds, which RE2 must accept.
Compile ==
    /\ phase = "written"
    /\ LET b == Clamp(written.bounds) IN
       IF /\ written.targets # <<>> /\ Len(written.targets) <= MaxTargets
          /\ \A i \in DOMAIN written.targets : Supported(written.targets[i])
          /\ written.rx
          /\ b.kind = "closed" => b.lo <= b.hi
       THEN /\ phase' = "compiled"
            /\ bounds' = b
            /\ clamped' = Clamped(written.bounds)
            /\ UNCHANGED <<written, request>>
       ELSE phase' = "refused" /\ UNCHANGED <<written, request, bounds, clamped>>

\* evaluate: each value raw and decoded once; the action is not looked at.
Evaluate ==
    /\ phase = "compiled"
    /\ phase' = IF \E i \in DOMAIN written.targets :
                      \E v \in ValuesOf(written.targets[i], request) :
                         Found(bounds, v) \/ Found(bounds, Decoded(v))
                THEN "blocked" ELSE "passed"
    /\ UNCHANGED <<written, request, bounds, clamped>>

Finished == phase \in {"refused", "blocked", "passed"} /\ UNCHANGED vars

Next == Compile \/ Evaluate \/ Finished

Spec == Init /\ [][Next]_vars

----------------------------------------------------------------------------
(* Properties *)

TypeOK ==
    /\ written \in Rules /\ request \in HttpRequests
    /\ bounds \in Bounds
    /\ clamped \in BOOLEAN
    /\ phase \in {"written", "compiled", "refused", "blocked", "passed"}

\* Where a text stands in a request, as the rule's target names it: an argument
\* is one of the form or of the query, decoded once by whoever parses it.
Argument(q, name, t) ==
    \/ q.formParses /\ \E raw \in q.form[name] : t = Decoded(raw)
    \/ q.uriParses /\ \E raw \in q.query[name] : t = Decoded(raw)
Carries(q, target, t) ==
    \/ target[1] = "REQUEST_BODY" /\ t = q.body
    \/ target[1] = "REQUEST_URI" /\ t = q.uri
    \/ target[1] = "REQUEST_HEADERS" /\ \E n \in Names : t \in q.headers[n]
    \/ target[1] = "ARGS" /\ \E n \in Names : Argument(q, n, t)
    \/ target[1] = "ARGS_NAMES" /\ \E n \in Names : t = q.nameText[n] /\ \E v \in Text : Argument(q, n, v)
    \/ target[1] = "ARGS:" /\ Argument(q, target[2], t)

Selected ==
    {t \in Text : \E i \in DOMAIN written.targets : Carries(request, written.targets[i], t)}

\* The rule, as it is written, applies to the request.
AppliesAsWritten ==
    \E t \in Selected : Found(written.bounds, t) \/ Found(written.bounds, Decoded(t))

\* A verdict that differs from what the written rule says is announced as a
\* limitation, and then some text the rule looks at is at least as long as the
\* limit of RE2: on shorter texts the clamped rule is the rule (clampRE2Repeats,
\* evaluate).
VerdictAsWritten ==
    phase \in {"blocked", "passed"} /\ ((phase = "blocked") # AppliesAsWritten) =>
        /\ clamped
        /\ \E t \in Selected : t.gap >= MaxRepeat
=============================================================================
