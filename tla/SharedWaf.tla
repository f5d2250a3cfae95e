----------------------------- MODULE SharedWaf -----------------------------
(***************************************************************************)
(* The bounded WAF of the shared contract (shared_contract_v2.go): what a  *)
(* prepared application unit says of one HTTP request, and how a test      *)
(* input of Check Generation becomes that request.                         *)
(*                                                                         *)
(* Texts are model values.  What a transformation makes of a text and what *)
(* a JSON pointer selects in a body are the constants Decode and Select; a *)
(* pattern is the set of texts it matches.  A site stands for scheme and   *)
(* authority.                                                              *)
(***************************************************************************)
EXTENDS Naturals, Sequences

CONSTANTS
    Texts,          \* header, query, cookie and body texts
    NoText,         \* the empty text, of absent and of empty bodies
    Undecodable,    \* what a transformation makes of a text it rejects
    Transforms,     \* urlDecode, base64Decode, hexDecode, lowercase
    Decode,         \* [Transforms -> [Texts -> Texts \union {Undecodable}]]
    Select,         \* [Texts -> [field name -> Texts \union Selections]]
    FoldName,       \* [field name -> the name without letter case]
    Profiles        \* [profile -> [path_key -> [site, path]]]

Selections == {"malformed", "scalar", "member absent", "not a string"}

ASSUME TextAssumption ==
    /\ NoText \in Texts
    /\ Undecodable \notin Texts
    /\ Decode \in [Transforms -> [Texts -> Texts \union {Undecodable}]]

Min1(S) == CHOOSE i \in S : \A j \in S : i <= j

----------------------------------------------------------------------------
(* Requests *)

\* An input that passed the schema.  fields[c] are the named fields of query,
\* header and cookie; sound says that the body's metadata and locator hold.
ValidRoute(route) ==
    /\ route.method # ""
    /\ \/ route.kind = "opaque-path-key" /\ route.key # "" /\ route.site = "" /\ route.path = ""
       \/ route.kind = "rendered-http-route" /\ route.path # "" /\ route.key = ""

HasRoute(input) == input.modality \in {"http-request", "http-request-template"}

RouteOf(input) ==
    IF input.modality = "http-request-template"
    THEN [kind |-> "opaque-path-key", method |-> input.method, key |-> input.key,
          site |-> "", path |-> ""]
    ELSE [kind |-> "rendered-http-route", method |-> input.method, key |-> "",
          site |-> input.site, path |-> input.path]

RouteApplies(bound, actual) ==
    /\ bound.kind = actual.kind
    /\ bound.method = actual.method
    /\ IF bound.kind = "opaque-path-key"
       THEN bound.key = actual.key
       ELSE bound.site = actual.site /\ bound.path = actual.path

\* A template resolves only through a known profile that knows its path key;
\* only scheme, authority and path come from the profile.
Resolvable(input, profile) ==
    profile \in DOMAIN Profiles /\ input.key \in DOMAIN Profiles[profile]

Render(input, profile) ==
    LET route == Profiles[profile][input.key] IN
    [input EXCEPT !.modality = "http-request", !.key = "",
                  !.site = route.site, !.path = route.path]

\* resolveSharedBody: nil and []byte{} are both the empty text.
BodyResolves(body) ==
    \/ body.state = "absent"
    \/ body.state \in {"empty", "present"} /\ body.sound
BodyText(body) == IF body.state = "present" THEN body.text ELSE NoText

----------------------------------------------------------------------------
(* Rules *)

\* The values of the fields with one of these names, at their places.
Named(fields, names) ==
    [i \in {i \in DOMAIN fields : fields[i].name \in names} |-> fields[i].value]

\* A structured body that does not parse, or whose selector runs into a
\* scalar, cannot be read; a selector that finds nothing has no values.
Unreadable(rule, body) ==
    /\ rule.carrier = "body"
    /\ rule.name # ""
    /\ Select[body][rule.name] \in {"malformed", "scalar"}

CarrierValues(rule, request, body) ==
    CASE rule.carrier \in {"query", "cookie"} ->
           Named(request.fields[rule.carrier], {rule.name})
      [] rule.carrier = "header" ->
           Named(request.fields.header,
                 {n \in DOMAIN FoldName : FoldName[n] = FoldName[rule.name]})
      [] rule.carrier = "body" ->
           IF rule.name = "" THEN <<body>>
           ELSE IF Select[body][rule.name] \in Texts THEN <<Select[body][rule.name]>> ELSE <<>>
      [] rule.carrier = "path" -> <<request.path>>
      [] rule.carrier = "method" -> <<request.method>>
      [] OTHER -> <<>>

\* applySharedWAFTransforms, in the order the rule lists them.
Transformed(transforms, text) ==
    LET after[k \in 0..Len(transforms)] ==
          IF k = 0 THEN text
          ELSE IF after[k - 1] = Undecodable THEN Undecodable
          ELSE Decode[transforms[k]][after[k - 1]]
    IN after[Len(transforms)]

\* The values of a rule are tried in order: one that cannot be decoded ends the
\* whole evaluation, one that matches ends the rule.
RuleOutcome(rule, request, body) ==
    IF Unreadable(rule, body) THEN "unreadable"
    ELSE LET values == CarrierValues(rule, request, body)
             seen == [i \in DOMAIN values |-> Transformed(rule.transforms, values[i])]
             stops == {i \in DOMAIN values : seen[i] = Undecodable \/ seen[i] \in rule.pattern}
         IN IF stops = {} THEN "miss"
            ELSE IF seen[Min1(stops)] = Undecodable THEN "abort" ELSE "hit"

\* The components of an alternative are tried in order until one does not hit.
AlternativeOutcome(waf, alternative, request, body) ==
    LET outcome == [j \in DOMAIN alternative.components |->
                      RuleOutcome(waf.rules[alternative.components[j]], request, body)]
        stops == {j \in DOMAIN alternative.components : outcome[j] # "hit"}
    IN IF stops = {} THEN "hit" ELSE outcome[Min1(stops)]

\* The places of the alternatives that apply to a route.
Applicable(waf, route) ==
    {k \in DOMAIN waf.alternatives :
       waf.alternatives[k].bound => RouteApplies(waf.alternatives[k].route, route)}

\* Wrong on purpose: a body that cannot be read ends the evaluation.
EvaluateMasking(waf, route, request, body) ==
    LET outcome == [k \in Applicable(waf, route) |->
                      AlternativeOutcome(waf, waf.alternatives[k], request, body)]
        stops == {k \in Applicable(waf, route) : outcome[k] # "miss"}
    IN IF stops = {} THEN "miss"
       ELSE IF outcome[Min1(stops)] = "hit" THEN "match" ELSE "error"

\* evaluate: the first alternative that hits wins, an undecodable text before
\* it is an error at once, a carrier that cannot be read only if none hits.
Evaluate(waf, route, request, body) ==
    LET outcome == [k \in Applicable(waf, route) |->
                      AlternativeOutcome(waf, waf.alternatives[k], request, body)]
        stops == {k \in Applicable(waf, route) : outcome[k] \in {"hit", "abort"}}
    IN IF stops # {}
       THEN IF outcome[Min1(stops)] = "hit" THEN "match" ELSE "error"
       ELSE IF \E k \in Applicable(waf, route) : outcome[k] = "unreadable"
       THEN "error" ELSE "miss"

----------------------------------------------------------------------------
(* What a control of this shape means, without the order of anything *)

RuleHolds(rule, request, body) ==
    /\ ~Unreadable(rule, body)
    /\ LET values == CarrierValues(rule, request, body)
       IN \E i \in DOMAIN values : Transformed(rule.transforms, values[i]) \in rule.pattern

RuleGarbles(rule, request, body) ==
    LET values == CarrierValues(rule, request, body)
    IN \E i \in DOMAIN values : Transformed(rule.transforms, values[i]) = Undecodable

RuleFails(rule, request, body) ==
    /\ ~Unreadable(rule, body)
    /\ ~RuleHolds(rule, request, body)
    /\ ~RuleGarbles(rule, request, body)

ComponentRules(waf, alternative) ==
    {waf.rules[alternative.components[j]] : j \in DOMAIN alternative.components}

\* The alternatives that apply to a route are a disjunction of conjunctions.
ControlHolds(waf, route, request, body) ==
    \E k \in Applicable(waf, route) :
        \A rule \in ComponentRules(waf, waf.alternatives[k]) : RuleHolds(rule, request, body)

ControlGarbles(waf, route, request, body) ==
    \E k \in Applicable(waf, route) :
        \E rule \in ComponentRules(waf, waf.alternatives[k]) : RuleGarbles(rule, request, body)

\* Every alternative that applies has a rule that surely does not match.
ControlFails(waf, route, request, body) ==
    \A k \in Applicable(waf, route) :
        \E rule \in ComponentRules(waf, waf.alternatives[k]) : RuleFails(rule, request, body)

Unbound(waf) == [waf EXCEPT !.alternatives =
                   [k \in DOMAIN waf.alternatives |-> [waf.alternatives[k] EXCEPT !.bound = FALSE]]]
=============================================================================
