---------------------------- MODULE SharedProofs ----------------------------
(***************************************************************************)
(* Theorems about SharedExecution, for any documents, texts and profiles:  *)
(* what a case says is what the control says, what an accepted check       *)
(* covers, and what the accounting of an outcome proves.                   *)
(***************************************************************************)
EXTENDS SharedExecution, FiniteSetTheorems, SequenceTheorems, WellFoundedInduction, TLAPS

----------------------------------------------------------------------------
(* Arrays and least elements *)

LEMMA LeastNat ==
    ASSUME NEW S \in SUBSET Nat, S # {}
    PROVE  \E n \in S : \A m \in S : n <= m
<1> DEFINE Below == {0..n : n \in S}
<1>1. Below # {} /\ Below \subseteq FiniteSubsetsOf(Nat)
  <2>1. ASSUME NEW n \in S PROVE 0..n \in FiniteSubsetsOf(Nat)
    <3>1. IsFiniteSet(0..n)
        BY FS_Interval
    <3> QED
        BY <3>1 DEF FiniteSubsetsOf
  <2> QED
      BY <2>1
<1>2. PICK x \in Below : \A y \in Below : ~(<<y, x>> \in StrictSubsetOrdering(Nat))
  <2> HIDE DEF Below
  <2> QED
      BY <1>1, FS_StrictSubsetOrderingWellFounded, WFMin
<1>3. PICK n \in S : x = 0..n
    OBVIOUS
<1>4. ASSUME NEW m \in S PROVE n <= m
  <2>1. 0..m \in SUBSET Nat /\ 0..n \in SUBSET Nat
      OBVIOUS
  <2>2. ~(0..m \subseteq 0..n /\ 0..m # 0..n)
      BY <1>2, <1>3, <2>1 DEF StrictSubsetOrdering
  <2>3. m < n => 0..m \subseteq 0..n /\ n \in 0..n /\ n \notin 0..m
      OBVIOUS
  <2> QED
      BY <2>2, <2>3
<1> QED
    BY <1>4

LEMMA Min1IsIn ==
    ASSUME NEW S \in SUBSET Nat, S # {} PROVE Min1(S) \in S
BY LeastNat DEF Min1

LEMMA ArrayIndices ==
    ASSUME NEW s, IsArray(s)
    PROVE  Len(s) \in Nat /\ DOMAIN s = 1..Len(s) /\ DOMAIN s \subseteq Nat
BY DEF IsArray

----------------------------------------------------------------------------
(* What the outcomes of the WAF mean *)

LEMMA ValuesAtPlaces ==
    ASSUME NEW rule, NEW request, NEW body,
           rule.carrier \in {"query", "cookie", "header"} =>
             IsArray(request.fields[rule.carrier])
    PROVE  DOMAIN CarrierValues(rule, request, body) \subseteq Nat
<1>1. ASSUME NEW fields, NEW names, IsArray(fields)
      PROVE  DOMAIN Named(fields, names) \subseteq Nat
    BY <1>1, ArrayIndices DEF Named
<1>2. ASSUME NEW x PROVE DOMAIN <<x>> \subseteq Nat
    OBVIOUS
<1>3. DOMAIN <<>> \subseteq Nat
    OBVIOUS
<1>4. CASE rule.carrier \in {"query", "cookie"}
    BY <1>1, <1>4 DEF CarrierValues
<1>5. CASE rule.carrier = "header"
    BY <1>1, <1>5 DEF CarrierValues
<1>6. CASE rule.carrier = "body"
    BY <1>2, <1>3, <1>6 DEF CarrierValues
<1>7. CASE rule.carrier = "path"
    BY <1>2, <1>7 DEF CarrierValues
<1>8. CASE rule.carrier = "method"
    BY <1>2, <1>8 DEF CarrierValues
<1>9. CASE rule.carrier \notin {"query", "cookie", "header", "body", "path", "method"}
    BY <1>3, <1>9 DEF CarrierValues
<1> QED
    BY <1>4, <1>5, <1>6, <1>7, <1>8, <1>9

\* The request has the named fields of the three carriers as arrays.
Fielded(request) ==
    \A c \in {"query", "cookie", "header"} : IsArray(request.fields[c])

LEMMA RuleOutcomeMeans ==
    ASSUME NEW rule, NEW request, NEW body, Fielded(request),
           NEW u, u = RuleOutcome(rule, request, body)
    PROVE  /\ u \in {"hit", "miss", "abort", "unreadable"}
           /\ u = "hit" => RuleHolds(rule, request, body)
           /\ u = "miss" => RuleFails(rule, request, body)
           /\ u = "abort" => RuleGarbles(rule, request, body)
           /\ u = "unreadable" => Unreadable(rule, body)
<1>1. CASE Unreadable(rule, body)
    BY <1>1 DEF RuleOutcome
<1>2. CASE ~Unreadable(rule, body)
  <2> DEFINE values == CarrierValues(rule, request, body)
             seen == [i \in DOMAIN values |-> Transformed(rule.transforms, values[i])]
             stops == {i \in DOMAIN values : seen[i] = Undecodable \/ seen[i] \in rule.pattern}
  <2>1. stops \in SUBSET Nat
      BY ValuesAtPlaces DEF Fielded
  <2>2. u = IF stops = {} THEN "miss"
            ELSE IF seen[Min1(stops)] = Undecodable THEN "abort" ELSE "hit"
      BY <1>2 DEF RuleOutcome
  <2>3. CASE stops = {}
    <3>1. \A i \in DOMAIN values : /\ Transformed(rule.transforms, values[i]) # Undecodable
                                   /\ Transformed(rule.transforms, values[i]) \notin rule.pattern
        BY <2>3
    <3> QED
        BY <1>2, <2>2, <2>3, <3>1 DEF RuleFails, RuleHolds, RuleGarbles
  <2>4. CASE stops # {}
    <3>1. PICK i \in stops : i = Min1(stops)
      <4> HIDE DEF stops
      <4> QED
          BY <2>1, <2>4, Min1IsIn
    <3>2. seen[i] = Transformed(rule.transforms, values[i]) /\ i \in DOMAIN values
        OBVIOUS
    <3>3. seen[i] = Undecodable \/ seen[i] \in rule.pattern
        OBVIOUS
    <3> QED
        BY <1>2, <2>2, <2>4, <3>1, <3>2, <3>3 DEF RuleHolds, RuleGarbles
  <2> QED
      BY <2>3, <2>4
<1> QED
    BY <1>1, <1>2

LEMMA AlternativeOutcomeMeans ==
    ASSUME NEW waf, NEW a, NEW request, NEW body, Fielded(request), IsArray(a.components),
           NEW u, u = AlternativeOutcome(waf, a, request, body)
    PROVE  /\ u \in {"hit", "miss", "abort", "unreadable"}
           /\ u = "hit" => \A rule \in ComponentRules(waf, a) : RuleHolds(rule, request, body)
           /\ u = "miss" => \E rule \in ComponentRules(waf, a) : RuleFails(rule, request, body)
           /\ u = "abort" => \E rule \in ComponentRules(waf, a) : RuleGarbles(rule, request, body)
           /\ u = "unreadable" => \E rule \in ComponentRules(waf, a) : Unreadable(rule, body)
<1> DEFINE R(j) == waf.rules[a.components[j]]
           found == [j \in DOMAIN a.components |-> RuleOutcome(R(j), request, body)]
           stops == {j \in DOMAIN a.components : found[j] # "hit"}
<1>1. u = IF stops = {} THEN "hit" ELSE found[Min1(stops)]
    BY DEF AlternativeOutcome
<1>2. stops \in SUBSET Nat
    BY ArrayIndices
<1>3. ComponentRules(waf, a) = {R(j) : j \in DOMAIN a.components}
    BY DEF ComponentRules
<1>4. CASE stops = {}
  <2>1. ASSUME NEW j \in DOMAIN a.components PROVE RuleHolds(R(j), request, body)
    <3>1. RuleOutcome(R(j), request, body) = "hit"
        BY <1>4
    <3> QED
        BY <3>1, RuleOutcomeMeans
  <2> QED
      BY <1>1, <1>3, <1>4, <2>1
<1>5. CASE stops # {}
  <2>1. PICK j \in stops : j = Min1(stops)
    <3> HIDE DEF stops
    <3> QED
        BY <1>2, <1>5, Min1IsIn
  <2>2. u = RuleOutcome(R(j), request, body) /\ u # "hit"
      BY <1>1, <1>5, <2>1
  <2>3. R(j) \in ComponentRules(waf, a)
      BY <1>3
  <2> QED
      BY <2>2, <2>3, RuleOutcomeMeans
<1> QED
    BY <1>4, <1>5

\* A prepared WAF: its alternatives and their components are arrays.
Ordered(waf) ==
    IsArray(waf.alternatives) /\ \A k \in DOMAIN waf.alternatives :
                                    IsArray(waf.alternatives[k].components)

LEMMA EvaluateMeans ==
    ASSUME NEW waf, NEW route, NEW request, NEW body, Fielded(request), Ordered(waf),
           NEW u, u = Evaluate(waf, route, request, body)
    PROVE  /\ u \in {"match", "miss", "error"}
           /\ u = "match" => \E k \in Applicable(waf, route) :
                AlternativeOutcome(waf, waf.alternatives[k], request, body) = "hit"
           /\ u = "match" => ControlHolds(waf, route, request, body)
           /\ u = "miss" => ControlFails(waf, route, request, body)
           /\ u = "error" /\ ControlHolds(waf, route, request, body) =>
                ControlGarbles(waf, route, request, body)
           /\ u = "miss" => \A k \in Applicable(waf, route) :
                AlternativeOutcome(waf, waf.alternatives[k], request, body) # "hit"
<1> DEFINE S == Applicable(waf, route)
           O(k) == AlternativeOutcome(waf, waf.alternatives[k], request, body)
           Rules(k) == ComponentRules(waf, waf.alternatives[k])
           found == [k \in S |-> O(k)]
           stops == {k \in S : found[k] \in {"hit", "abort"}}
<1>1. u = IF stops # {} THEN IF found[Min1(stops)] = "hit" THEN "match" ELSE "error"
          ELSE IF \E k \in S : found[k] = "unreadable" THEN "error" ELSE "miss"
    BY DEF Evaluate
<1>2. stops \in SUBSET Nat
    BY ArrayIndices DEF Ordered, Applicable
<1>3. ASSUME NEW k \in S
      PROVE  /\ O(k) \in {"hit", "miss", "abort", "unreadable"}
             /\ O(k) = "hit" => \A rule \in Rules(k) : RuleHolds(rule, request, body)
             /\ O(k) = "miss" => \E rule \in Rules(k) : RuleFails(rule, request, body)
             /\ O(k) = "abort" => \E rule \in Rules(k) : RuleGarbles(rule, request, body)
             /\ O(k) = "unreadable" => \E rule \in Rules(k) : Unreadable(rule, body)
  <2>1. IsArray(waf.alternatives[k].components)
      BY DEF Ordered, Applicable
  <2> QED
      BY <2>1, AlternativeOutcomeMeans
<1>4. CASE stops # {}
  <2>1. PICK k \in stops : k = Min1(stops)
    <3> HIDE DEF stops
    <3> QED
        BY <1>2, <1>4, Min1IsIn
  <2>2. k \in S /\ found[k] = O(k) /\ O(k) \in {"hit", "abort"}
      OBVIOUS
  <2>3. u = IF O(k) = "hit" THEN "match" ELSE "error"
      BY <1>1, <1>4, <2>1, <2>2
  <2>4. O(k) = "hit" => ControlHolds(waf, route, request, body)
      BY <1>3, <2>2 DEF ControlHolds
  <2>5. O(k) = "abort" => ControlGarbles(waf, route, request, body)
      BY <1>3, <2>2 DEF ControlGarbles
  <2> HIDE DEF S, O, stops, found, Rules
  <2>6. CASE O(k) = "hit"
    <3>1. u = "match"
        BY <2>3, <2>6
    <3> QED
        BY <2>2, <2>4, <2>6, <3>1 DEF O, S
  <2>7. CASE O(k) = "abort"
    <3>1. u = "error"
        BY <2>3, <2>7
    <3> QED
        BY <2>5, <2>7, <3>1
  <2> QED
      BY <2>2, <2>6, <2>7
<1>5. CASE stops = {}
  <2>1. \A k \in S : O(k) \in {"miss", "unreadable"}
      BY <1>3, <1>5
  <2>2. ~ControlHolds(waf, route, request, body)
    <3>1. ASSUME NEW k \in S PROVE ~ \A rule \in Rules(k) : RuleHolds(rule, request, body)
        BY <1>3, <2>1 DEF RuleFails, RuleHolds
    <3> QED
        BY <3>1 DEF ControlHolds
  <2>3. u = IF \E k \in S : O(k) = "unreadable" THEN "error" ELSE "miss"
      BY <1>1, <1>5
  <2>4. (\A k \in S : O(k) = "miss") => ControlFails(waf, route, request, body)
      BY <1>3 DEF ControlFails
  <2>5. \A k \in S : O(k) # "hit"
      BY <2>1
  <2> HIDE DEF S, stops, found, Rules
  <2>6. CASE \E k \in S : O(k) = "unreadable"
    <3>1. u = "error"
        BY <2>3, <2>6
    <3> QED
        BY <2>2, <3>1
  <2>7. CASE ~ \E k \in S : O(k) = "unreadable"
    <3>1. u = "miss"
        BY <2>3, <2>7
    <3> QED
        BY <2>1, <2>4, <2>5, <2>7, <3>1 DEF S
  <2> QED
      BY <2>6, <2>7
<1> QED
    BY <1>4, <1>5

----------------------------------------------------------------------------
(* Arrays that grow *)

LEMMA MakesArray ==
    ASSUME NEW n \in Nat, NEW f, f = [i \in 1..n |-> f[i]]
    PROVE  IsArray(f) /\ Len(f) = n
<1>1. f \in Seq({f[i] : i \in 1..n})
    OBVIOUS
<1>2. DOMAIN f = 1..n
    OBVIOUS
<1> QED
    BY <1>1, <1>2 DEF IsArray

LEMMA AppendArray ==
    ASSUME NEW s, IsArray(s), NEW x
    PROVE  /\ IsArray(Append(s, x)) /\ Len(Append(s, x)) = Len(s) + 1
           /\ \A i \in DOMAIN s : Append(s, x)[i] = s[i]
           /\ Append(s, x)[Len(s) + 1] = x
<1> DEFINE S == {s[i] : i \in DOMAIN s} \union {x}
           t == Append(s, x)
<1>1. s \in Seq(S) /\ x \in S
  <2>1. s \in Seq({s[i] : i \in DOMAIN s})
      BY DEF IsArray
  <2> QED
      BY <2>1
<1>2. t \in Seq(S) /\ Len(t) = Len(s) + 1
      /\ (\A i \in 1..Len(s) : t[i] = s[i]) /\ t[Len(s) + 1] = x
  <2> HIDE DEF S
  <2> QED
      BY <1>1
<1>3. t = [i \in 1..Len(t) |-> t[i]]
  <2>1. t \in Seq(S)
      BY <1>2
  <2> HIDE DEF S, t
  <2> QED
      BY <2>1
<1>4. Len(t) \in Nat
    BY <1>2, ArrayIndices
<1>5. IsArray(t)
    BY <1>3, <1>4, MakesArray
<1> QED
    BY <1>2, <1>5, ArrayIndices

LEMMA ReplaceArray ==
    ASSUME NEW s, IsArray(s), NEW n \in DOMAIN s, NEW x
    PROVE  /\ IsArray([s EXCEPT ![n] = x]) /\ Len([s EXCEPT ![n] = x]) = Len(s)
           /\ \A i \in DOMAIN s : [s EXCEPT ![n] = x][i] = IF i = n THEN x ELSE s[i]
<1> DEFINE t == [s EXCEPT ![n] = x]
<1>1. Len(s) \in Nat /\ DOMAIN s = 1..Len(s)
    BY ArrayIndices
<1>2. t = [i \in 1..Len(s) |-> t[i]]
    BY <1>1
<1> HIDE DEF t
<1>3. IsArray(t) /\ Len(t) = Len(s)
    BY <1>1, <1>2, MakesArray
<1> QED
    BY <1>3 DEF t

LEMMA EntryIsIn ==
    ASSUME NEW s, NEW id \in IdsOf(s)
    PROVE  (\E i \in DOMAIN s : Entry(s, id) = s[i]) /\ Entry(s, id).id = id
<1>1. \E i \in DOMAIN s : s[i].id = id
    BY DEF IdsOf
<1> DEFINE i == CHOOSE i \in DOMAIN s : s[i].id = id
<1>2. i \in DOMAIN s /\ s[i].id = id
    BY <1>1
<1> QED
    BY <1>2 DEF Entry

----------------------------------------------------------------------------
(* The prepared control *)

LEMMA RuleSetIsShaped ==
    ASSUME NEW d \in Documents, Preparable(d.bundle, d.sem)
    PROVE  IsRuleSet(ContentOf(d.bundle, "match-rule"))
<1> DEFINE S == OfKind(d.bundle, "match-rule")
           a == CHOOSE a \in S : TRUE
<1>1. Cardinality(S) = 1 /\ \A b \in ArtifactsOf(d.bundle) :
        b.id \in DOMAIN d.bundle.contents /\ d.bundle.contents[b.id] # Garbled
    BY DEF Preparable, ReadsBack
<1>2. S # {}
    BY <1>1, FS_EmptySet
<1>3. a \in S
    BY <1>2
<1>4. a \in ArtifactsOf(d.bundle)
    BY <1>3 DEF OfKind
<1>5. IsRuleSet(d.bundle.contents[a.id])
  <2> HIDE DEF a
  <2> QED
      BY <1>1, <1>3, <1>4, DocumentAssumption DEF IsDocument
<1> QED
    BY <1>5 DEF ContentOf

LEMMA AlternativesAreOrdered ==
    ASSUME NEW main, IsRuleSet(main), NEW as, as = AlternativesOf(main)
    PROVE  IsArray(as) /\ \A k \in DOMAIN as : IsArray(as[k].components)
<1>1. CASE main.placement = "route-bound-v1"
  <2>1. as = [i \in DOMAIN main.routes |->
               [components |-> main.routes[i].components, bound |-> TRUE,
                route |-> main.routes[i].route]]
      BY <1>1 DEF AlternativesOf
  <2>2. DOMAIN main.routes = 1..Len(main.routes) /\ Len(main.routes) \in Nat
      BY ArrayIndices DEF IsRuleSet
  <2>3. as = [i \in 1..Len(main.routes) |-> as[i]]
      BY <2>1, <2>2
  <2>4. \A i \in DOMAIN main.routes : IsArray(main.routes[i].components)
      BY Zenon DEF IsRuleSet
  <2>5. \A k \in DOMAIN as : k \in DOMAIN main.routes /\ as[k].components = main.routes[k].components
      BY <2>1
  <2> QED
      BY <2>2, <2>3, <2>4, <2>5, MakesArray
<1>2. CASE main.placement # "route-bound-v1"
  <2> DEFINE lists == IF main.coverage # <<>> THEN main.coverage
                      ELSE [i \in DOMAIN main.rules |-> <<main.rules[i].component>>]
  <2>1. as = [i \in DOMAIN lists |-> [components |-> lists[i], bound |-> FALSE, route |-> NoRoute]]
      BY <1>2 DEF AlternativesOf
  <2>2. PICK n \in Nat : DOMAIN lists = 1..n
      BY ArrayIndices DEF IsRuleSet
  <2>3. as = [i \in 1..n |-> as[i]]
      BY <2>1, <2>2
  <2>4. \A k \in DOMAIN lists : IsArray(lists[k])
    <3>1. ASSUME NEW x PROVE IsArray(<<x>>)
      <4>1. <<x>> = [i \in 1..1 |-> <<x>>[i]]
          OBVIOUS
      <4> QED
          BY <4>1, MakesArray
    <3>2. CASE main.coverage # <<>>
        BY <3>2 DEF IsRuleSet
    <3>3. CASE main.coverage = <<>>
        BY <3>1, <3>3
    <3> QED
        BY <3>2, <3>3
  <2>5. \A k \in DOMAIN as : IsArray(as[k].components)
    <3> HIDE DEF lists
    <3> QED
        BY <2>1, <2>4
  <2> QED
      BY <2>3, <2>5, MakesArray
<1> QED
    BY <1>1, <1>2

LEMMA WafIsOrdered ==
    ASSUME NEW d \in Documents, Preparable(d.bundle, d.sem)
    PROVE  Ordered(PreparedWaf(d.bundle))
<1>1. PreparedWaf(d.bundle).alternatives = AlternativesOf(ContentOf(d.bundle, "match-rule"))
    BY DEF PreparedWaf
<1> QED
    BY <1>1, RuleSetIsShaped, AlternativesAreOrdered DEF Ordered

LEMMA RequestsAreFielded ==
    ASSUME doc \in Documents, NEW id \in IdsOf(doc.sem.inputs),
           NEW input, input = Entry(doc.sem.inputs, id).input, HasRoute(input)
    PROVE  Fielded(Request(input))
<1>1. PICK i \in DOMAIN doc.sem.inputs : input = doc.sem.inputs[i].input
    BY EntryIsIn
<1>2. "fields" \in DOMAIN input /\ Fielded(input)
    BY <1>1, DocumentAssumption DEF IsDocument, IsSemantics, Fielded
<1>3. Request(input).fields = input.fields
    BY <1>2 DEF Request, Render
<1> QED
    BY <1>2, <1>3 DEF Fielded

----------------------------------------------------------------------------
(* The invariant of the execution *)

Checked == Resolvable2 /\ Preparable(doc.bundle, doc.sem)

\* What the control allows to be said of each input.
Allowed == [id \in IdsOf(doc.sem.inputs) |-> Possible(Entry(doc.sem.inputs, id).input, TRUE)]

\* A result answers its obligation: its cases are those of the first required
\* inputs, in order, and each says what the control allows.
Answers(result, obligation, last, allowed) ==
    /\ result = [id |-> obligation.id, cases |-> result.cases]
    /\ IsArray(result.cases)
    /\ Len(result.cases) \in 1..Len(obligation.inputs)
    /\ ~last => Len(result.cases) = Len(obligation.inputs)
    /\ \A k \in DOMAIN result.cases :
         /\ result.cases[k] = [input |-> obligation.inputs[k].id,
                               disposition |-> result.cases[k].disposition]
         /\ result.cases[k].input \in DOMAIN allowed
         /\ result.cases[k].disposition \in allowed[result.cases[k].input]

ResultsInv ==
    /\ IsArray(results) /\ Len(results) <= Len(Obligations)
    /\ \A o \in DOMAIN results : Answers(results[o], Obligations[o], o = Len(results), Allowed)

ExecutionInv ==
    /\ doc \in Documents /\ live \in BOOLEAN
    /\ phase \in {"resolve", "prepare", "start", "cases", "account", "end"}
    /\ phase \in {"prepare", "start", "cases", "account"} => Resolvable2
    /\ phase \in {"start", "cases", "account"} => Preparable(doc.bundle, doc.sem)
    /\ phase \in {"resolve", "prepare", "start"} => results = <<>>
    /\ results # <<>> => Checked
    /\ phase # "end" => outcome = NoOutcome
    /\ phase = "account" => ~Remaining
    /\ phase = "end" =>
         \/ outcome = [state |-> "could-not-test", match |-> FALSE]
         \/ /\ Checked /\ ~Remaining
            /\ LET ds == DispositionsOf(results) IN
               outcome = IF AccountingHolds(doc.sem, results, Accounting(doc.sem, results))
                         THEN [state |-> Terminal(ds), match |-> ds \subseteq {"blocked"}]
                         ELSE [state |-> "malfunction", match |-> FALSE]
    /\ ResultsInv

\* Where the loop over the obligations stands.
LEMMA Standing ==
    ASSUME ExecutionInv
    PROVE  /\ Begun \in Nat /\ DOMAIN results = 1..Begun
           /\ Len(Obligations) \in Nat /\ DOMAIN Obligations = 1..Len(Obligations)
           /\ IsArray(Obligations)
           /\ \A o \in DOMAIN Obligations :
                /\ IsArray(Obligations[o].inputs)
                /\ Len(Obligations[o].inputs) \in Nat \ {0}
                /\ DOMAIN Obligations[o].inputs = 1..Len(Obligations[o].inputs)
<1>1. IsDocument(doc) /\ IsSemantics(doc.sem)
    BY DocumentAssumption DEF ExecutionInv, IsDocument
<1>2. IsArray(Obligations)
    BY <1>1 DEF IsSemantics, Obligations
<1>3. ASSUME NEW o \in DOMAIN Obligations
      PROVE  /\ IsArray(Obligations[o].inputs)
             /\ Len(Obligations[o].inputs) \in Nat \ {0}
             /\ DOMAIN Obligations[o].inputs = 1..Len(Obligations[o].inputs)
  <2>1. IsArray(Obligations[o].inputs) /\ Obligations[o].inputs # <<>>
      BY <1>1 DEF IsSemantics, Obligations
  <2>2. Obligations[o].inputs \in Seq({Obligations[o].inputs[k] : k \in DOMAIN Obligations[o].inputs})
      BY <2>1 DEF IsArray
  <2>3. Len(Obligations[o].inputs) # 0
      BY <2>1, <2>2
  <2> QED
      BY <2>1, <2>3, ArrayIndices
<1>4. Begun \in Nat /\ DOMAIN results = 1..Begun
    BY ArrayIndices DEF ExecutionInv, ResultsInv, Begun
<1> QED
    BY <1>2, <1>3, <1>4, ArrayIndices

\* When nothing remains, each obligation has a result and each required input a
\* case.
LEMMA NothingRemains ==
    ASSUME ExecutionInv, ~Remaining
    PROVE  /\ Begun = Len(Obligations)
           /\ \A o \in DOMAIN Obligations : Len(results[o].cases) = Len(Obligations[o].inputs)
<1>1. Begun <= Len(Obligations)
    BY DEF ExecutionInv, ResultsInv, Begun
<1>2. Begun = Len(Obligations) /\ ~Unfinished
    BY <1>1, Standing DEF Remaining
<1>3. ASSUME NEW o \in DOMAIN Obligations
      PROVE  Len(results[o].cases) = Len(Obligations[o].inputs)
  <2>1. o \in DOMAIN results /\ o \in 1..Begun
      BY <1>2, Standing
  <2>2. Answers(results[o], Obligations[o], o = Len(results), Allowed)
      BY <2>1 DEF ExecutionInv, ResultsInv
  <2>3. CASE o = Begun
    <3>1. ~(Len(results[o].cases) < Len(Obligations[o].inputs)) /\ Begun > 0
        BY <1>2, <2>1, <2>3, Standing DEF Unfinished
    <3>2. Len(results[o].cases) \in 1..Len(Obligations[o].inputs)
        BY <2>2 DEF Answers
    <3> QED
        BY <3>1, <3>2, Standing
  <2>4. CASE o # Begun
      BY <2>2, <2>4 DEF Answers, Begun
  <2> QED
      BY <2>3, <2>4
<1> QED
    BY <1>2, <1>3

LEMMA NextCaseInput ==
    ASSUME ExecutionInv, phase = "cases", Current \in DOMAIN Obligations,
           Len(CasesOf(Current)) + 1 \in DOMAIN Obligations[Current].inputs
    PROVE  /\ NextInput.id = Obligations[Current].inputs[Len(CasesOf(Current)) + 1].id
           /\ Entry(doc.sem.inputs, NextInput.id) = NextInput
           /\ NextInput.id \in IdsOf(doc.sem.inputs)
<1> DEFINE id == Obligations[Current].inputs[Len(CasesOf(Current)) + 1].id
<1>1. RefsInto(Obligations[Current].inputs, "test-input", IdsOf(doc.sem.inputs))
    BY DEF ExecutionInv, Resolvable2, ValidDocument, ObligationsAgree, Obligations
<1>2. id \in IdsOf(doc.sem.inputs)
    BY <1>1 DEF RefsInto
<1>3. NextInput = Entry(doc.sem.inputs, id)
    BY DEF NextInput
<1>4. NextInput.id = id
    BY <1>2, <1>3, EntryIsIn
<1> QED
    BY <1>2, <1>3, <1>4

\* The next case: its obligation, its place and its input.
LEMMA NextCase ==
    ASSUME ExecutionInv, phase = "cases", Remaining
    PROVE  /\ Current \in DOMAIN Obligations
           /\ IsArray(CasesOf(Current))
           /\ Len(CasesOf(Current)) + 1 \in DOMAIN Obligations[Current].inputs
           /\ Unfinished => Current = Begun /\ Begun \in DOMAIN results
           /\ ~Unfinished => Current = Begun + 1 /\ CasesOf(Current) = <<>>
           /\ NextInput.id = Obligations[Current].inputs[Len(CasesOf(Current)) + 1].id
           /\ Entry(doc.sem.inputs, NextInput.id) = NextInput
           /\ NextInput.id \in IdsOf(doc.sem.inputs)
<1>1. Begun <= Len(Obligations)
    BY DEF ExecutionInv, ResultsInv, Begun
<1>2. /\ Unfinished => Current = Begun /\ Begun \in DOMAIN results
      /\ ~Unfinished => Current = Begun + 1 /\ Begun < Len(Obligations)
    BY Standing DEF Unfinished, Current, Remaining
<1>3. Current \in DOMAIN Obligations
    BY <1>1, <1>2, Standing
<1>4. CASE Unfinished
  <2>1. CasesOf(Current) = results[Begun].cases
      BY <1>2, <1>4, Standing DEF CasesOf
  <2>2. Answers(results[Begun], Obligations[Begun], TRUE, Allowed)
      BY <1>2, <1>4 DEF ExecutionInv, ResultsInv, Begun
  <2>3. IsArray(CasesOf(Current)) /\ Len(CasesOf(Current)) < Len(Obligations[Current].inputs)
      BY <1>2, <1>4, <2>1, <2>2 DEF Answers, Unfinished
  <2> QED
      BY <1>2, <1>3, <1>4, <2>3, Standing, ArrayIndices, NextCaseInput
<1>5. CASE ~Unfinished
  <2>1. CasesOf(Current) = <<>>
      BY <1>2, <1>5, Standing DEF CasesOf
  <2>2. IsArray(<<>>) /\ Len(<<>>) = 0
      BY DEF IsArray
  <2>3. 1 \in DOMAIN Obligations[Current].inputs
      BY <1>3, Standing
  <2> QED
      BY <1>2, <1>3, <1>5, <2>1, <2>2, <2>3, NextCaseInput
<1> QED
    BY <1>4, <1>5

LEMMA InitExecutionInv == Init => ExecutionInv
<1> SUFFICES ASSUME Init PROVE ExecutionInv
    OBVIOUS
<1>1. IsArray(results) /\ Len(results) = 0 /\ DOMAIN results = {}
  <2>1. results = <<>>
      BY DEF Init
  <2> QED
      BY <2>1 DEF IsArray
<1>2. Len(Obligations) \in Nat
    BY DocumentAssumption, ArrayIndices DEF Init, IsDocument, IsSemantics, Obligations
<1> QED
    BY <1>1, <1>2 DEF Init, ExecutionInv, ResultsInv

LEMMA AllowedKept ==
    ASSUME doc' = doc PROVE Allowed' = Allowed /\ Obligations' = Obligations
BY DEF Allowed, Obligations, Possible, Unsendable, CaseVerdict, Waf, Request

\* Steps that leave the document and the results alone.
LEMMA ResultsKept ==
    ASSUME ResultsInv, doc' = doc, results' = results PROVE ResultsInv'
BY AllowedKept DEF ResultsInv

LEMMA RemainingKept ==
    ASSUME doc' = doc, results' = results PROVE Remaining' = Remaining
BY DEF Remaining, Unfinished, Begun, Obligations

LEMMA CheckedKept ==
    ASSUME doc' = doc
    PROVE  /\ Resolvable2' <=> Resolvable2
           /\ Preparable(doc.bundle, doc.sem)' <=> Preparable(doc.bundle, doc.sem)
BY DEF Resolvable2

LEMMA NextResults ==
    ASSUME ExecutionInv, ExecuteCase PROVE ResultsInv' /\ results' # <<>>
<1>1. PICK disposition \in Possible(NextInput.input, live) : Record(disposition)
    BY DEF ExecuteCase
<1> DEFINE case == [input |-> NextInput.id, disposition |-> disposition]
           cases == Append(CasesOf(Current), case)
           result == [id |-> Obligations[Current].id, cases |-> cases]
           n == Len(CasesOf(Current))
<1>2. doc' = doc /\ phase = "cases" /\ Remaining
    BY DEF ExecuteCase
<1>3. /\ Current \in DOMAIN Obligations
      /\ IsArray(CasesOf(Current))
      /\ n + 1 \in DOMAIN Obligations[Current].inputs
      /\ Unfinished => Current = Begun /\ Begun \in DOMAIN results
      /\ ~Unfinished => Current = Begun + 1 /\ CasesOf(Current) = <<>>
      /\ case = [input |-> Obligations[Current].inputs[n + 1].id, disposition |-> case.disposition]
      /\ Entry(doc.sem.inputs, case.input) = NextInput
      /\ case.input \in IdsOf(doc.sem.inputs)
    BY <1>2, NextCase
<1>4. case.disposition \in Allowed[case.input]
  <2>1. disposition \in Possible(NextInput.input, TRUE)
      BY DEF Possible
  <2> QED
      BY <1>3, <2>1 DEF Allowed
<1>5. \A k \in DOMAIN CasesOf(Current) :
        /\ CasesOf(Current)[k] = [input |-> Obligations[Current].inputs[k].id,
                                  disposition |-> CasesOf(Current)[k].disposition]
        /\ CasesOf(Current)[k].input \in IdsOf(doc.sem.inputs)
        /\ CasesOf(Current)[k].disposition \in Allowed[CasesOf(Current)[k].input]
  <2>1. CASE Unfinished
    <3>1. CasesOf(Current) = results[Begun].cases
        BY <1>3, <2>1, Standing DEF CasesOf
    <3>2. Answers(results[Begun], Obligations[Begun], TRUE, Allowed)
        BY <1>3, <2>1 DEF ExecutionInv, ResultsInv, Begun
    <3> QED
        BY <1>3, <2>1, <3>1, <3>2 DEF Answers, Allowed
  <2>2. CASE ~Unfinished
    <3>1. CasesOf(Current) = <<>>
        BY <1>3, <2>2
    <3> QED
        BY <3>1
  <2> QED
      BY <2>1, <2>2
<1>6. /\ IsArray(cases) /\ Len(cases) = n + 1
      /\ (\A k \in DOMAIN CasesOf(Current) : cases[k] = CasesOf(Current)[k])
      /\ cases[n + 1] = case
  <2> HIDE DEF case
  <2> QED
      BY <1>3, AppendArray
<1>7. n \in Nat /\ DOMAIN CasesOf(Current) = 1..n
    BY <1>3, ArrayIndices
<1> HIDE DEF case, cases, n
<1>8. Answers(result, Obligations[Current], TRUE, Allowed)
  <2>1. DOMAIN cases = 1..(n + 1)
      BY <1>6, ArrayIndices
  <2>2. ASSUME NEW k \in DOMAIN cases
        PROVE  /\ cases[k] = [input |-> Obligations[Current].inputs[k].id,
                              disposition |-> cases[k].disposition]
               /\ cases[k].input \in DOMAIN Allowed
               /\ cases[k].disposition \in Allowed[cases[k].input]
    <3>0. DOMAIN Allowed = IdsOf(doc.sem.inputs)
        BY DEF Allowed
    <3>1. CASE k = n + 1
        BY <1>3, <1>4, <1>6, <3>0, <3>1
    <3>2. CASE k # n + 1
      <4>1. k \in DOMAIN CasesOf(Current)
          BY <1>7, <2>1, <3>2
      <4> QED
          BY <1>5, <1>6, <3>0, <4>1
    <3> QED
        BY <3>1, <3>2
  <2>3. Len(cases) \in 1..Len(Obligations[Current].inputs)
      BY <1>3, <1>6, <1>7, Standing
  <2> HIDE DEF cases
  <2>4. result = [id |-> Obligations[Current].id, cases |-> result.cases] /\ result.cases = cases
      OBVIOUS
  <2> QED
      BY <1>6, <2>2, <2>3, <2>4 DEF Answers
<1>9. results' = IF Unfinished THEN [results EXCEPT ![Begun] = result] ELSE Append(results, result)
    BY <1>1 DEF Record, case, cases
<1>10. /\ IsArray(results) /\ Begun = Len(results) /\ Begun <= Len(Obligations)
       /\ \A o \in DOMAIN results : Answers(results[o], Obligations[o], o = Begun, Allowed)
    BY DEF ExecutionInv, ResultsInv, Begun
<1> HIDE DEF result
<1>11. CASE Unfinished
  <2>1. /\ IsArray(results') /\ Len(results') = Begun
        /\ \A o \in DOMAIN results : results'[o] = IF o = Begun THEN result ELSE results[o]
      BY <1>3, <1>9, <1>10, <1>11, ReplaceArray
  <2>2. DOMAIN results' = DOMAIN results
      BY <1>10, <2>1, ArrayIndices
  <2>3. ASSUME NEW o \in DOMAIN results'
        PROVE  Answers(results'[o], Obligations[o], o = Begun, Allowed)
    <3>1. CASE o = Begun
      <4>1. results'[o] = result /\ Obligations[o] = Obligations[Current] /\ (o = Begun) = TRUE
          BY <1>3, <1>11, <2>1, <2>2, <3>1
      <4> QED
          BY <1>8, <4>1
    <3>2. CASE o # Begun
      <4>1. results'[o] = results[o]
          BY <2>1, <2>2, <3>2
      <4> QED
          BY <1>10, <2>2, <4>1
    <3> QED
        BY <3>1, <3>2
  <2>4. results' # <<>>
      BY <1>3, <1>11, <2>2
  <2> QED
      BY <1>2, <1>10, <2>1, <2>3, <2>4, AllowedKept DEF ResultsInv
<1>12. CASE ~Unfinished
  <2>1. /\ IsArray(results') /\ Len(results') = Begun + 1
        /\ \A o \in DOMAIN results : results'[o] = results[o]
        /\ results'[Begun + 1] = result
      BY <1>9, <1>10, <1>12, AppendArray
  <2>2. DOMAIN results' = 1..(Begun + 1) /\ DOMAIN results = 1..Begun /\ Begun \in Nat
      BY <1>10, <2>1, ArrayIndices
  <2>3. ASSUME NEW o \in DOMAIN results'
        PROVE  Answers(results'[o], Obligations[o], o = Begun + 1, Allowed)
    <3>1. CASE o = Begun + 1
      <4>1. results'[o] = result /\ Obligations[o] = Obligations[Current] /\ (o = Begun + 1) = TRUE
          BY <1>3, <1>12, <2>1, <3>1
      <4> QED
          BY <1>8, <4>1
    <3>2. CASE o # Begun + 1
      <4>1. results'[o] = results[o] /\ o \in DOMAIN results
          BY <2>1, <2>2, <3>2
      <4>2. Answers(results[o], Obligations[o], FALSE, Allowed)
        <5>1. CASE o # Begun
          <6>1. (o = Begun) = FALSE
              BY <5>1
          <6> QED
              BY <1>10, <4>1, <6>1
        <5>2. CASE o = Begun
          <6>1. Answers(results[o], Obligations[o], TRUE, Allowed)
            <7>1. (o = Begun) = TRUE
                BY <5>2
            <7> QED
                BY <1>10, <4>1, <7>1
          <6>2. ~(Len(results[o].cases) < Len(Obligations[o].inputs))
              BY <1>12, <2>2, <4>1, <5>2 DEF Unfinished
          <6>3. o \in DOMAIN Obligations
              BY <1>10, <2>2, <5>2, <4>1, Standing
          <6>4. Len(results[o].cases) = Len(Obligations[o].inputs)
              BY <6>1, <6>2, <6>3, Standing DEF Answers
          <6> QED
              BY <6>1, <6>4 DEF Answers
        <5> QED
            BY <5>1, <5>2
      <4>3. (o = Begun + 1) = FALSE
          BY <3>2
      <4> QED
          BY <4>1, <4>2, <4>3
    <3> QED
        BY <3>1, <3>2
  <2>4. results' # <<>> /\ Begun + 1 <= Len(Obligations)
      BY <1>3, <1>12, <2>2, Standing
  <2> QED
      BY <1>2, <1>10, <2>1, <2>3, <2>4, AllowedKept DEF ResultsInv
<1> QED
    BY <1>11, <1>12

LEMMA NextExecutionInv ==
    ASSUME ExecutionInv, [Next]_vars PROVE ExecutionInv'
<1>0. /\ doc \in Documents /\ live \in BOOLEAN /\ ResultsInv
      /\ results # <<>> => Checked
    BY DEF ExecutionInv
<1>1. CASE Resolve
  <2>1. phase = "resolve" /\ phase' = "prepare" /\ Resolvable2 /\ results = <<>>
        /\ outcome' = NoOutcome /\ UNCHANGED <<doc, live, results>>
      BY <1>1 DEF Resolve, ExecutionInv
  <2> QED
      BY <1>0, <2>1, ResultsKept, CheckedKept DEF ExecutionInv
<1>2. ASSUME CouldNotTest, phase \in {"resolve", "prepare", "start"} PROVE ExecutionInv'
  <2>1. results = <<>> /\ phase' = "end" /\ UNCHANGED <<doc, live, results>>
        /\ outcome' = [state |-> "could-not-test", match |-> FALSE]
      BY <1>2 DEF CouldNotTest, ExecutionInv
  <2> QED
      BY <1>0, <2>1, ResultsKept DEF ExecutionInv
<1>3. CASE ResolveFails
    BY <1>2, <1>3 DEF ResolveFails
<1>4. CASE Prepare
  <2>1. CASE Preparable(doc.bundle, doc.sem)
    <3>1. phase = "prepare" /\ phase' = "start" /\ Resolvable2 /\ results = <<>>
          /\ outcome' = NoOutcome /\ UNCHANGED <<doc, live, results>>
        BY <1>4, <2>1 DEF Prepare, ExecutionInv
    <3> QED
        BY <1>0, <2>1, <3>1, ResultsKept, CheckedKept DEF ExecutionInv
  <2>2. CASE ~Preparable(doc.bundle, doc.sem)
      BY <1>2, <1>4, <2>2 DEF Prepare
  <2> QED
      BY <2>1, <2>2
<1>5. CASE Start
  <2>1. phase = "start" /\ phase' = "cases" /\ Resolvable2 /\ Preparable(doc.bundle, doc.sem)
        /\ results = <<>> /\ outcome' = NoOutcome /\ UNCHANGED <<doc, live, results>>
      BY <1>5 DEF Start, ExecutionInv
  <2> QED
      BY <1>0, <2>1, ResultsKept, CheckedKept DEF ExecutionInv
<1>6. CASE StartFails
    BY <1>2, <1>6 DEF StartFails
<1>7. CASE ExecuteCase
  <2>1. phase = "cases" /\ Resolvable2 /\ Preparable(doc.bundle, doc.sem)
        /\ outcome' = NoOutcome /\ UNCHANGED <<doc, phase, live>>
      BY <1>7 DEF ExecuteCase, ExecutionInv
  <2>2. ResultsInv'
      BY <1>7, NextResults
  <2> QED
      BY <1>0, <2>1, <2>2, CheckedKept DEF ExecutionInv, Checked
<1>8. CASE CasesDone
  <2>1. phase = "cases" /\ phase' = "account" /\ Resolvable2 /\ Preparable(doc.bundle, doc.sem)
        /\ outcome' = NoOutcome /\ UNCHANGED <<doc, live, results>> /\ ~Remaining
      BY <1>8 DEF CasesDone, ExecutionInv
  <2> QED
      BY <1>0, <2>1, ResultsKept, RemainingKept, CheckedKept DEF ExecutionInv, Checked
<1>9. CASE Account
  <2>1. phase = "account" /\ phase' = "end" /\ Checked /\ ~Remaining
        /\ UNCHANGED <<doc, live, results>>
      BY <1>9 DEF Account, ExecutionInv, Checked
  <2>2. Checked' /\ ~Remaining' /\ ResultsInv'
      BY <1>0, <2>1, ResultsKept, RemainingKept, CheckedKept DEF Checked
  <2>3. outcome' = IF AccountingHolds(doc.sem, results, Accounting(doc.sem, results))
                   THEN [state |-> Terminal(DispositionsOf(results)),
                         match |-> DispositionsOf(results) \subseteq {"blocked"}]
                   ELSE [state |-> "malfunction", match |-> FALSE]
      BY <1>9 DEF Account
  <2>4. (LET ds == DispositionsOf(results) IN
         outcome = IF AccountingHolds(doc.sem, results, Accounting(doc.sem, results))
                   THEN [state |-> Terminal(ds), match |-> ds \subseteq {"blocked"}]
                   ELSE [state |-> "malfunction", match |-> FALSE])'
      BY <2>1, <2>3
  <2> QED
      BY <1>0, <2>1, <2>2, <2>4 DEF ExecutionInv
<1>10. CASE Cancel
  <2>1. phase # "end" /\ live' = FALSE /\ UNCHANGED <<doc, phase, results, outcome>>
      BY <1>10 DEF Cancel
  <2>2. live' \in BOOLEAN /\ phase' # "end" /\ phase' = phase /\ doc' = doc /\ results' = results
        /\ outcome' = NoOutcome
      BY <2>1 DEF ExecutionInv
  <2>3. ResultsInv' /\ Remaining' = Remaining /\ (Resolvable2' <=> Resolvable2)
        /\ (Preparable(doc.bundle, doc.sem)' <=> Preparable(doc.bundle, doc.sem))
      BY <1>0, <2>2, ResultsKept, RemainingKept, CheckedKept
  <2> QED
      BY <1>0, <2>2, <2>3 DEF ExecutionInv, Checked
<1>11. CASE UNCHANGED vars
  <2>1. UNCHANGED <<doc, live, phase, results, outcome>>
      BY <1>11 DEF vars
  <2>2. (LET ds == DispositionsOf(results) IN
         outcome = IF AccountingHolds(doc.sem, results, Accounting(doc.sem, results))
                   THEN [state |-> Terminal(ds), match |-> ds \subseteq {"blocked"}]
                   ELSE [state |-> "malfunction", match |-> FALSE])'
        <=> (LET ds == DispositionsOf(results) IN
             outcome = IF AccountingHolds(doc.sem, results, Accounting(doc.sem, results))
                       THEN [state |-> Terminal(ds), match |-> ds \subseteq {"blocked"}]
                       ELSE [state |-> "malfunction", match |-> FALSE])
      BY <2>1
  <2> QED
      BY <1>0, <2>1, <2>2, ResultsKept, RemainingKept, CheckedKept DEF ExecutionInv, Checked
<1> QED
    BY <1>1, <1>3, <1>4, <1>5, <1>6, <1>7, <1>8, <1>9, <1>10, <1>11 DEF Next

\* Whatever fails or is cancelled, cases are only run of a checked document, and
\* what is recorded of them is a prefix of what the obligations require, in which
\* each case says what the control of the bundle allows (ResolveV2,
\* executeSharedContractV2).
THEOREM ExecutionInductive == Spec => []ExecutionInv
BY InitExecutionInv, NextExecutionInv, PTL DEF Spec

----------------------------------------------------------------------------
(* What a case says is what the control says *)

\* A recorded case is one of an input of the semantics, and its disposition is
\* possible of that input.
LEMMA CasesAreAllowed ==
    ASSUME ExecutionInv, NEW o \in DOMAIN results, NEW k \in DOMAIN results[o].cases
    PROVE  /\ Checked
           /\ results[o].cases[k].input \in IdsOf(doc.sem.inputs)
           /\ results[o].cases[k].disposition
                \in Possible(Entry(doc.sem.inputs, results[o].cases[k].input).input, TRUE)
<1>1. Answers(results[o], Obligations[o], o = Len(results), Allowed)
    BY DEF ExecutionInv, ResultsInv
<1>2. /\ results[o].cases[k].input \in DOMAIN Allowed
      /\ results[o].cases[k].disposition \in Allowed[results[o].cases[k].input]
    BY <1>1 DEF Answers
<1>3. results # <<>>
    OBVIOUS
<1> QED
    BY <1>2, <1>3 DEF Allowed, ExecutionInv

LEMMA PossibleMeans ==
    ASSUME ExecutionInv, Checked, NEW id \in IdsOf(doc.sem.inputs),
           NEW input, input = Entry(doc.sem.inputs, id).input,
           NEW u \in Possible(input, TRUE)
    PROVE  /\ u \in Dispositions
           /\ u = "blocked" => Stopped(input) /\ CaseVerdict(input) = "match"
           /\ u = "not-blocked" =>
                /\ HasRoute(input) /\ ~Unsendable(input)
                /\ ControlFails(Waf, RouteOf(input), Request(input), BodyText(input.body))
           /\ u = "safety-stop" /\ ~Unsendable(input) /\ Stopped(input) =>
                ControlGarbles(Waf, RouteOf(input), Request(input), BodyText(input.body))
<1>1. CASE ~HasRoute(input)
    BY <1>1 DEF Possible, Dispositions
<1>2. CASE HasRoute(input) /\ Unsendable(input)
    BY <1>2 DEF Possible, Dispositions, Stopped
<1>3. CASE HasRoute(input) /\ ~Unsendable(input)
  <2> DEFINE R == Request(input)
             B == BodyText(input.body)
             v == CaseVerdict(input)
  <2>1. Fielded(R)
      BY <1>3, RequestsAreFielded DEF ExecutionInv
  <2>2. Ordered(Waf)
      BY WafIsOrdered DEF ExecutionInv, Checked, Waf
  <2>3. v = Evaluate(Waf, RouteOf(input), R, B)
      BY DEF CaseVerdict
  <2>4. u \in IF v = "error" THEN {"safety-stop"}
              ELSE IF v = "match" THEN {"blocked"} ELSE {"safety-stop", "not-blocked"}
      BY <1>3 DEF Possible
  <2> HIDE DEF R, B, v
  <2>5. /\ v \in {"match", "miss", "error"}
        /\ v = "match" => ControlHolds(Waf, RouteOf(input), R, B)
        /\ v = "miss" => ControlFails(Waf, RouteOf(input), R, B)
        /\ v = "error" /\ ControlHolds(Waf, RouteOf(input), R, B) =>
             ControlGarbles(Waf, RouteOf(input), R, B)
      BY <2>1, <2>2, <2>3, EvaluateMeans
  <2>6. Stopped(input) <=> ControlHolds(Waf, RouteOf(input), R, B)
      BY <1>3 DEF Stopped, R, B
  <2>7. v = "miss" => ~ControlHolds(Waf, RouteOf(input), R, B)
      BY <2>5 DEF ControlFails, ControlHolds, RuleFails
  <2>8. CASE v = "match"
    <3>1. u = "blocked"
        BY <2>4, <2>8
    <3> QED
        BY <2>5, <2>6, <2>8, <3>1 DEF Dispositions, v
  <2>9. CASE v = "error"
    <3>1. u = "safety-stop"
        BY <2>4, <2>9
    <3> QED
        BY <2>5, <2>6, <2>9, <3>1 DEF Dispositions, R, B
  <2>10. CASE v = "miss"
    <3>1. u \in {"safety-stop", "not-blocked"}
        BY <2>4, <2>10
    <3> QED
        BY <1>3, <2>5, <2>6, <2>7, <2>10, <3>1 DEF Dispositions, R, B
  <2> QED
      BY <2>5, <2>8, <2>9, <2>10
<1> QED
    BY <1>1, <1>2, <1>3

LEMMA InvGivesJustice == ExecutionInv => DispositionsAreJust
<1> SUFFICES ASSUME ExecutionInv, NEW o \in DOMAIN results, NEW k \in DOMAIN results[o].cases
             PROVE  LET case == results[o].cases[k]
                        input == Entry(doc.sem.inputs, case.input).input
                    IN /\ case.disposition = "blocked" => Stopped(input)
                       /\ case.disposition = "not-blocked" =>
                            /\ ~Unsendable(input)
                            /\ ControlFails(Waf, RouteOf(input), Request(input),
                                            BodyText(input.body))
                       /\ case.disposition = "safety-stop" /\ ~Unsendable(input)
                            /\ Stopped(input) =>
                              ControlGarbles(Waf, RouteOf(input), Request(input),
                                             BodyText(input.body))
    BY DEF DispositionsAreJust
<1> QED
    BY CasesAreAllowed, PossibleMeans

\* For any texts, rules and routes: a case is blocked only if the control matches
\* it, let through only if every alternative surely fails, and stopped for safety
\* despite a match only where a text could not be decoded (evaluate).
THEOREM DispositionsAreJustHolds == Spec => []DispositionsAreJust
BY ExecutionInductive, InvGivesJustice, PTL

----------------------------------------------------------------------------
(* A control bound to routes *)

LEMMA SameRoute ==
    ASSUME NEW b, ValidRoute(b), NEW input, RouteApplies(b, RouteOf(input)),
           b = [kind |-> b.kind, method |-> b.method, key |-> b.key, site |-> b.site, path |-> b.path]
    PROVE  b = RouteOf(input)
<1> DEFINE r == RouteOf(input)
<1>1. r = [kind |-> r.kind, method |-> r.method, key |-> r.key, site |-> r.site, path |-> r.path]
    BY DEF RouteOf
<1>2. r.kind = "opaque-path-key" => r.site = "" /\ r.path = ""
    BY DEF RouteOf
<1>3. r.kind = "rendered-http-route" => r.key = ""
    BY DEF RouteOf
<1>4. b.kind = r.kind /\ b.method = r.method
    BY DEF RouteApplies
<1> HIDE DEF r
<1>5. b.key = r.key /\ b.site = r.site /\ b.path = r.path
    BY <1>2, <1>3, <1>4 DEF RouteApplies, ValidRoute, r
<1> QED
    BY <1>1, <1>4, <1>5 DEF r

\* The outcome of an alternative is one of its components and the rules.
OutcomeOf(rules, components, request, body) ==
    LET found == [j \in DOMAIN components |-> RuleOutcome(rules[components[j]], request, body)]
        stops == {j \in DOMAIN components : found[j] # "hit"}
    IN IF stops = {} THEN "hit" ELSE found[Min1(stops)]

LEMMA OutcomeOfComponents ==
    ASSUME NEW waf, NEW a, NEW request, NEW body
    PROVE  AlternativeOutcome(waf, a, request, body)
             = OutcomeOf(waf.rules, a.components, request, body)
BY Zenon DEF AlternativeOutcome, OutcomeOf

\* Without its routes the control keeps its alternatives and what each says.
LEMMA UnboundKeeps ==
    ASSUME NEW waf, waf = [rules |-> waf.rules, alternatives |-> waf.alternatives],
           Ordered(waf), NEW k \in DOMAIN waf.alternatives, NEW route,
           \A i \in DOMAIN waf.alternatives :
             waf.alternatives[i] = [components |-> waf.alternatives[i].components,
                                    bound |-> waf.alternatives[i].bound,
                                    route |-> waf.alternatives[i].route],
           NEW request, NEW body
    PROVE  /\ k \in Applicable(Unbound(waf), route)
           /\ Ordered(Unbound(waf))
           /\ AlternativeOutcome(Unbound(waf), Unbound(waf).alternatives[k], request, body)
                = AlternativeOutcome(waf, waf.alternatives[k], request, body)
<1> DEFINE as == waf.alternatives
           bs == [i \in DOMAIN as |-> [as[i] EXCEPT !.bound = FALSE]]
<1>1. Unbound(waf).rules = waf.rules /\ Unbound(waf).alternatives = bs
    BY DEF Unbound
<1>2. ASSUME NEW i \in DOMAIN as
      PROVE  bs[i].components = as[i].components /\ bs[i].bound = FALSE
  <2>1. as[i] = [components |-> as[i].components, bound |-> as[i].bound, route |-> as[i].route]
      OBVIOUS
  <2> QED
      BY <2>1
<1>3. Ordered(Unbound(waf))
  <2>1. Len(as) \in Nat /\ DOMAIN as = 1..Len(as)
      BY ArrayIndices DEF Ordered
  <2>2. bs = [i \in 1..Len(as) |-> bs[i]]
      BY <2>1
  <2>3. IsArray(bs)
      BY <2>1, <2>2, MakesArray
  <2>4. \A i \in DOMAIN bs : IsArray(bs[i].components)
      BY <1>2 DEF Ordered
  <2> HIDE DEF bs
  <2> QED
      BY <1>1, <2>3, <2>4 DEF Ordered
<1>4. AlternativeOutcome(Unbound(waf), bs[k], request, body)
        = AlternativeOutcome(waf, as[k], request, body)
  <2>1. bs[k].components = as[k].components /\ Unbound(waf).rules = waf.rules
      BY <1>1, <1>2
  <2>2. AlternativeOutcome(Unbound(waf), bs[k], request, body)
          = OutcomeOf(Unbound(waf).rules, bs[k].components, request, body)
      BY OutcomeOfComponents
  <2>3. AlternativeOutcome(waf, as[k], request, body)
          = OutcomeOf(waf.rules, as[k].components, request, body)
      BY OutcomeOfComponents
  <2> HIDE DEF bs
  <2> QED
      BY <2>1, <2>2, <2>3
<1>5. k \in Applicable(Unbound(waf), route)
  <2>1. bs[k].bound = FALSE /\ k \in DOMAIN bs
      BY <1>2
  <2> HIDE DEF bs
  <2> QED
      BY <1>1, <2>1 DEF Applicable
<1> QED
    BY <1>1, <1>3, <1>4, <1>5

\* The alternative of a route-bound control that stopped a request is of the
\* route of the request, to which each of its components has inputs.
LEMMA DecidingIsAncestral ==
    ASSUME ExecutionInv, Checked,
           NEW main, main = ContentOf(doc.bundle, "match-rule"), main.placement = "route-bound-v1",
           NEW input, NEW k \in Applicable(Waf, RouteOf(input))
    PROVE  /\ RouteApplies(Waf.alternatives[k].route, RouteOf(input))
           /\ \A j \in DOMAIN Waf.alternatives[k].components :
                InputsAt(Waf.alternatives[k].components[j], RouteOf(input), doc.sem) # <<>>
<1>1. IsRuleSet(main)
    BY RuleSetIsShaped DEF ExecutionInv, Checked
<1>2. Waf.alternatives = [i \in DOMAIN main.routes |->
                            [components |-> main.routes[i].components, bound |-> TRUE,
                             route |-> main.routes[i].route]]
    BY DEF Waf, PreparedWaf, AlternativesOf
<1>3. k \in DOMAIN Waf.alternatives
      /\ (Waf.alternatives[k].bound => RouteApplies(Waf.alternatives[k].route, RouteOf(input)))
    BY DEF Applicable
<1>4. k \in DOMAIN main.routes /\ Waf.alternatives[k].bound = TRUE
      /\ Waf.alternatives[k].route = main.routes[k].route
      /\ Waf.alternatives[k].components = main.routes[k].components
    BY <1>2, <1>3
<1>5. RoutesHold(main, doc.sem)
    BY DEF Checked, Preparable
<1>6. ValidRoute(main.routes[k].route)
      /\ \A j \in DOMAIN main.routes[k].components :
           InputsAt(main.routes[k].components[j], main.routes[k].route, doc.sem) # <<>>
    BY <1>4, <1>5 DEF RoutesHold, RouteAlternativeHolds
<1>7. main.routes[k].route =
        [kind |-> main.routes[k].route.kind, method |-> main.routes[k].route.method,
         key |-> main.routes[k].route.key, site |-> main.routes[k].route.site,
         path |-> main.routes[k].route.path]
    BY <1>1, <1>4, Zenon DEF IsRuleSet
<1>8. RouteApplies(main.routes[k].route, RouteOf(input))
    BY <1>3, <1>4
<1>9. main.routes[k].route = RouteOf(input)
    BY <1>6, <1>7, <1>8, SameRoute
<1> QED
    BY <1>4, <1>6, <1>8, <1>9

LEMMA AlternativesAreRecords ==
    ASSUME NEW main, NEW as, as = AlternativesOf(main), NEW i \in DOMAIN as
    PROVE  as[i] = [components |-> as[i].components, bound |-> as[i].bound, route |-> as[i].route]
<1>1. CASE main.placement = "route-bound-v1"
    BY <1>1 DEF AlternativesOf
<1>2. CASE main.placement # "route-bound-v1"
    BY <1>2 DEF AlternativesOf
<1> QED
    BY <1>1, <1>2

LEMMA InvGivesAncestry == ExecutionInv => RoutesAreAncestral
<1> SUFFICES ASSUME ExecutionInv, NEW o \in DOMAIN results, NEW n \in DOMAIN results[o].cases,
                    NEW input, input = Entry(doc.sem.inputs, results[o].cases[n].input).input,
                    NEW main, main = ContentOf(doc.bundle, "match-rule"),
                    main.placement = "route-bound-v1", results[o].cases[n].disposition = "blocked"
             PROVE  LET deciding ==
                          {a \in DOMAIN Waf.alternatives :
                             /\ RouteApplies(Waf.alternatives[a].route, RouteOf(input))
                             /\ AlternativeOutcome(Waf, Waf.alternatives[a], Request(input),
                                                   BodyText(input.body)) = "hit"}
                    IN /\ \E a \in deciding : \A c \in
                            {Waf.alternatives[a].components[j] :
                               j \in DOMAIN Waf.alternatives[a].components} :
                              InputsAt(c, RouteOf(input), doc.sem) # <<>>
                       /\ Evaluate(Unbound(Waf), RouteOf(input), Request(input),
                                   BodyText(input.body)) # "miss"
    BY Zenon DEF RoutesAreAncestral
<1> DEFINE R == Request(input)
           B == BodyText(input.body)
           O(k) == AlternativeOutcome(Waf, Waf.alternatives[k], R, B)
<1>1. /\ Checked /\ results[o].cases[n].input \in IdsOf(doc.sem.inputs)
      /\ CaseVerdict(input) = "match" /\ HasRoute(input)
  <2>1. Checked /\ results[o].cases[n].input \in IdsOf(doc.sem.inputs)
        /\ "blocked" \in Possible(input, TRUE)
      BY CasesAreAllowed
  <2> QED
      BY <2>1, PossibleMeans DEF Stopped
<1>2. Fielded(R)
    BY <1>1, RequestsAreFielded DEF ExecutionInv
<1>3. Ordered(Waf)
    BY <1>1, WafIsOrdered DEF ExecutionInv, Checked, Waf
<1>4. Evaluate(Waf, RouteOf(input), R, B) = "match"
    BY <1>1 DEF CaseVerdict
<1>5. PICK k \in Applicable(Waf, RouteOf(input)) : O(k) = "hit"
  <2> HIDE DEF R, B
  <2> QED
      BY <1>2, <1>3, <1>4, EvaluateMeans
<1>6. k \in DOMAIN Waf.alternatives
    BY DEF Applicable
<1>7. /\ RouteApplies(Waf.alternatives[k].route, RouteOf(input))
      /\ \A j \in DOMAIN Waf.alternatives[k].components :
           InputsAt(Waf.alternatives[k].components[j], RouteOf(input), doc.sem) # <<>>
    BY <1>1, DecidingIsAncestral
<1>8. Evaluate(Unbound(Waf), RouteOf(input), R, B) # "miss"
  <2>1. Waf = [rules |-> Waf.rules, alternatives |-> Waf.alternatives]
        /\ Waf.alternatives = AlternativesOf(main)
      BY DEF Waf, PreparedWaf
  <2>2. \A i \in DOMAIN Waf.alternatives :
          Waf.alternatives[i] = [components |-> Waf.alternatives[i].components,
                                 bound |-> Waf.alternatives[i].bound,
                                 route |-> Waf.alternatives[i].route]
      BY <2>1, AlternativesAreRecords
  <2> HIDE DEF R, B
  <2>5. /\ k \in Applicable(Unbound(Waf), RouteOf(input))
        /\ Ordered(Unbound(Waf))
        /\ AlternativeOutcome(Unbound(Waf), Unbound(Waf).alternatives[k], R, B)
             = AlternativeOutcome(Waf, Waf.alternatives[k], R, B)
      BY <1>3, <1>6, <2>1, <2>2, UnboundKeeps
  <2>6. AlternativeOutcome(Unbound(Waf), Unbound(Waf).alternatives[k], R, B) = "hit"
      BY <1>5, <2>5
  <2> QED
      BY <1>2, <2>5, <2>6, EvaluateMeans
<1> QED
    BY <1>5, <1>6, <1>7, <1>8

\* For any semantics and bundle: what a route-bound control blocks was sent to a
\* route at which the semantics have inputs of each component of the alternative
\* that stopped it, and would not pass the control without routes
\* (prepareSharedWAF, sharedRouteApplies).
THEOREM RoutesAreAncestralHolds == Spec => []RoutesAreAncestral
BY ExecutionInductive, InvGivesAncestry, PTL

----------------------------------------------------------------------------
(* The coverage walk.  Its recursion is over larger and larger sets of groups *)
(* on the path; an induction is the existence of a largest counterexample.    *)

LEMMA LargestSubset ==
    ASSUME NEW G, IsFiniteSet(G), NEW B \in SUBSET (SUBSET G), B # {}
    PROVE  \E v \in B : \A w \in B : v \subseteq w => w = v
<1> DEFINE C == {G \ v : v \in B}
<1>1. C # {} /\ C \subseteq FiniteSubsetsOf(G)
  <2>1. FiniteSubsetsOf(G) = SUBSET G
      BY FS_FiniteSubsetsOfFinite
  <2>2. C # {}
    <3>1. PICK v \in B : TRUE
        OBVIOUS
    <3>2. G \ v \in C
        BY <3>1
    <3> QED
        BY <3>2
  <2>3. C \subseteq SUBSET G
      OBVIOUS
  <2> QED
      BY <2>1, <2>2, <2>3
<1>2. PICK x \in C : \A y \in C : ~(<<y, x>> \in StrictSubsetOrdering(G))
  <2> HIDE DEF C
  <2> QED
      BY <1>1, FS_StrictSubsetOrderingWellFounded, WFMin
<1>3. PICK v \in B : x = G \ v
    OBVIOUS
<1>4. ASSUME NEW w \in B, v \subseteq w PROVE w = v
  <2>1. G \ w \in SUBSET G /\ G \ v \in SUBSET G
      OBVIOUS
  <2>2. ~(<<G \ w, G \ v>> \in StrictSubsetOrdering(G))
      BY <1>2, <1>3
  <2>3. <<G \ w, G \ v>> \in (SUBSET G) \X (SUBSET G)
      BY <2>1
  <2>4. ~(G \ w \subseteq G \ v /\ G \ w # G \ v)
      BY <2>2, <2>3 DEF StrictSubsetOrdering
  <2>5. w \in SUBSET G /\ v \in SUBSET G
      OBVIOUS
  <2> QED
      BY <1>4, <2>4, <2>5
<1> QED
    BY <1>4

LEMMA IdsAreFinite ==
    ASSUME NEW s, IsArray(s)
    PROVE  /\ IsFiniteSet(IdsOf(s)) /\ Cardinality(IdsOf(s)) <= Len(s)
           /\ Cardinality(IdsOf(s)) = Len(s) <=>
                \A i, j \in DOMAIN s : s[i].id = s[j].id => i = j
<1> DEFINE f == [i \in DOMAIN s |-> s[i].id]
<1>1. Len(s) \in Nat /\ DOMAIN s = 1..Len(s)
    BY ArrayIndices
<1>2. IsFiniteSet(DOMAIN s) /\ Cardinality(DOMAIN s) = Len(s)
  <2>1. IsFiniteSet(1..Len(s))
        /\ Cardinality(1..Len(s)) = IF 1 > Len(s) THEN 0 ELSE Len(s) - 1 + 1
      BY <1>1, FS_Interval
  <2> QED
      BY <1>1, <2>1
<1>3. f \in Surjection(DOMAIN s, IdsOf(s))
    BY DEF Surjection, IdsOf
<1>4. f \in Injection(DOMAIN s, IdsOf(s)) <=> \A i, j \in DOMAIN s : s[i].id = s[j].id => i = j
    BY <1>3 DEF Injection, Surjection, IsInjective
<1> HIDE DEF f
<1> QED
    BY <1>2, <1>3, <1>4, FS_Surjection

Groups(sem) == IdsOf(sem.groups)
Above(V, sem) == {v \in SUBSET Groups(sem) : V \subseteq v}

\* Function f is the walk for the paths that have at least the groups V.
WalkRow(v, root, sem, f) ==
    [ref \in AllRefs(sem) \union {root} |-> RefCoverage(ref, sem, v, f[v \union {ref.id}])]
WalkFrom(V, root, sem, f) == f = [v \in Above(V, sem) |-> WalkRow(v, root, sem, f)]

LEMMA BelowMatters ==
    ASSUME NEW ref, NEW sem, NEW v, NEW b, NEW c,
           ref.id \in Groups(sem) \ v => b = c
    PROVE  RefCoverage(ref, sem, v, b) = RefCoverage(ref, sem, v, c)
BY DEF RefCoverage, Groups

LEMMA WalkStep ==
    ASSUME NEW V, NEW root, NEW sem, NEW f, WalkFrom(V, root, sem, f), NEW v \in Above(V, sem)
    PROVE  /\ f[v] = WalkRow(v, root, sem, f)
           /\ \A ref \in AllRefs(sem) \union {root} :
                f[v][ref] = RefCoverage(ref, sem, v, f[v \union {ref.id}])
<1>1. f[v] = WalkRow(v, root, sem, f)
    BY DEF WalkFrom
<1>2. \A ref \in AllRefs(sem) \union {root} :
        WalkRow(v, root, sem, f)[ref] = RefCoverage(ref, sem, v, f[v \union {ref.id}])
    BY DEF WalkRow
<1> QED
    BY <1>1, <1>2

LEMMA WalkIsUnique ==
    ASSUME NEW sem, IsFiniteSet(Groups(sem)), NEW V, NEW root,
           NEW f, WalkFrom(V, root, sem, f), NEW g, WalkFrom(V, root, sem, g)
    PROVE  f = g
<1> DEFINE Bad == {v \in Above(V, sem) : f[v] # g[v]}
<1>1. CASE Bad = {}
  <2>1. DOMAIN f = Above(V, sem) /\ DOMAIN g = Above(V, sem)
        /\ f = [v \in Above(V, sem) |-> f[v]] /\ g = [v \in Above(V, sem) |-> g[v]]
      BY DEF WalkFrom
  <2>2. \A v \in Above(V, sem) : f[v] = g[v]
      BY <1>1
  <2> QED
      BY <2>1, <2>2
<1>2. CASE Bad # {}
  <2>1. Bad \in SUBSET (SUBSET Groups(sem))
      BY DEF Above
  <2>2. PICK v \in Bad : \A w \in Bad : v \subseteq w => w = v
    <3> HIDE DEF Bad
    <3> QED
        BY <1>2, <2>1, LargestSubset
  <2>3. v \in Above(V, sem) /\ f[v] # g[v]
      OBVIOUS
  <2>4. ASSUME NEW ref \in AllRefs(sem) \union {root}
        PROVE  RefCoverage(ref, sem, v, f[v \union {ref.id}])
                 = RefCoverage(ref, sem, v, g[v \union {ref.id}])
    <3>1. ASSUME ref.id \in Groups(sem) \ v
          PROVE  f[v \union {ref.id}] = g[v \union {ref.id}]
      <4>1. v \union {ref.id} \in Above(V, sem) /\ v \union {ref.id} # v
          BY <2>3, <3>1 DEF Above
      <4>2. v \union {ref.id} \notin Bad
          BY <2>2, <4>1
      <4> QED
          BY <4>1, <4>2
    <3> QED
        BY <3>1, BelowMatters
  <2>5. f[v] = WalkRow(v, root, sem, f)
      BY <2>3, WalkStep
  <2>6. g[v] = WalkRow(v, root, sem, g)
      BY <2>3, WalkStep
  <2>7. f[v] = g[v]
      BY <2>4, <2>5, <2>6 DEF WalkRow
  <2> QED
      BY <2>3, <2>7
<1> QED
    BY <1>1, <1>2

LEMMA WalkRestricts ==
    ASSUME NEW sem, NEW V, NEW root, NEW f, WalkFrom(V, root, sem, f),
           NEW W \in Above(V, sem)
    PROVE  WalkFrom(W, root, sem, [v \in Above(W, sem) |-> f[v]])
<1> DEFINE g == [v \in Above(W, sem) |-> f[v]]
           h == [v \in Above(W, sem) |-> WalkRow(v, root, sem, g)]
<1>1. ASSUME NEW v \in Above(W, sem) PROVE g[v] = h[v]
  <2>1. v \in Above(V, sem)
      BY DEF Above
  <2>2. f[v] = WalkRow(v, root, sem, f)
      BY <2>1, WalkStep
  <2>3. ASSUME NEW ref \in AllRefs(sem) \union {root}
        PROVE  RefCoverage(ref, sem, v, f[v \union {ref.id}])
                 = RefCoverage(ref, sem, v, g[v \union {ref.id}])
    <3>1. ASSUME ref.id \in Groups(sem) \ v
          PROVE  f[v \union {ref.id}] = g[v \union {ref.id}]
      <4>1. v \union {ref.id} \in Above(W, sem)
          BY <3>1 DEF Above
      <4> QED
          BY <4>1
    <3> QED
        BY <3>1, BelowMatters
  <2>4. g[v] = f[v] /\ h[v] = WalkRow(v, root, sem, g)
      OBVIOUS
  <2> HIDE DEF g, h
  <2> QED
      BY <2>2, <2>3, <2>4 DEF WalkRow
<1>2. g = h
  <2>1. DOMAIN g = Above(W, sem) /\ g = [v \in Above(W, sem) |-> g[v]]
      OBVIOUS
  <2>2. h = [v \in Above(W, sem) |-> h[v]]
      OBVIOUS
  <2> HIDE DEF g, h
  <2> QED
      BY <1>1, <2>1, <2>2
<1>3. WalkFrom(W, root, sem, g) <=> g = h
    BY DEF WalkFrom
<1> QED
    BY <1>2, <1>3

LEMMA WalkExists ==
    ASSUME NEW sem, IsFiniteSet(Groups(sem)), NEW root
    PROVE  \E f : WalkFrom({}, root, sem, f)
<1> DEFINE Bad == {V \in SUBSET Groups(sem) : ~ \E f : WalkFrom(V, root, sem, f)}
<1>1. CASE Bad = {}
  <2>1. {} \in SUBSET Groups(sem)
      OBVIOUS
  <2> QED
      BY <1>1, <2>1
<1>2. CASE Bad # {}
  <2>1. PICK V \in Bad : \A w \in Bad : V \subseteq w => w = V
    <3>1. Bad \in SUBSET (SUBSET Groups(sem))
        OBVIOUS
    <3> HIDE DEF Bad
    <3> QED
        BY <1>2, <3>1, LargestSubset
  <2> DEFINE F(v) == CHOOSE f : WalkFrom(v, root, sem, f)
             Refs == AllRefs(sem) \union {root}
             top == [ref \in Refs |-> RefCoverage(ref, sem, V, F(V \union {ref.id})[V \union {ref.id}])]
             g == [v \in Above(V, sem) |-> IF v = V THEN top ELSE F(v)[v]]
             h == [v \in Above(V, sem) |-> WalkRow(v, root, sem, g)]
  <2>2. ASSUME NEW v \in Above(V, sem), v # V PROVE WalkFrom(v, root, sem, F(v))
    <3>1. v \in SUBSET Groups(sem) /\ V \subseteq v
        BY DEF Above
    <3>2. v \notin Bad
        BY <2>1, <2>2, <3>1
    <3>3. \E f : WalkFrom(v, root, sem, f)
        BY <3>1, <3>2
    <3> QED
        BY <3>3
  <2> HIDE DEF F
  <2>3. ASSUME NEW v \in Above(V, sem), v # V, NEW w \in Above(v, sem)
        PROVE  F(v)[w] = F(w)[w] /\ w \in Above(V, sem) /\ w # V
    <3>1. w \in Above(V, sem) /\ w # V
        BY <2>3 DEF Above
    <3>2. WalkFrom(w, root, sem, [x \in Above(w, sem) |-> F(v)[x]])
        BY <2>2, <2>3, WalkRestricts
    <3>3. WalkFrom(w, root, sem, F(w))
        BY <2>2, <3>1
    <3>4. F(w) = [x \in Above(w, sem) |-> F(v)[x]]
        BY <3>2, <3>3, WalkIsUnique
    <3>5. w \in Above(w, sem)
        BY DEF Above
    <3> QED
        BY <3>1, <3>4, <3>5
  <2>4. ASSUME NEW v \in Above(V, sem) PROVE g[v] = h[v]
    <3>1. h[v] = [ref \in Refs |-> RefCoverage(ref, sem, v, g[v \union {ref.id}])]
        BY DEF WalkRow
    <3>2. ASSUME NEW ref \in Refs, ref.id \in Groups(sem) \ v
          PROVE  /\ v \union {ref.id} \in Above(v, sem)
                 /\ v \union {ref.id} \in Above(V, sem)
                 /\ v \union {ref.id} # V
                 /\ g[v \union {ref.id}] = F(v \union {ref.id})[v \union {ref.id}]
      <4>1. v \union {ref.id} \in Above(v, sem) /\ v \union {ref.id} \in Above(V, sem)
            /\ v \union {ref.id} # V
          BY <3>2 DEF Above
      <4> HIDE DEF top
      <4> QED
          BY <4>1
    <3>3. CASE v = V
      <4>1. g[v] = top
          BY <3>3
      <4>2. ASSUME NEW ref \in Refs
            PROVE  RefCoverage(ref, sem, v, F(v \union {ref.id})[v \union {ref.id}])
                     = RefCoverage(ref, sem, v, g[v \union {ref.id}])
        <5> HIDE DEF g
        <5> QED
            BY <3>2, BelowMatters
      <4>3. top = [ref \in Refs |-> RefCoverage(ref, sem, v, F(v \union {ref.id})[v \union {ref.id}])]
          BY <3>3
      <4> HIDE DEF g, h, top
      <4> QED
          BY <3>1, <4>1, <4>2, <4>3
    <3>4. CASE v # V
      <4>1. g[v] = F(v)[v]
          BY <3>4
      <4>2. v \in Above(v, sem)
          BY DEF Above
      <4>3. F(v)[v] = WalkRow(v, root, sem, F(v))
          BY <2>2, <3>4, <4>2, WalkStep
      <4>5. F(v)[v] = [ref \in Refs |-> RefCoverage(ref, sem, v, F(v)[v \union {ref.id}])]
          BY <4>3 DEF WalkRow
      <4>4. ASSUME NEW ref \in Refs
            PROVE  RefCoverage(ref, sem, v, F(v)[v \union {ref.id}])
                     = RefCoverage(ref, sem, v, g[v \union {ref.id}])
        <5>1. ASSUME ref.id \in Groups(sem) \ v
              PROVE  F(v)[v \union {ref.id}] = g[v \union {ref.id}]
          <6> HIDE DEF g
          <6> QED
              BY <2>3, <3>2, <3>4, <5>1
        <5> HIDE DEF g
        <5> QED
            BY <5>1, BelowMatters
      <4> HIDE DEF g, h
      <4> QED
          BY <3>1, <4>1, <4>5, <4>4
    <3> QED
        BY <3>3, <3>4
  <2>5. g = h
    <3>1. g = [v \in Above(V, sem) |-> g[v]] /\ h = [v \in Above(V, sem) |-> h[v]]
        OBVIOUS
    <3> HIDE DEF g, h
    <3> QED
        BY <2>4, <3>1
  <2>6. WalkFrom(V, root, sem, g) <=> g = h
      BY DEF WalkFrom
  <2>7. V \notin Bad
    <3> HIDE DEF g, h
    <3> QED
        BY <2>5, <2>6
  <2> QED
      BY <2>7
<1> QED
    BY <1>1, <1>2

\* The walk of a document with known groups takes its own steps.
LEMMA WalkUnfolds ==
    ASSUME NEW sem, IsFiniteSet(Groups(sem)), NEW root,
           NEW v \in SUBSET Groups(sem), NEW ref \in AllRefs(sem) \union {root}
    PROVE  CoverageWalk(root, sem)[v][ref]
             = RefCoverage(ref, sem, v, CoverageWalk(root, sem)[v \union {ref.id}])
<1> DEFINE W == CoverageWalk(root, sem)
<1>1. \A f : WalkFrom({}, root, sem, f) <=>
        f = [x \in SUBSET IdsOf(sem.groups) |-> [r \in AllRefs(sem) \union {root} |->
               RefCoverage(r, sem, x, f[x \union {r.id}])]]
  <2>1. Above({}, sem) = SUBSET IdsOf(sem.groups)
      BY DEF Above, Groups
  <2> QED
      BY <2>1 DEF WalkFrom, WalkRow
<1>2. \E f : f = [x \in SUBSET IdsOf(sem.groups) |-> [r \in AllRefs(sem) \union {root} |->
               RefCoverage(r, sem, x, f[x \union {r.id}])]]
    BY <1>1, WalkExists
<1>3. W = [x \in SUBSET IdsOf(sem.groups) |-> [r \in AllRefs(sem) \union {root} |->
               RefCoverage(r, sem, x, W[x \union {r.id}])]]
    BY <1>2, Zenon DEF CoverageWalk
<1>4. WalkFrom({}, root, sem, W)
    BY <1>1, <1>3
<1>5. v \in Above({}, sem)
    BY DEF Above
<1> HIDE DEF W
<1>6. W[v][ref] = RefCoverage(ref, sem, v, W[v \union {ref.id}])
    BY <1>4, <1>5, WalkStep
<1> QED
    BY <1>6 DEF W

\* What the walk of a reference finds at a reference below it, with groups v on
\* the path.
Covered(root, sem, v, ref) == CoverageWalk(root, sem)[v][ref]
KnownRefs(root, sem) == AllRefs(sem) \union {root}
IsGroup(sem, ref) == ref.kind = "coverage-group" /\ ref.id \in Groups(sem)
IsLeaf(sem, ref) == ref.kind = "component" /\ ref.id \in IdsOf(sem.components)

LEMMA ChildrenAreKnown ==
    ASSUME NEW sem, NEW ref
    PROVE  /\ ChildrenOf(sem, ref) \subseteq AllRefs(sem)
           /\ ~IsGroup(sem, ref) => ChildrenOf(sem, ref) = {}
           /\ IsGroup(sem, ref) =>
                ChildrenOf(sem, ref) = {Entry(sem.groups, ref.id).refs[i] :
                                          i \in DOMAIN Entry(sem.groups, ref.id).refs}
           /\ IsLeaf(sem, ref) => ~IsGroup(sem, ref)
<1>1. ~IsGroup(sem, ref) => ChildrenOf(sem, ref) = {}
    BY Zenon DEF IsGroup, ChildrenOf, Groups
<1>2. IsGroup(sem, ref) =>
        ChildrenOf(sem, ref) = {Entry(sem.groups, ref.id).refs[i] :
                                  i \in DOMAIN Entry(sem.groups, ref.id).refs}
    BY Zenon DEF IsGroup, ChildrenOf, Groups
<1>3. ASSUME ref.id \in Groups(sem)
      PROVE  {Entry(sem.groups, ref.id).refs[i] : i \in DOMAIN Entry(sem.groups, ref.id).refs}
               \subseteq AllRefs(sem)
  <2>1. PICK k \in DOMAIN sem.groups : Entry(sem.groups, ref.id) = sem.groups[k]
      BY <1>3, EntryIsIn DEF Groups
  <2> QED
      BY <2>1 DEF AllRefs
<1>4. IsLeaf(sem, ref) => ~IsGroup(sem, ref)
    BY DEF IsGroup, IsLeaf
<1> QED
    BY <1>1, <1>2, <1>3, <1>4 DEF IsGroup

LEMMA ImagesOfArray ==
    ASSUME NEW s, NEW S, S = {s[i] : i \in DOMAIN s}, NEW b
    PROVE  /\ {b[x].inputs : x \in S} = {b[s[i]].inputs : i \in DOMAIN s}
           /\ {b[x].members : x \in S} = {b[s[i]].members : i \in DOMAIN s}
           /\ (\A x \in S : b[x].ok) <=> (\A i \in DOMAIN s : b[s[i]].ok)
<1>1. \A i \in DOMAIN s : s[i] \in S
    OBVIOUS
<1>2. \A x \in S : \E i \in DOMAIN s : x = s[i]
    OBVIOUS
<1>3. {b[x].inputs : x \in S} = {b[s[i]].inputs : i \in DOMAIN s}
  <2>1. ASSUME NEW x \in S PROVE b[x].inputs \in {b[s[i]].inputs : i \in DOMAIN s}
    <3>1. PICK i \in DOMAIN s : x = s[i]
        BY <1>2
    <3> QED
        BY <3>1
  <2>2. ASSUME NEW i \in DOMAIN s PROVE b[s[i]].inputs \in {b[x].inputs : x \in S}
    <3>1. s[i] \in S
        BY <1>1
    <3> QED
        BY <3>1
  <2> QED
      BY <2>1, <2>2
<1>4. {b[x].members : x \in S} = {b[s[i]].members : i \in DOMAIN s}
  <2>1. ASSUME NEW x \in S PROVE b[x].members \in {b[s[i]].members : i \in DOMAIN s}
    <3>1. PICK i \in DOMAIN s : x = s[i]
        BY <1>2
    <3> QED
        BY <3>1
  <2>2. ASSUME NEW i \in DOMAIN s PROVE b[s[i]].members \in {b[x].members : x \in S}
    <3>1. s[i] \in S
        BY <1>1
    <3> QED
        BY <3>1
  <2> QED
      BY <2>1, <2>2
<1>5. (\A x \in S : b[x].ok) <=> (\A i \in DOMAIN s : b[s[i]].ok)
    BY <1>1, <1>2, Zenon
<1> QED
    BY <1>3, <1>4, <1>5

\* A walk that succeeds at a reference does so at a component, or at a group off
\* the path and at all it refers to.
LEMMA CoveredMeans ==
    ASSUME NEW sem, IsFiniteSet(Groups(sem)), NEW root,
           NEW v \in SUBSET Groups(sem), NEW ref \in KnownRefs(root, sem),
           Covered(root, sem, v, ref).ok
    PROVE  \/ /\ IsLeaf(sem, ref)
              /\ Covered(root, sem, v, ref).inputs = IdSet(Entry(sem.components, ref.id).inputs)
              /\ Covered(root, sem, v, ref).members = IdSet(Entry(sem.components, ref.id).members)
           \/ /\ IsGroup(sem, ref)
              /\ ref.id \notin v
              /\ v \union {ref.id} \in SUBSET Groups(sem)
              /\ \A c \in ChildrenOf(sem, ref) : Covered(root, sem, v \union {ref.id}, c).ok
              /\ Covered(root, sem, v, ref).inputs
                   = UNION {Covered(root, sem, v \union {ref.id}, c).inputs :
                              c \in ChildrenOf(sem, ref)}
              /\ Covered(root, sem, v, ref).members
                   = UNION {Covered(root, sem, v \union {ref.id}, c).members :
                              c \in ChildrenOf(sem, ref)}
<1> DEFINE here == Covered(root, sem, v, ref)
           below == CoverageWalk(root, sem)[v \union {ref.id}]
<1>1. here = RefCoverage(ref, sem, v, below)
    BY WalkUnfolds DEF Covered, KnownRefs
<1>2. here.ok
    OBVIOUS
<1>3. ~BadCoverage.ok
    BY DEF BadCoverage
<1>4. CASE IsLeaf(sem, ref)
  <2>1. here = ComponentCoverage(Entry(sem.components, ref.id))
    <3> HIDE DEF here, below
    <3> QED
        BY <1>1, <1>4, Zenon DEF RefCoverage, IsLeaf
  <2>2. here.inputs = IdSet(Entry(sem.components, ref.id).inputs)
        /\ here.members = IdSet(Entry(sem.components, ref.id).members)
    <3> HIDE DEF here, below
    <3> QED
        BY <2>1, <1>2, <1>3 DEF ComponentCoverage
  <2> QED
      BY <1>4, <2>2
<1>5. CASE ~IsLeaf(sem, ref)
  <2>1. IsGroup(sem, ref) /\ ref.id \notin v
        /\ here = GroupCoverage(Entry(sem.groups, ref.id), below)
    <3> HIDE DEF here, below
    <3> QED
        BY <1>1, <1>2, <1>3, <1>5, Zenon DEF RefCoverage, IsLeaf, IsGroup, Groups
  <2> DEFINE g == Entry(sem.groups, ref.id)
  <2>2. /\ \A i \in DOMAIN g.refs : below[g.refs[i]].ok
        /\ here.inputs = UNION {below[g.refs[i]].inputs : i \in DOMAIN g.refs}
        /\ here.members = UNION {below[g.refs[i]].members : i \in DOMAIN g.refs}
    <3> HIDE DEF here, below, g
    <3> QED
        BY <1>2, <1>3, <2>1 DEF GroupCoverage, g
  <2>3. ChildrenOf(sem, ref) = {g.refs[i] : i \in DOMAIN g.refs}
      BY <2>1, ChildrenAreKnown
  <2>4. \A c : Covered(root, sem, v \union {ref.id}, c) = below[c]
      BY DEF Covered
  <2>5. v \union {ref.id} \in SUBSET Groups(sem)
      BY <2>1 DEF IsGroup
  <2>6. /\ \A c \in ChildrenOf(sem, ref) : below[c].ok
        /\ {below[c].inputs : c \in ChildrenOf(sem, ref)}
             = {below[g.refs[i]].inputs : i \in DOMAIN g.refs}
        /\ {below[c].members : c \in ChildrenOf(sem, ref)}
             = {below[g.refs[i]].members : i \in DOMAIN g.refs}
    <3> HIDE DEF here, below, g
    <3> QED
        BY <2>2, <2>3, ImagesOfArray
  <2>7. /\ \A c \in ChildrenOf(sem, ref) : Covered(root, sem, v \union {ref.id}, c).ok
        /\ here.inputs = UNION {Covered(root, sem, v \union {ref.id}, c).inputs :
                                  c \in ChildrenOf(sem, ref)}
        /\ here.members = UNION {Covered(root, sem, v \union {ref.id}, c).members :
                                   c \in ChildrenOf(sem, ref)}
      BY <2>2, <2>6, Zenon DEF Covered
  <2> HIDE DEF g
  <2> QED
      BY <2>1, <2>5, <2>7
<1> QED
    BY <1>4, <1>5

\* Reachability is the least closed set.
LEMMA ReachedIsLeast ==
    ASSUME NEW sem, NEW ref
    PROVE  /\ ref \in ReachedFrom(sem, ref)
           /\ ReachedFrom(sem, ref) \subseteq AllRefs(sem) \union {ref}
           /\ \A r \in ReachedFrom(sem, ref) : ChildrenOf(sem, r) \subseteq ReachedFrom(sem, ref)
           /\ \A S : ref \in S /\ (\A r \in S : ChildrenOf(sem, r) \subseteq S)
                       => ReachedFrom(sem, ref) \subseteq S
<1> DEFINE known == AllRefs(sem) \union {ref}
           closed == {S \in SUBSET known : ref \in S /\ \A r \in S : ChildrenOf(sem, r) \subseteq S}
           R == ReachedFrom(sem, ref)
<1>1. R = {r \in known : \A S \in closed : r \in S}
    BY DEF ReachedFrom
<1>2. \A r : ChildrenOf(sem, r) \subseteq known
    BY ChildrenAreKnown
<1>3. ASSUME NEW r \in R, NEW c \in ChildrenOf(sem, r) PROVE c \in R
  <2>1. c \in known
      BY <1>2
  <2>2. ASSUME NEW S \in closed PROVE c \in S
    <3>1. r \in S
        BY <1>1
    <3> QED
        BY <3>1
  <2> HIDE DEF R, known, closed
  <2> QED
      BY <1>1, <2>1, <2>2
<1>4. ASSUME NEW S, ref \in S, \A r \in S : ChildrenOf(sem, r) \subseteq S
      PROVE  R \subseteq S
  <2>1. S \intersect known \in closed
      BY <1>2, <1>4
  <2> HIDE DEF R, known, closed
  <2> QED
      BY <1>1, <2>1
<1>5. ref \in R /\ R \subseteq known
    BY <1>1
<1> QED
    BY <1>3, <1>4, <1>5

\* What a reference reaches is itself and what its children reach.
LEMMA ReachedUnfolds ==
    ASSUME NEW sem, NEW ref
    PROVE  ReachedFrom(sem, ref)
             = {ref} \union UNION {ReachedFrom(sem, c) : c \in ChildrenOf(sem, ref)}
<1> DEFINE S == {ref} \union UNION {ReachedFrom(sem, c) : c \in ChildrenOf(sem, ref)}
<1>1. ASSUME NEW r \in S PROVE ChildrenOf(sem, r) \subseteq S
  <2>1. CASE r = ref
    <3>1. \A c \in ChildrenOf(sem, ref) : c \in ReachedFrom(sem, c)
        BY ReachedIsLeast
    <3> QED
        BY <2>1, <3>1
  <2>2. CASE r # ref
    <3>1. PICK c \in ChildrenOf(sem, ref) : r \in ReachedFrom(sem, c)
        BY <2>2
    <3>2. ChildrenOf(sem, r) \subseteq ReachedFrom(sem, c)
        BY <3>1, ReachedIsLeast
    <3> QED
        BY <3>2
  <2> QED
      BY <2>1, <2>2
<1>2. ReachedFrom(sem, ref) \subseteq S
  <2>1. ref \in S
      OBVIOUS
  <2> HIDE DEF S
  <2> QED
      BY <1>1, <2>1, ReachedIsLeast
<1>3. ASSUME NEW c \in ChildrenOf(sem, ref) PROVE ReachedFrom(sem, c) \subseteq ReachedFrom(sem, ref)
  <2>1. c \in ReachedFrom(sem, ref)
      BY ReachedIsLeast
  <2>2. \A r \in ReachedFrom(sem, ref) : ChildrenOf(sem, r) \subseteq ReachedFrom(sem, ref)
      BY ReachedIsLeast
  <2> QED
      BY <2>1, <2>2, ReachedIsLeast
<1>4. ref \in ReachedFrom(sem, ref)
    BY ReachedIsLeast
<1> QED
    BY <1>2, <1>3, <1>4

LEMMA InputsUnfold ==
    ASSUME NEW sem, NEW ref
    PROVE  /\ IsLeaf(sem, ref) =>
                /\ InputsReached(sem, ref) = IdSet(Entry(sem.components, ref.id).inputs)
                /\ MembersReached(sem, ref) = IdSet(Entry(sem.components, ref.id).members)
           /\ IsGroup(sem, ref) =>
                /\ InputsReached(sem, ref)
                     = UNION {InputsReached(sem, c) : c \in ChildrenOf(sem, ref)}
                /\ MembersReached(sem, ref)
                     = UNION {MembersReached(sem, c) : c \in ChildrenOf(sem, ref)}
<1>1. CASE IsLeaf(sem, ref)
  <2>1. ChildrenOf(sem, ref) = {} /\ ~IsGroup(sem, ref)
      BY <1>1, ChildrenAreKnown
  <2>2. ReachedFrom(sem, ref) = {ref}
      BY <2>1, ReachedUnfolds
  <2>3. ComponentsReached(sem, ref) = {Entry(sem.components, ref.id)}
    <3>1. {r \in ReachedFrom(sem, ref) : r.kind = "component"} = {ref}
        BY <1>1, <2>2 DEF IsLeaf
    <3> QED
        BY <3>1 DEF ComponentsReached
  <2> QED
      BY <2>1, <2>3 DEF InputsReached, MembersReached
<1>2. CASE IsGroup(sem, ref)
  <2> DEFINE Found(c) == {r \in ReachedFrom(sem, c) : r.kind = "component"}
  <2>1. ref.kind # "component"
      BY <1>2 DEF IsGroup
  <2>2. Found(ref) = UNION {Found(c) : c \in ChildrenOf(sem, ref)}
    <3>1. ReachedFrom(sem, ref)
            = {ref} \union UNION {ReachedFrom(sem, c) : c \in ChildrenOf(sem, ref)}
        BY ReachedUnfolds
    <3> QED
        BY <2>1, <3>1
  <2>3. \A c : ComponentsReached(sem, c) = {Entry(sem.components, r.id) : r \in Found(c)}
      BY DEF ComponentsReached
  <2> HIDE DEF Found
  <2>4. ComponentsReached(sem, ref)
          = UNION {ComponentsReached(sem, c) : c \in ChildrenOf(sem, ref)}
      BY <2>2, <2>3
  <2>5. ~IsLeaf(sem, ref)
      BY <2>1 DEF IsLeaf
  <2>6. InputsReached(sem, ref) = UNION {InputsReached(sem, c) : c \in ChildrenOf(sem, ref)}
      BY <2>4 DEF InputsReached
  <2>7. MembersReached(sem, ref) = UNION {MembersReached(sem, c) : c \in ChildrenOf(sem, ref)}
      BY <2>4 DEF MembersReached
  <2> QED
      BY <2>5, <2>6, <2>7
<1> QED
    BY <1>1, <1>2

\* A walk that succeeds at a reference finds what the reference reaches.
LEMMA WalkFindsReached ==
    ASSUME NEW sem, IsFiniteSet(Groups(sem)), NEW root,
           NEW v \in SUBSET Groups(sem), NEW ref \in KnownRefs(root, sem),
           Covered(root, sem, v, ref).ok
    PROVE  /\ Covered(root, sem, v, ref).inputs = InputsReached(sem, ref)
           /\ Covered(root, sem, v, ref).members = MembersReached(sem, ref)
<1> DEFINE Right(w, r) == /\ Covered(root, sem, w, r).inputs = InputsReached(sem, r)
                          /\ Covered(root, sem, w, r).members = MembersReached(sem, r)
           Bad == {w \in SUBSET Groups(sem) :
                     \E r \in KnownRefs(root, sem) : Covered(root, sem, w, r).ok /\ ~Right(w, r)}
<1>1. CASE Bad = {}
    BY <1>1
<1>2. CASE Bad # {}
  <2>1. PICK w \in Bad : \A x \in Bad : w \subseteq x => x = w
    <3>1. Bad \in SUBSET (SUBSET Groups(sem))
        OBVIOUS
    <3> HIDE DEF Bad
    <3> QED
        BY <1>2, <3>1, LargestSubset
  <2>2. PICK r \in KnownRefs(root, sem) : Covered(root, sem, w, r).ok /\ ~Right(w, r)
      OBVIOUS
  <2>3. w \in SUBSET Groups(sem)
      OBVIOUS
  <2>4. CASE IsLeaf(sem, r)
    <3>1. ~IsGroup(sem, r)
        BY <2>4, ChildrenAreKnown
    <3>2. Covered(root, sem, w, r).ok
        BY <2>2
    <3>3. /\ Covered(root, sem, w, r).inputs = IdSet(Entry(sem.components, r.id).inputs)
          /\ Covered(root, sem, w, r).members = IdSet(Entry(sem.components, r.id).members)
        BY <2>3, <3>1, <3>2, CoveredMeans
    <3>4. Right(w, r)
        BY <2>4, <3>3, InputsUnfold
    <3> QED
        BY <2>2, <3>4
  <2>5. CASE ~IsLeaf(sem, r)
    <3> DEFINE u == w \union {r.id}
    <3>1. /\ IsGroup(sem, r) /\ r.id \notin w /\ u \in SUBSET Groups(sem)
          /\ \A c \in ChildrenOf(sem, r) : Covered(root, sem, u, c).ok
          /\ Covered(root, sem, w, r).inputs
               = UNION {Covered(root, sem, u, c).inputs : c \in ChildrenOf(sem, r)}
          /\ Covered(root, sem, w, r).members
               = UNION {Covered(root, sem, u, c).members : c \in ChildrenOf(sem, r)}
        BY <2>2, <2>3, <2>5, CoveredMeans
    <3>2. u \notin Bad
        BY <2>1, <3>1
    <3>3. \A c \in ChildrenOf(sem, r) : c \in KnownRefs(root, sem)
        BY ChildrenAreKnown DEF KnownRefs
    <3>4. ASSUME NEW c \in ChildrenOf(sem, r) PROVE Right(u, c)
      <4> HIDE DEF Right, u
      <4> QED
          BY <3>1, <3>2, <3>3
    <3>5. UNION {Covered(root, sem, u, c).inputs : c \in ChildrenOf(sem, r)}
            = UNION {InputsReached(sem, c) : c \in ChildrenOf(sem, r)}
      <4> HIDE DEF u
      <4> QED
          BY <3>4
    <3>6. UNION {Covered(root, sem, u, c).members : c \in ChildrenOf(sem, r)}
            = UNION {MembersReached(sem, c) : c \in ChildrenOf(sem, r)}
      <4> HIDE DEF u
      <4> QED
          BY <3>4
    <3>7. Right(w, r)
      <4> HIDE DEF u
      <4> QED
          BY <3>1, <3>5, <3>6, InputsUnfold
    <3> QED
        BY <2>2, <3>7
  <2> QED
      BY <2>4, <2>5
<1> QED
    BY <1>1, <1>2

\* Where a walk succeeds at a reference with group id on the path, nothing that
\* the reference reaches is that group.
LEMMA WalkAvoidsPath ==
    ASSUME NEW sem, IsFiniteSet(Groups(sem)), NEW root,
           NEW v \in SUBSET Groups(sem), NEW ref \in KnownRefs(root, sem),
           Covered(root, sem, v, ref).ok, NEW id \in v
    PROVE  \A r \in ReachedFrom(sem, ref) :
             /\ \E w \in SUBSET Groups(sem) :
                  r \in KnownRefs(root, sem) /\ id \in w /\ Covered(root, sem, w, r).ok
             /\ ~(IsGroup(sem, r) /\ r.id = id)
<1> DEFINE S == {r \in KnownRefs(root, sem) :
                   \E w \in SUBSET Groups(sem) : id \in w /\ Covered(root, sem, w, r).ok}
<1>1. ASSUME NEW r \in S PROVE ChildrenOf(sem, r) \subseteq S /\ ~(IsGroup(sem, r) /\ r.id = id)
  <2>1. PICK w \in SUBSET Groups(sem) : id \in w /\ Covered(root, sem, w, r).ok
      OBVIOUS
  <2>2. CASE IsLeaf(sem, r)
      BY <2>2, ChildrenAreKnown
  <2>3. CASE ~IsLeaf(sem, r)
    <3>1. /\ r.id \notin w /\ w \union {r.id} \in SUBSET Groups(sem)
          /\ \A c \in ChildrenOf(sem, r) : Covered(root, sem, w \union {r.id}, c).ok
        BY <2>1, <2>3, CoveredMeans
    <3>2. \A c \in ChildrenOf(sem, r) : c \in KnownRefs(root, sem)
        BY ChildrenAreKnown DEF KnownRefs
    <3>3. id \in w \union {r.id} /\ id # r.id
        BY <2>1, <3>1
    <3> QED
        BY <3>1, <3>2, <3>3
  <2> QED
      BY <2>2, <2>3
<1>2. ref \in S
    OBVIOUS
<1>3. ReachedFrom(sem, ref) \subseteq S
  <2> HIDE DEF S
  <2> QED
      BY <1>1, <1>2, ReachedIsLeast
<1> QED
    BY <1>1, <1>3

\* What a coverage that was computed says: the inputs and members that the
\* reference reaches, along no cycle.
LEMMA CoverageMeans ==
    ASSUME NEW sem, IsSemantics(sem), NEW root, Coverage(root, sem).ok
    PROVE  /\ Coverage(root, sem).inputs = InputsReached(sem, root)
           /\ Coverage(root, sem).members = MembersReached(sem, root)
           /\ \A g \in ReachedFrom(sem, root) : \A child \in ChildrenOf(sem, g) :
                g \notin ReachedFrom(sem, child)
<1>1. IsFiniteSet(Groups(sem))
  <2>1. IsArray(sem.groups)
      BY DEF IsSemantics
  <2> QED
      BY <2>1, IdsAreFinite DEF Groups
<1>2. Coverage(root, sem) = Covered(root, sem, {}, root)
  <2>1. ~BadCoverage.ok
      BY DEF BadCoverage
  <2> QED
      BY <2>1 DEF Coverage, Covered
<1>3. {} \in SUBSET Groups(sem) /\ root \in KnownRefs(root, sem)
    BY DEF KnownRefs
<1>4. Covered(root, sem, {}, root).ok
    BY <1>2
<1> DEFINE S == {r \in KnownRefs(root, sem) :
                   \E w \in SUBSET Groups(sem) : Covered(root, sem, w, r).ok}
<1>5. ASSUME NEW g \in S, NEW c \in ChildrenOf(sem, g)
      PROVE  c \in S /\ g \notin ReachedFrom(sem, c)
  <2>1. PICK w \in SUBSET Groups(sem) : Covered(root, sem, w, g).ok
      OBVIOUS
  <2>2. IsGroup(sem, g) /\ ~IsLeaf(sem, g)
      BY ChildrenAreKnown
  <2>3. /\ g.id \notin w /\ w \union {g.id} \in SUBSET Groups(sem)
        /\ Covered(root, sem, w \union {g.id}, c).ok
      BY <1>1, <2>1, <2>2, CoveredMeans
  <2>4. c \in KnownRefs(root, sem)
      BY ChildrenAreKnown DEF KnownRefs
  <2>5. g \notin ReachedFrom(sem, c)
      BY <1>1, <2>2, <2>3, <2>4, WalkAvoidsPath
  <2> QED
      BY <2>3, <2>4, <2>5
<1>6. ReachedFrom(sem, root) \subseteq S
  <2>1. root \in S
      BY <1>3, <1>4
  <2>2. \A g \in S : ChildrenOf(sem, g) \subseteq S
      BY <1>5
  <2> HIDE DEF S
  <2> QED
      BY <2>1, <2>2, ReachedIsLeast
<1> HIDE DEF S
<1> QED
    BY <1>1, <1>2, <1>3, <1>4, <1>5, <1>6, WalkFindsReached

----------------------------------------------------------------------------
(* What an accepted check covers *)

LEMMA EntryOfIndexed ==
    ASSUME NEW s, IsArray(s), Indexed(s)
    PROVE  /\ \A i, j \in DOMAIN s : s[i].id = s[j].id => i = j
           /\ \A i \in DOMAIN s : Entry(s, s[i].id) = s[i]
<1>1. \A i, j \in DOMAIN s : s[i].id = s[j].id => i = j
    BY IdsAreFinite DEF Indexed
<1>2. ASSUME NEW i \in DOMAIN s PROVE Entry(s, s[i].id) = s[i]
  <2> DEFINE j == CHOOSE j \in DOMAIN s : s[j].id = s[i].id
  <2>1. j \in DOMAIN s /\ s[j].id = s[i].id
      OBVIOUS
  <2>2. j = i
    <3> HIDE DEF j
    <3> QED
        BY <1>1, <2>1
  <2> QED
      BY <2>2 DEF Entry
<1> QED
    BY <1>1, <1>2

LEMMA IdSetOfRefIds ==
    ASSUME NEW refs
    PROVE  /\ {RefIds(refs)[i] : i \in DOMAIN RefIds(refs)} = IdSet(refs)
           /\ IsArray(refs) => IsArray(RefIds(refs)) /\ Len(RefIds(refs)) = Len(refs)
<1>1. DOMAIN RefIds(refs) = DOMAIN refs /\ \A i \in DOMAIN refs : RefIds(refs)[i] = refs[i].id
    BY DEF RefIds
<1>2. ASSUME IsArray(refs) PROVE IsArray(RefIds(refs)) /\ Len(RefIds(refs)) = Len(refs)
  <2>1. Len(refs) \in Nat /\ DOMAIN refs = 1..Len(refs)
      BY <1>2, ArrayIndices
  <2>2. RefIds(refs) = [i \in 1..Len(refs) |-> RefIds(refs)[i]]
      BY <2>1 DEF RefIds
  <2> QED
      BY <2>1, <2>2, MakesArray
<1> QED
    BY <1>1, <1>2 DEF IdSet

Places(s, v) == {i \in DOMAIN s : s[i] = v}

\* Two arrays with as many places of each value of the second have the same
\* values: the places of one are mapped onto those of the other.
LEMMA SameIdsMeans ==
    ASSUME NEW s, NEW t, IsArray(s), IsArray(t), SameIds(s, t)
    PROVE  {s[i] : i \in DOMAIN s} = {t[i] : i \in DOMAIN t}
<1>1. /\ IsFiniteSet(DOMAIN s) /\ IsFiniteSet(DOMAIN t)
      /\ Cardinality(DOMAIN s) = Cardinality(DOMAIN t)
  <2>1. /\ Len(s) \in Nat /\ DOMAIN s = 1..Len(s) /\ DOMAIN t = 1..Len(t) /\ Len(s) = Len(t)
      BY ArrayIndices DEF SameIds
  <2>2. IsFiniteSet(1..Len(s))
      BY <2>1, FS_Interval
  <2> QED
      BY <2>1, <2>2
<1>2. ASSUME NEW i \in DOMAIN t
      PROVE  \E b : b \in Bijection(Places(t, t[i]), Places(s, t[i]))
  <2>1. IsFiniteSet(Places(t, t[i])) /\ IsFiniteSet(Places(s, t[i]))
    <3>1. Places(t, t[i]) \in SUBSET DOMAIN t /\ Places(s, t[i]) \in SUBSET DOMAIN s
        BY DEF Places
    <3> QED
        BY <1>1, <3>1, FS_Subset
  <2>2. Cardinality(Places(t, t[i])) = Cardinality(Places(s, t[i]))
      BY DEF SameIds, Occurs, Places
  <2>3. ExistsBijection(Places(t, t[i]), Places(s, t[i]))
      BY <2>1, <2>2, FS_SameCardinalityBij
  <2> QED
      BY <2>3 DEF ExistsBijection
<1> DEFINE B(v) == CHOOSE b : b \in Bijection(Places(t, v), Places(s, v))
           f == [i \in DOMAIN t |-> B(t[i])[i]]
<1>3. ASSUME NEW i \in DOMAIN t
      PROVE  B(t[i]) \in Bijection(Places(t, t[i]), Places(s, t[i]))
    BY <1>2
<1> HIDE DEF B
<1>4. ASSUME NEW i \in DOMAIN t
      PROVE  /\ f[i] = B(t[i])[i]
             /\ f[i] \in DOMAIN s /\ s[f[i]] = t[i]
  <2>1. i \in Places(t, t[i])
      BY DEF Places
  <2>2. B(t[i])[i] \in Places(s, t[i])
      BY <1>3, <2>1 DEF Bijection, Injection
  <2> QED
      BY <2>2 DEF Places
<1>5. ASSUME NEW i \in DOMAIN t, NEW j \in DOMAIN t, f[i] = f[j] PROVE i = j
  <2>1. t[i] = t[j]
      BY <1>4, <1>5
  <2>2. i \in Places(t, t[i]) /\ j \in Places(t, t[i])
      BY <2>1 DEF Places
  <2>3. B(t[i])[i] = B(t[i])[j]
    <3> HIDE DEF f
    <3> QED
        BY <1>4, <1>5, <2>1
  <2> QED
      BY <1>3, <2>2, <2>3 DEF Bijection, Injection, IsInjective
<1>6. f \in Injection(DOMAIN t, DOMAIN s)
  <2>1. f \in [DOMAIN t -> DOMAIN s]
      BY <1>4
  <2> HIDE DEF f
  <2> QED
      BY <1>5, <2>1 DEF Injection, IsInjective
<1>7. f \in Surjection(DOMAIN t, DOMAIN s)
  <2> HIDE DEF f
  <2> QED
      BY <1>1, <1>6, FS_Injection
<1>8. \A j \in DOMAIN s : \E i \in DOMAIN t : f[i] = j
  <2> HIDE DEF f
  <2> QED
      BY <1>7 DEF Surjection
<1> HIDE DEF f
<1> QED
    BY <1>4, <1>8

LEMMA SameReferences ==
    ASSUME NEW refs, NEW ids, IsArray(refs), IsArray(ids), SameIds(RefIds(refs), ids)
    PROVE  IdSet(refs) = {ids[i] : i \in DOMAIN ids}
<1>1. IsArray(RefIds(refs)) /\ {RefIds(refs)[i] : i \in DOMAIN RefIds(refs)} = IdSet(refs)
    BY IdSetOfRefIds
<1> QED
    BY <1>1, SameIdsMeans

LEMMA ListsReferences ==
    ASSUME NEW refs, NEW S, Lists(RefIds(refs), S)
    PROVE  IdSet(refs) = S
BY IdSetOfRefIds DEF Lists

LEMMA CheckedMeans ==
    ASSUME doc \in Documents, Resolvable2
    PROVE  /\ IsSource(doc.cg) /\ IsSemantics(doc.sem) /\ IsArray(doc.bundle.mappings)
           /\ ValidDocument(doc.cg, doc.sem) /\ ValidBundle(doc.bundle, doc.sem)
BY DocumentAssumption DEF Resolvable2, IsDocument

LEMMA AcceptedMeans ==
    ASSUME ExecutionInv, Accepted PROVE doc \in Documents /\ Resolvable2
BY DEF ExecutionInv, Accepted

LEMMA RequiredIsReached ==
    ASSUME doc \in Documents, Resolvable2, NEW o \in DOMAIN Obligations
    PROVE  LET root == Obligations[o].coverage IN
           /\ Lists(RefIds(Obligations[o].inputs), InputsReached(doc.sem, root))
           /\ \A g \in ReachedFrom(doc.sem, root) : \A child \in ChildrenOf(doc.sem, g) :
                g \notin ReachedFrom(doc.sem, child)
<1>1. IsSemantics(doc.sem) /\ ObligationsAgree(doc.sem)
    BY CheckedMeans DEF ValidDocument
<1>2. /\ Coverage(Obligations[o].coverage, doc.sem).ok
      /\ Lists(RefIds(Obligations[o].inputs), Coverage(Obligations[o].coverage, doc.sem).inputs)
    BY <1>1, Zenon DEF ObligationsAgree, Obligations
<1> QED
    BY <1>1, <1>2, CoverageMeans

LEMMA InvGivesAnswers ==
    ASSUME ExecutionInv
    PROVE  BundleAnswersSemantics
<1> DEFINE Mine(id) == {m \in {doc.bundle.mappings[i] : i \in DOMAIN doc.bundle.mappings} :
                          m.id = id}
<1> SUFFICES ASSUME Accepted, NEW o \in DOMAIN Obligations
             PROVE  /\ Cardinality(Mine(Obligations[o].id)) = 1
                    /\ \A m \in Mine(Obligations[o].id) :
                         /\ IdSet(m.members) = MembersReached(doc.sem, Obligations[o].coverage)
                         /\ IdSet(m.artifacts) \subseteq IdSet(doc.bundle.unit)
    BY DEF BundleAnswersSemantics
<1>1. /\ IsSemantics(doc.sem) /\ IsArray(doc.bundle.mappings)
      /\ ObligationsAgree(doc.sem) /\ UnitComplete(doc.bundle)
      /\ MappingsComplete(doc.bundle, doc.sem)
    BY AcceptedMeans, CheckedMeans DEF ValidDocument, ValidBundle
<1>2. /\ Indexed(doc.bundle.mappings) /\ IdsOf(doc.bundle.mappings) = IdsOf(Obligations)
      /\ IsArray(Obligations) /\ Indexed(Obligations)
    BY <1>1 DEF MappingsComplete, ObligationsAgree, Obligations, IsSemantics
<1>3. PICK i \in DOMAIN doc.bundle.mappings : doc.bundle.mappings[i].id = Obligations[o].id
    BY <1>2 DEF IdsOf
<1>4. Mine(Obligations[o].id) = {doc.bundle.mappings[i]}
    BY <1>1, <1>2, <1>3, EntryOfIndexed
<1>5. Cardinality(Mine(Obligations[o].id)) = 1
    BY <1>4, FS_Singleton
<1> DEFINE m == doc.bundle.mappings[i]
<1>6. Entry(Obligations, m.id) = Obligations[o]
    BY <1>2, <1>3, EntryOfIndexed
<1>7. /\ Coverage(Obligations[o].coverage, doc.sem).ok
      /\ Lists(RefIds(m.members), Coverage(Obligations[o].coverage, doc.sem).members)
      /\ CheckedRefs(m.artifacts, "artifact", IdsOf(doc.bundle.artifacts))
  <2>1. m \in {doc.bundle.mappings[j] : j \in DOMAIN doc.bundle.mappings}
      BY <1>3
  <2>2. Entry(doc.sem.obligations, m.id).coverage = Obligations[o].coverage
      BY <1>6 DEF Obligations
  <2> HIDE DEF m
  <2> QED
      BY <1>1, <2>1, <2>2, Zenon DEF MappingsComplete
<1>8. IdSet(m.members) = MembersReached(doc.sem, Obligations[o].coverage)
  <2> HIDE DEF m
  <2> QED
      BY <1>1, <1>7, CoverageMeans, ListsReferences
<1>9. IdSet(m.artifacts) \subseteq IdSet(doc.bundle.unit)
  <2>1. IdSet(m.artifacts) \subseteq IdsOf(doc.bundle.artifacts)
    <3> HIDE DEF m
    <3> QED
        BY <1>7 DEF CheckedRefs, RefsInto, IdSet
  <2>2. IdSet(doc.bundle.unit) = IdsOf(doc.bundle.artifacts)
      BY <1>1, ListsReferences DEF UnitComplete
  <2> QED
      BY <2>1, <2>2
<1> QED
    BY <1>4, <1>5, <1>8, <1>9

LEMMA InvGivesPartition ==
    ASSUME ExecutionInv
    PROVE  SourceIsPartitioned
<1> DEFINE shown == {doc.sem.inputs[i].id : i \in DOMAIN doc.sem.inputs}
           given == {doc.cg.inputs[i] : i \in DOMAIN doc.cg.inputs}
           hidden == {doc.sem.dimensions[i] : i \in DOMAIN doc.sem.dimensions}
           OnlyOne(x, S, T) == (x \in S) # (x \in T)
           artifacts == {t.artifact : t \in {t \in given : t.id \in shown}}
           members == UNION {{t.members[i] : i \in DOMAIN t.members} :
                               t \in {t \in given : t.id \in shown}}
<1> SUFFICES ASSUME Accepted
             PROVE  /\ \A t \in given : OnlyOne(t.id, shown, UNION {IdSet(d.inputs) : d \in hidden})
                    /\ \A a \in IdsOf(doc.cg.artifacts) :
                         OnlyOne(a, artifacts, UNION {IdSet(d.artifacts) : d \in hidden})
                    /\ \A m \in IdsOf(doc.cg.members) :
                         OnlyOne(m, members, UNION {IdSet(d.members) : d \in hidden})
    BY DEF SourceIsPartitioned
<1>1. /\ IsSource(doc.cg) /\ IsSemantics(doc.sem) /\ SetsAgree(doc.cg, doc.sem)
      /\ InputsAgree(doc.cg, doc.sem) /\ PartitionsAreComplete(doc.cg, doc.sem)
    BY AcceptedMeans, CheckedMeans DEF ValidDocument
<1>2. /\ IsArray(doc.cg.inputs) /\ Indexed(doc.cg.inputs)
      /\ shown = IdsOf(doc.sem.inputs) /\ shown \subseteq IdsOf(doc.cg.inputs)
      /\ IdsOf(doc.sem.members) = IdsOf(doc.cg.members)
      /\ IdsOf(doc.sem.artifacts) = IdsOf(doc.cg.artifacts)
    BY <1>1 DEF IsSource, SetsAgree, IdsOf
<1>3. ASSUME NEW i \in DOMAIN doc.sem.inputs
      PROVE  LET t == doc.sem.inputs[i]
                 outer == Entry(doc.cg.inputs, t.id)
             IN /\ outer \in given /\ outer.id = t.id /\ t.id \in shown
                /\ t.artifact.id = outer.artifact
                /\ IdSet(t.members) = {outer.members[j] : j \in DOMAIN outer.members}
  <2> DEFINE t == doc.sem.inputs[i]
             outer == Entry(doc.cg.inputs, t.id)
  <2>1. t.id \in shown
      OBVIOUS
  <2>2. outer.id = t.id /\ \E j \in DOMAIN doc.cg.inputs : outer = doc.cg.inputs[j]
    <3>1. t.id \in IdsOf(doc.cg.inputs)
        BY <1>2, <2>1
    <3> QED
        BY <3>1, EntryIsIn
  <2>3. t.artifact.id = outer.artifact /\ SameIds(RefIds(t.members), outer.members)
    <3>1. t \in {doc.sem.inputs[j] : j \in DOMAIN doc.sem.inputs}
        OBVIOUS
    <3> HIDE DEF t
    <3> QED
        BY <1>1, <3>1, Zenon DEF InputsAgree
  <2>4. IsArray(t.members) /\ IsArray(outer.members)
      BY <1>1, <2>2 DEF IsSource, IsSemantics
  <2>5. IdSet(t.members) = {outer.members[j] : j \in DOMAIN outer.members}
    <3> HIDE DEF t, outer
    <3> QED
        BY <2>3, <2>4, SameReferences
  <2>6. outer \in given
      BY <2>2
  <2> HIDE DEF given, shown
  <2> QED
      BY <2>1, <2>2, <2>3, <2>5, <2>6
<1>4. ASSUME NEW t \in given, t.id \in shown
      PROVE  \E i \in DOMAIN doc.sem.inputs : t = Entry(doc.cg.inputs, doc.sem.inputs[i].id)
  <2>1. PICK i \in DOMAIN doc.sem.inputs : t.id = doc.sem.inputs[i].id
      BY <1>4
  <2>2. PICK j \in DOMAIN doc.cg.inputs : t = doc.cg.inputs[j]
      OBVIOUS
  <2>3. Entry(doc.cg.inputs, t.id) = t
      BY <1>2, <2>2, EntryOfIndexed
  <2> QED
      BY <2>1, <2>3
<1>5. \A t \in given : OnlyOne(t.id, shown, UNION {IdSet(d.inputs) : d \in hidden})
  <2>1. Partition(shown, UNION {IdSet(d.inputs) : d \in hidden}, IdsOf(doc.cg.inputs))
      BY <1>1, <1>2 DEF PartitionsAreComplete
  <2>2. \A t \in given : t.id \in IdsOf(doc.cg.inputs)
      BY DEF IdsOf
  <2> HIDE DEF shown, given, hidden
  <2> QED
      BY <2>1, <2>2 DEF Partition
<1>6. \A a \in IdsOf(doc.cg.artifacts) :
        OnlyOne(a, artifacts, UNION {IdSet(d.artifacts) : d \in hidden})
  <2> DEFINE named == {doc.sem.inputs[i].artifact.id : i \in DOMAIN doc.sem.inputs}
  <2>1. Partition(named, UNION {IdSet(d.artifacts) : d \in hidden}, IdsOf(doc.cg.artifacts))
      BY <1>1, <1>2 DEF PartitionsAreComplete
  <2>2. named \subseteq artifacts
    <3> HIDE DEF shown, given
    <3> QED
        BY <1>3
  <2>3. artifacts \subseteq named
    <3>1. ASSUME NEW t \in given, t.id \in shown PROVE t.artifact \in named
      <4>1. PICK i \in DOMAIN doc.sem.inputs : t = Entry(doc.cg.inputs, doc.sem.inputs[i].id)
          BY <1>4, <3>1
      <4>2. doc.sem.inputs[i].artifact.id = t.artifact
        <5> HIDE DEF shown, given
        <5> QED
            BY <1>3, <4>1
      <4> HIDE DEF shown, given
      <4> QED
          BY <4>2
    <3> HIDE DEF shown, given, named
    <3> QED
        BY <3>1
  <2> HIDE DEF named, artifacts, hidden
  <2> QED
      BY <2>1, <2>2, <2>3 DEF Partition
<1>7. \A m \in IdsOf(doc.cg.members) :
        OnlyOne(m, members, UNION {IdSet(d.members) : d \in hidden})
  <2>1. /\ Partition(Represented(doc.sem), Unsupported(doc.sem), IdsOf(doc.cg.members))
      BY <1>1, <1>2 DEF PartitionsAreComplete
  <2>2. UNION {IdSet(d.members) : d \in hidden} = Unsupported(doc.sem)
      BY DEF Unsupported
  <2>3. Represented(doc.sem) \subseteq members
    <3>1. ASSUME NEW i \in DOMAIN doc.sem.inputs, NEW x \in IdSet(doc.sem.inputs[i].members)
          PROVE  x \in members
      <4> DEFINE outer == Entry(doc.cg.inputs, doc.sem.inputs[i].id)
      <4>1. outer \in given /\ outer.id \in shown
            /\ x \in {outer.members[j] : j \in DOMAIN outer.members}
        <5> HIDE DEF shown, given
        <5> QED
            BY <1>3, <3>1
      <4> HIDE DEF outer, shown, given
      <4> QED
          BY <4>1
    <3> HIDE DEF members
    <3> QED
        BY <3>1 DEF Represented
  <2>4. members \subseteq Represented(doc.sem)
    <3>1. ASSUME NEW t \in given, t.id \in shown, NEW j \in DOMAIN t.members
          PROVE  t.members[j] \in Represented(doc.sem)
      <4>1. PICK i \in DOMAIN doc.sem.inputs : t = Entry(doc.cg.inputs, doc.sem.inputs[i].id)
          BY <1>4, <3>1
      <4>2. IdSet(doc.sem.inputs[i].members) = {t.members[k] : k \in DOMAIN t.members}
        <5> HIDE DEF shown, given
        <5> QED
            BY <1>3, <4>1
      <4> QED
          BY <3>1, <4>2 DEF Represented
    <3> HIDE DEF shown, given
    <3> QED
        BY <3>1
  <2> HIDE DEF members, hidden
  <2> QED
      BY <2>1, <2>2, <2>3, <2>4 DEF Partition
<1> QED
    BY <1>5, <1>6, <1>7

\* What is accepted as a whole is complete, for any documents: the inputs an
\* obligation requires are those its coverage graph reaches, along no cycle,
\* the source is partitioned, and the bundle answers each obligation
\* (validateSharedCompleteness, validateSharedBundle).
THEOREM AcceptedIsCompleteHolds == Spec => []AcceptedIsComplete
<1>1. ExecutionInv => RequirementsAreReached
    BY AcceptedMeans, RequiredIsReached DEF RequirementsAreReached
<1>2. ExecutionInv => AcceptedIsComplete
    BY <1>1, InvGivesPartition, InvGivesAnswers DEF AcceptedIsComplete
<1> QED
    BY <1>2, ExecutionInductive, PTL

----------------------------------------------------------------------------
(* What a blocked outcome stands on *)

\* A run that ended otherwise than as could-not-test had its outcome accounted.
LEMMA EndMeans ==
    ASSUME ExecutionInv, outcome.state \notin {"none", "could-not-test"}
    PROVE  /\ Checked /\ ~Remaining /\ doc \in Documents
           /\ outcome.state = IF AccountingHolds(doc.sem, results, Accounting(doc.sem, results))
                              THEN Terminal(DispositionsOf(results)) ELSE "malfunction"
<1>1. phase = "end"
    BY DEF ExecutionInv, NoOutcome
<1>2. outcome # [state |-> "could-not-test", match |-> FALSE]
    OBVIOUS
<1> DEFINE holds == AccountingHolds(doc.sem, results, Accounting(doc.sem, results))
           state == Terminal(DispositionsOf(results))
           match == DispositionsOf(results) \subseteq {"blocked"}
<1>3. /\ Checked /\ ~Remaining /\ doc \in Documents
      /\ outcome = IF holds THEN [state |-> state, match |-> match]
                   ELSE [state |-> "malfunction", match |-> FALSE]
    BY <1>1, <1>2, Zenon DEF ExecutionInv
<1>4. outcome.state = IF holds THEN state ELSE "malfunction"
  <2> HIDE DEF holds, state, match
  <2> QED
      BY <1>3
<1> QED
    BY <1>3, <1>4

\* The terminal state is blocked only when every disposition is.
LEMMA TerminalMeans ==
    ASSUME NEW ds \in SUBSET Dispositions, Terminal(ds) = "blocked"
    PROVE  ds \subseteq {"blocked"}
BY DEF Terminal, Dispositions

LEMMA InvGivesEarned ==
    ASSUME ExecutionInv,
           outcome.state = "blocked",
           NEW o \in DOMAIN Obligations,
           NEW id \in InputsReached(doc.sem, Obligations[o].coverage)
    PROVE  /\ \E k \in DOMAIN results[o].cases :
                 results[o].cases[k] = [input |-> id, disposition |-> "blocked"]
           /\ Stopped(Entry(doc.sem.inputs, id).input)
<1>1. Checked /\ ~Remaining /\ doc \in Documents /\ Terminal(DispositionsOf(results)) = "blocked"
    BY EndMeans
<1>2. Begun = Len(Obligations) /\ Len(results[o].cases) = Len(Obligations[o].inputs)
    BY <1>1, NothingRemains
<1>3. o \in DOMAIN results
    BY <1>2, Standing
<1>4. Answers(results[o], Obligations[o], o = Len(results), Allowed)
    BY <1>3 DEF ExecutionInv, ResultsInv
<1>5. DispositionsOf(results) \in SUBSET Dispositions
  <2>1. ASSUME NEW p \in DOMAIN results, NEW k \in DOMAIN results[p].cases
        PROVE  results[p].cases[k].disposition \in Dispositions
      BY <1>1, CasesAreAllowed, PossibleMeans
  <2> QED
      BY <2>1 DEF DispositionsOf
<1>6. DispositionsOf(results) \subseteq {"blocked"}
    BY <1>1, <1>5, TerminalMeans
<1>7. PICK k \in DOMAIN Obligations[o].inputs : Obligations[o].inputs[k].id = id
  <2>1. Lists(RefIds(Obligations[o].inputs), InputsReached(doc.sem, Obligations[o].coverage))
      BY <1>1, RequiredIsReached DEF Checked
  <2>2. id \in IdSet(Obligations[o].inputs)
      BY <2>1, ListsReferences
  <2> QED
      BY <2>2 DEF IdSet
<1>8. k \in DOMAIN results[o].cases
  <2>1. DOMAIN results[o].cases = 1..Len(results[o].cases)
      BY <1>4, ArrayIndices DEF Answers
  <2> QED
      BY <1>2, <2>1, Standing
<1>9. results[o].cases[k].disposition = "blocked"
  <2>1. results[o].cases[k].disposition \in DispositionsOf(results)
      BY <1>3, <1>8 DEF DispositionsOf
  <2> QED
      BY <1>6, <2>1
<1>10. results[o].cases[k] = [input |-> id, disposition |-> "blocked"]
    BY <1>4, <1>7, <1>8, <1>9 DEF Answers
<1>11. Stopped(Entry(doc.sem.inputs, id).input)
  <2>1. /\ results[o].cases[k].input = id
        /\ id \in IdsOf(doc.sem.inputs)
        /\ results[o].cases[k].disposition \in Possible(Entry(doc.sem.inputs, id).input, TRUE)
    <3>1. results[o].cases[k].input = id
        BY <1>10
    <3>2. /\ results[o].cases[k].input \in IdsOf(doc.sem.inputs)
          /\ results[o].cases[k].disposition
               \in Possible(Entry(doc.sem.inputs, results[o].cases[k].input).input, TRUE)
        BY <1>3, <1>8, CasesAreAllowed
    <3> QED
        BY <3>1, <3>2, Zenon
  <2> QED
      BY <1>1, <1>9, <2>1, PossibleMeans
<1> QED
    BY <1>8, <1>10, <1>11

\* Every blocked outcome, of any documents and any profile, was earned: each
\* input the coverage graph requires was executed and is matched by the control
\* as it was sent (executeSharedContractV2, evaluate).
THEOREM BlockedIsEarnedHolds == Spec => []BlockedIsEarned
<1>1. ExecutionInv => BlockedIsEarned
    BY InvGivesEarned DEF BlockedIsEarned
<1> QED
    BY <1>1, ExecutionInductive, PTL

----------------------------------------------------------------------------
(* What the accounting proves *)

\* Arrays of results whose cases are arrays.
IsOutcome(rs) == IsArray(rs) /\ \A o \in DOMAIN rs : IsArray(rs[o].cases)

LEMMA ValuesAreFinite ==
    ASSUME NEW s, IsArray(s)
    PROVE  /\ IsFiniteSet(DOMAIN s) /\ Cardinality(DOMAIN s) = Len(s)
           /\ IsFiniteSet({s[i] : i \in DOMAIN s})
           /\ Cardinality({s[i] : i \in DOMAIN s}) = Len(s) <=>
                \A i, j \in DOMAIN s : s[i] = s[j] => i = j
<1> DEFINE S == {s[i] : i \in DOMAIN s}
           f == [i \in DOMAIN s |-> s[i]]
<1>1. Len(s) \in Nat /\ DOMAIN s = 1..Len(s)
    BY ArrayIndices
<1>2. IsFiniteSet(DOMAIN s) /\ Cardinality(DOMAIN s) = Len(s)
  <2>1. IsFiniteSet(1..Len(s))
        /\ Cardinality(1..Len(s)) = IF 1 > Len(s) THEN 0 ELSE Len(s) - 1 + 1
      BY <1>1, FS_Interval
  <2> QED
      BY <1>1, <2>1
<1>3. f \in Surjection(DOMAIN s, S)
    BY DEF Surjection
<1>4. f \in Injection(DOMAIN s, S) <=> \A i, j \in DOMAIN s : s[i] = s[j] => i = j
    BY <1>3 DEF Injection, Surjection, IsInjective
<1>5. IsFiniteSet(S) /\ (Cardinality(S) = Cardinality(DOMAIN s) <=> f \in Injection(DOMAIN s, S))
  <2> HIDE DEF f, S
  <2> QED
      BY <1>2, <1>3, FS_Surjection
<1> HIDE DEF f
<1> QED
    BY <1>2, <1>4, <1>5

\* Arrays with the same values, each once, have the same ids.
LEMMA DistinctAreSame ==
    ASSUME NEW s, NEW t, IsArray(s), IsArray(t),
           {s[i] : i \in DOMAIN s} = {t[i] : i \in DOMAIN t},
           Cardinality({s[i] : i \in DOMAIN s}) = Len(s),
           Cardinality({t[i] : i \in DOMAIN t}) = Len(t)
    PROVE  SameIds(s, t)
<1>1. /\ \A i, j \in DOMAIN s : s[i] = s[j] => i = j
      /\ \A i, j \in DOMAIN t : t[i] = t[j] => i = j
    BY ValuesAreFinite
<1>2. ASSUME NEW i \in DOMAIN t PROVE Occurs(s, t[i]) = 1 /\ Occurs(t, t[i]) = 1
  <2>1. {j \in DOMAIN t : t[j] = t[i]} = {i}
      BY <1>1
  <2>2. PICK k \in DOMAIN s : s[k] = t[i]
      OBVIOUS
  <2>3. {j \in DOMAIN s : s[j] = t[i]} = {k}
      BY <1>1, <2>2
  <2> QED
      BY <2>1, <2>3, FS_Singleton DEF Occurs
<1> QED
    BY <1>2 DEF SameIds

\* The inputs of the cases of a result.
CaseInputs(result) == [k \in DOMAIN result.cases |-> result.cases[k].input]

LEMMA CaseInputsMeans ==
    ASSUME NEW result, IsArray(result.cases)
    PROVE  /\ IsArray(CaseInputs(result)) /\ Len(CaseInputs(result)) = Len(result.cases)
           /\ DOMAIN CaseInputs(result) = DOMAIN result.cases
           /\ {CaseInputs(result)[k] : k \in DOMAIN CaseInputs(result)}
                = {result.cases[k].input : k \in DOMAIN result.cases}
<1>1. Len(result.cases) \in Nat /\ DOMAIN result.cases = 1..Len(result.cases)
    BY ArrayIndices
<1>2. CaseInputs(result) = [k \in 1..Len(result.cases) |-> CaseInputs(result)[k]]
    BY <1>1 DEF CaseInputs
<1>3. IsArray(CaseInputs(result)) /\ Len(CaseInputs(result)) = Len(result.cases)
    BY <1>1, <1>2, MakesArray
<1> QED
    BY <1>3 DEF CaseInputs

\* Semantics whose requirements can be counted: known obligations, and required
\* inputs named once.
Countable(sem) ==
    /\ IsArray(sem.obligations) /\ Indexed(sem.obligations)
    /\ \A o \in DOMAIN sem.obligations :
         /\ IsArray(sem.obligations[o].inputs)
         /\ Cardinality(IdSet(sem.obligations[o].inputs)) = Len(sem.obligations[o].inputs)
    /\ IsArray(sem.members) /\ Indexed(sem.members)
    /\ Partition(Represented(sem), Unsupported(sem), IdsOf(sem.members))

\* A result disposes of an obligation.
Disposes(result, obligation) ==
    /\ result.id = obligation.id
    /\ SameIds(CaseInputs(result), RefIds(obligation.inputs))
    /\ \A k \in DOMAIN result.cases : result.cases[k].disposition \in Dispositions

LEMMA ExactMeans ==
    ASSUME NEW sem, NEW rs
    PROVE  Exact(sem, rs) <=>
             /\ Len(rs) = Len(sem.obligations)
             /\ \A o \in DOMAIN sem.obligations : \E r \in DOMAIN rs :
                  Disposes(rs[r], sem.obligations[o])
BY DEF Exact, Disposes, CaseInputs

Fits(result, inputs) ==
    LET cases == result.cases IN
    /\ Cardinality({cases[k].input : k \in DOMAIN cases}) = Len(cases)
    /\ {cases[k].input : k \in DOMAIN cases} = IdSet(inputs)
    /\ \A k \in DOMAIN cases : cases[k].disposition \in Dispositions

LEMMA DisposesMeans ==
    ASSUME NEW sem, Countable(sem), NEW rs, IsOutcome(rs),
           NEW o \in DOMAIN sem.obligations, NEW r \in DOMAIN rs
    PROVE  Disposes(rs[r], sem.obligations[o]) <=>
             rs[r].id = sem.obligations[o].id /\ Fits(rs[r], sem.obligations[o].inputs)
<1> DEFINE s == CaseInputs(rs[r])
           t == RefIds(sem.obligations[o].inputs)
           cases == rs[r].cases
           inputs == sem.obligations[o].inputs
           S == {cases[k].input : k \in DOMAIN cases}
<1>1. IsArray(cases) /\ IsArray(inputs) /\ Cardinality(IdSet(inputs)) = Len(inputs)
    BY DEF Countable, IsOutcome
<1>2. /\ IsArray(s) /\ Len(s) = Len(cases) /\ {s[k] : k \in DOMAIN s} = S
      /\ IsArray(t) /\ Len(t) = Len(inputs) /\ {t[k] : k \in DOMAIN t} = IdSet(inputs)
    BY <1>1, CaseInputsMeans, IdSetOfRefIds
<1>3. SameIds(s, t) <=> Cardinality(S) = Len(cases) /\ S = IdSet(inputs)
  <2> HIDE DEF s, t, S, inputs, cases
  <2>1. ASSUME SameIds(s, t) PROVE Cardinality(S) = Len(cases) /\ S = IdSet(inputs)
    <3>1. {s[k] : k \in DOMAIN s} = {t[k] : k \in DOMAIN t}
      <4>1. IsArray(s) /\ IsArray(t)
          BY <1>2
      <4> QED
          BY <2>1, <4>1, SameIdsMeans
    <3>2. Len(s) = Len(t)
        BY <2>1 DEF SameIds
    <3> QED
        BY <1>1, <1>2, <3>1, <3>2
  <2>2. ASSUME Cardinality(S) = Len(cases), S = IdSet(inputs) PROVE SameIds(s, t)
      BY <1>1, <1>2, <2>2, DistinctAreSame
  <2> QED
      BY <2>1, <2>2
<1> QED
    BY <1>3, Zenon DEF Disposes, Fits

\* The sums of accepted semantics always agree with one another.
LEMMA SumsAgree ==
    ASSUME NEW sem, Countable(sem)
    PROVE  /\ Len(sem.obligations) = Cardinality(IdsOf(sem.obligations))
           /\ Represented(sem) \intersect Unsupported(sem) = {}
           /\ Cardinality(Represented(sem)) + Cardinality(Unsupported(sem)) = Len(sem.members)
<1>1. IsFiniteSet(IdsOf(sem.members)) /\ Cardinality(IdsOf(sem.members)) = Len(sem.members)
    BY IdsAreFinite DEF Countable, Indexed
<1>2. /\ Represented(sem) \intersect Unsupported(sem) = {}
      /\ Represented(sem) \union Unsupported(sem) = IdsOf(sem.members)
    BY DEF Countable, Partition
<1>3. IsFiniteSet(Represented(sem)) /\ IsFiniteSet(Unsupported(sem))
    BY <1>1, <1>2, FS_Subset
<1>4. Cardinality(Represented(sem) \union Unsupported(sem))
        = Cardinality(Represented(sem)) + Cardinality(Unsupported(sem)) - Cardinality({})
    BY <1>2, <1>3, FS_Union
<1>5. Cardinality({}) = 0 /\ Cardinality(Represented(sem)) \in Nat
      /\ Cardinality(Unsupported(sem)) \in Nat
    BY <1>3, FS_EmptySet, FS_CardinalityType
<1>6. Cardinality(Represented(sem)) + Cardinality(Unsupported(sem)) = Len(sem.members)
  <2>1. Cardinality(Represented(sem) \union Unsupported(sem)) = Len(sem.members)
      BY <1>1, <1>2
  <2> QED
      BY <1>4, <1>5, <2>1
<1> QED
    BY <1>2, <1>6 DEF Countable, Indexed

\* The obligation of a result, when ids are known and distinct.
LEMMA EntryOfResult ==
    ASSUME NEW sem, Countable(sem), NEW id, NEW o \in DOMAIN sem.obligations,
           id = sem.obligations[o].id
    PROVE  Entry(sem.obligations, id) = sem.obligations[o]
BY EntryOfIndexed DEF Countable

\* What the accounting checks, its sums aside.
Accounts(sem, rs) ==
    /\ Cardinality(IdsOf(rs)) = Len(rs)
    /\ IdsOf(rs) = IdsOf(sem.obligations)
    /\ \A r \in DOMAIN rs : \A o \in DOMAIN sem.obligations :
         rs[r].id = sem.obligations[o].id => Disposes(rs[r], sem.obligations[o])

LEMMA HoldsMeans ==
    ASSUME NEW sem, Countable(sem), NEW rs, IsOutcome(rs)
    PROVE  AccountingHolds(sem, rs, Accounting(sem, rs)) <=>
             /\ Accounts(sem, rs)
             /\ Work(rs) = Cardinality(RequiredWork(sem))
             /\ Work(rs) = Cardinality(CasesIn(rs))
<1> DEFINE a == Accounting(sem, rs)
           Right(r) == /\ rs[r].id \in IdsOf(sem.obligations)
                       /\ Fits(rs[r], Entry(sem.obligations, rs[r].id).inputs)
<1>1. /\ a.required = Len(sem.obligations) /\ a.accounted = Len(rs)
      /\ a.members = Len(sem.members)
      /\ a.represented = Cardinality(Represented(sem))
      /\ a.unsupported = Cardinality(Unsupported(sem))
      /\ a.work = Work(rs) /\ a.disposed = Work(rs)
    BY DEF Accounting
<1> HIDE DEF a
<1>2. \A o \in DOMAIN sem.obligations :
        Cardinality(IdSet(sem.obligations[o].inputs)) = Len(sem.obligations[o].inputs)
    BY DEF Countable
<1>3. AccountingHolds(sem, rs, a) <=>
        /\ Cardinality(IdsOf(rs)) = Len(rs)
        /\ \A r \in DOMAIN rs : Right(r)
        /\ IdsOf(rs) = IdsOf(sem.obligations)
        /\ Work(rs) = Cardinality(RequiredWork(sem))
        /\ Work(rs) = Cardinality(CasesIn(rs))
  <2> HIDE DEF Right
  <2>1. AccountingHolds(sem, rs, a) <=>
          /\ \A o \in DOMAIN sem.obligations :
               Cardinality(IdSet(sem.obligations[o].inputs)) = Len(sem.obligations[o].inputs)
          /\ Cardinality(IdsOf(rs)) = Len(rs)
          /\ \A r \in DOMAIN rs : Right(r)
          /\ IdsOf(rs) = IdsOf(sem.obligations)
          /\ a.required = Cardinality(IdsOf(sem.obligations))
          /\ a.accounted = Len(rs)
          /\ a.members = Len(sem.members)
          /\ a.represented = Cardinality(Represented(sem))
          /\ a.unsupported = Cardinality(Unsupported(sem))
          /\ a.work = Cardinality(RequiredWork(sem))
          /\ a.disposed = Cardinality(CasesIn(rs))
          /\ Represented(sem) \intersect Unsupported(sem) = {}
          /\ a.represented + a.unsupported = a.members
      BY Zenon DEF AccountingHolds, Right, Fits
  <2> QED
      BY <1>1, <1>2, <2>1, SumsAgree
<1>4. ASSUME NEW r \in DOMAIN rs, NEW o \in DOMAIN sem.obligations,
             rs[r].id = sem.obligations[o].id
      PROVE  Right(r) <=> Disposes(rs[r], sem.obligations[o])
  <2>1. Entry(sem.obligations, rs[r].id) = sem.obligations[o]
      BY <1>4, EntryOfResult
  <2>2. rs[r].id \in IdsOf(sem.obligations)
      BY <1>4 DEF IdsOf
  <2> QED
      BY <1>4, <2>1, <2>2, DisposesMeans
<1>5. \A r \in DOMAIN rs : Right(r) => \E o \in DOMAIN sem.obligations : rs[r].id = sem.obligations[o].id
    BY DEF IdsOf
<1> HIDE DEF Right
<1>6. ASSUME IdsOf(rs) = IdsOf(sem.obligations), NEW r \in DOMAIN rs
      PROVE  \E o \in DOMAIN sem.obligations : rs[r].id = sem.obligations[o].id
    BY <1>6 DEF IdsOf
<1>7. ASSUME IdsOf(rs) = IdsOf(sem.obligations)
      PROVE  (\A r \in DOMAIN rs : Right(r)) <=>
             \A r \in DOMAIN rs : \A o \in DOMAIN sem.obligations :
               rs[r].id = sem.obligations[o].id => Disposes(rs[r], sem.obligations[o])
    BY <1>4, <1>6, <1>7
<1> QED
    BY <1>3, <1>7 DEF Accounts, a

\* An exact outcome maps each obligation to the result that disposes of it.
LEMMA ExactMatches ==
    ASSUME NEW sem, Countable(sem), NEW rs, IsOutcome(rs), Exact(sem, rs)
    PROVE  \E f \in Bijection(DOMAIN sem.obligations, DOMAIN rs) :
             \A o \in DOMAIN sem.obligations : Disposes(rs[f[o]], sem.obligations[o])
<1> DEFINE O == DOMAIN sem.obligations
           f == [o \in O |-> CHOOSE r \in DOMAIN rs : Disposes(rs[r], sem.obligations[o])]
<1>1. /\ Len(rs) = Len(sem.obligations)
      /\ \A o \in O : \E r \in DOMAIN rs : Disposes(rs[r], sem.obligations[o])
    BY ExactMeans
<1>2. ASSUME NEW o \in O
      PROVE  f[o] \in DOMAIN rs /\ Disposes(rs[f[o]], sem.obligations[o])
  <2>1. \E r \in DOMAIN rs : Disposes(rs[r], sem.obligations[o])
      BY <1>1
  <2> QED
      BY <2>1
<1>3. f \in [O -> DOMAIN rs]
    BY <1>2
<1> HIDE DEF f
<1>4. ASSUME NEW o \in O, NEW p \in O, f[o] = f[p] PROVE o = p
  <2>1. sem.obligations[o].id = sem.obligations[p].id
      BY <1>2, <1>4 DEF Disposes
  <2> QED
      BY <2>1, EntryOfIndexed DEF Countable
<1>5. f \in Injection(O, DOMAIN rs)
    BY <1>3, <1>4 DEF Injection, IsInjective
<1>6. /\ IsFiniteSet(DOMAIN rs) /\ Cardinality(O) = Cardinality(DOMAIN rs)
    BY <1>1, ValuesAreFinite DEF Countable, IsOutcome
<1>7. f \in Surjection(O, DOMAIN rs)
  <2> HIDE DEF O
  <2> QED
      BY <1>5, <1>6, FS_Injection
<1> QED
    BY <1>2, <1>5, <1>7 DEF Bijection

LEMMA AccountsIsExact ==
    ASSUME NEW sem, Countable(sem), NEW rs, IsOutcome(rs)
    PROVE  Accounts(sem, rs) <=> Exact(sem, rs)
<1>0. IsArray(rs) /\ Len(sem.obligations) = Cardinality(IdsOf(sem.obligations))
    BY SumsAgree DEF IsOutcome
<1>1. ASSUME Accounts(sem, rs) PROVE Exact(sem, rs)
  <2>1. Len(rs) = Len(sem.obligations)
      BY <1>0, <1>1 DEF Accounts
  <2>2. ASSUME NEW o \in DOMAIN sem.obligations
        PROVE  \E r \in DOMAIN rs : Disposes(rs[r], sem.obligations[o])
    <3>1. PICK r \in DOMAIN rs : rs[r].id = sem.obligations[o].id
        BY <1>1 DEF Accounts, IdsOf
    <3> QED
        BY <1>1, <3>1 DEF Accounts
  <2> QED
      BY <2>1, <2>2, ExactMeans
<1>2. ASSUME Exact(sem, rs) PROVE Accounts(sem, rs)
  <2>1. PICK f \in Bijection(DOMAIN sem.obligations, DOMAIN rs) :
          \A o \in DOMAIN sem.obligations : Disposes(rs[f[o]], sem.obligations[o])
      BY <1>2, ExactMatches
  <2>2. \A r \in DOMAIN rs : \E o \in DOMAIN sem.obligations : f[o] = r
      BY <2>1 DEF Bijection, Surjection
  <2>3. \A o \in DOMAIN sem.obligations : f[o] \in DOMAIN rs
      BY <2>1 DEF Bijection, Injection
  <2>4. IdsOf(rs) = IdsOf(sem.obligations)
      BY <2>1, <2>2, <2>3 DEF Disposes, IdsOf
  <2>5. Cardinality(IdsOf(rs)) = Len(rs)
      BY <1>0, <1>2, <2>4, ExactMeans
  <2>6. ASSUME NEW r \in DOMAIN rs, NEW o \in DOMAIN sem.obligations,
               rs[r].id = sem.obligations[o].id
        PROVE  Disposes(rs[r], sem.obligations[o])
    <3>1. PICK p \in DOMAIN sem.obligations : f[p] = r
        BY <2>2
    <3>2. sem.obligations[p].id = sem.obligations[o].id
        BY <2>1, <2>6, <3>1 DEF Disposes
    <3>3. p = o
        BY <3>2, EntryOfIndexed DEF Countable
    <3> QED
        BY <2>1, <3>1, <3>3
  <2> QED
      BY <2>4, <2>5, <2>6 DEF Accounts
<1> QED
    BY <1>1, <1>2

LEMMA PairsAreFinite ==
    ASSUME NEW n \in Nat, NEW len, \A o \in 1..n : len[o] \in Nat
    PROVE  IsFiniteSet(UNION {{<<o, k>> : k \in 1..len[o]} : o \in 1..n})
<1> DEFINE row == [o \in 1..n |-> {<<o, k>> : k \in 1..len[o]}]
           Rows == {row[o] : o \in 1..n}
<1>0. \A m \in Nat : IsFiniteSet(1..m)
  <2>1. \A m \in Nat : m \in Int /\ 1 \in Int
      OBVIOUS
  <2> QED
      BY <2>1, FS_Interval
<1>1. row \in Surjection(1..n, Rows) /\ IsFiniteSet(1..n)
    BY <1>0 DEF Surjection
<1>2. IsFiniteSet(Rows)
  <2> HIDE DEF row, Rows
  <2> QED
      BY <1>1, FS_Surjection
<1>3. ASSUME NEW o \in 1..n PROVE IsFiniteSet(row[o])
  <2> DEFINE pair == [k \in 1..len[o] |-> <<o, k>>]
  <2>1. pair \in Surjection(1..len[o], row[o]) /\ IsFiniteSet(1..len[o])
      BY <1>0 DEF Surjection
  <2> HIDE DEF pair, row
  <2> QED
      BY <2>1, FS_Surjection
<1>4. \A T \in Rows : IsFiniteSet(T)
  <2> HIDE DEF row
  <2> QED
      BY <1>3
<1>5. IsFiniteSet(UNION Rows)
  <2> HIDE DEF Rows
  <2> QED
      BY <1>2, <1>4, FS_UNION
<1>6. UNION Rows = UNION {{<<o, k>> : k \in 1..len[o]} : o \in 1..n}
    OBVIOUS
<1> QED
    BY <1>5, <1>6

LEMMA ExactWork ==
    ASSUME NEW sem, Countable(sem), NEW rs, IsOutcome(rs), Exact(sem, rs)
    PROVE  /\ Work(rs) = Cardinality(RequiredWork(sem))
           /\ Work(rs) = Cardinality(CasesIn(rs))
<1> DEFINE O == DOMAIN sem.obligations
           Inputs(o) == DOMAIN sem.obligations[o].inputs
           Cases(r) == DOMAIN rs[r].cases
<1>1. PICK f \in Bijection(O, DOMAIN rs) :
        \A o \in O : Disposes(rs[f[o]], sem.obligations[o])
    BY ExactMatches
<1>2. /\ \A o \in O : f[o] \in DOMAIN rs
      /\ \A o, p \in O : f[o] = f[p] => o = p
      /\ \A r \in DOMAIN rs : \E o \in O : f[o] = r
    BY <1>1 DEF Bijection, Injection, Surjection, IsInjective
<1>3. ASSUME NEW o \in O PROVE Cases(f[o]) = Inputs(o)
  <2>1. IsArray(rs[f[o]].cases) /\ IsArray(sem.obligations[o].inputs)
      BY <1>2 DEF IsOutcome, Countable
  <2>2. Len(CaseInputs(rs[f[o]])) = Len(RefIds(sem.obligations[o].inputs))
      BY <1>1 DEF Disposes, SameIds
  <2>3. Len(rs[f[o]].cases) = Len(sem.obligations[o].inputs)
      BY <2>1, <2>2, CaseInputsMeans, IdSetOfRefIds
  <2> QED
      BY <2>1, <2>3, ArrayIndices
<1>4. \A r \in DOMAIN rs : \A k \in Cases(r) : rs[r].cases[k].disposition \in Dispositions
    BY <1>1, <1>2 DEF Disposes
<1>5. Work(rs) = Cardinality(CasesIn(rs))
  <2>1. {c \in CasesIn(rs) : rs[c[1]].cases[c[2]].disposition \in Dispositions} = CasesIn(rs)
      BY <1>4 DEF CasesIn
  <2> QED
      BY <2>1 DEF Work
<1>6. IsFiniteSet(RequiredWork(sem))
  <2> DEFINE n == Len(sem.obligations)
             len == [o \in 1..n |-> Len(sem.obligations[o].inputs)]
  <2>1. n \in Nat /\ O = 1..n
      BY ArrayIndices DEF Countable
  <2>2. \A o \in 1..n : len[o] \in Nat /\ Inputs(o) = 1..len[o]
      BY <2>1, ArrayIndices DEF Countable
  <2>5. n \in Nat /\ \A o \in 1..n : len[o] \in Nat
      BY <2>1, <2>2
  <2> HIDE DEF n, len
  <2>3. IsFiniteSet(UNION {{<<o, k>> : k \in 1..len[o]} : o \in 1..n})
      BY <2>5, PairsAreFinite
  <2>4. UNION {{<<o, k>> : k \in 1..len[o]} : o \in 1..n} = UNION {{<<o, k>> : k \in Inputs(o)} : o \in O}
    <3> HIDE DEF O, Inputs
    <3> QED
        BY <2>1, <2>2
  <2> QED
      BY <2>3, <2>4 DEF RequiredWork
<1> DEFINE h == [c \in RequiredWork(sem) |-> <<f[c[1]], c[2]>>]
<1>7. \A c : c \in RequiredWork(sem) <=> \E o \in O : \E k \in Inputs(o) : c = <<o, k>>
    BY DEF RequiredWork
<1>8. \A c : c \in CasesIn(rs) <=> \E r \in DOMAIN rs : \E k \in Cases(r) : c = <<r, k>>
    BY DEF CasesIn
<1>9. ASSUME NEW o \in O, NEW k \in Inputs(o)
      PROVE  <<o, k>> \in RequiredWork(sem) /\ h[<<o, k>>] = <<f[o], k>>
    BY <1>7
<1>10. h \in [RequiredWork(sem) -> CasesIn(rs)]
  <2>1. ASSUME NEW c \in RequiredWork(sem) PROVE <<f[c[1]], c[2]>> \in CasesIn(rs)
    <3>1. PICK o \in O : \E k \in Inputs(o) : c = <<o, k>>
        BY <1>7
    <3>2. PICK k \in Inputs(o) : c = <<o, k>>
        BY <3>1
    <3>3. c[1] = o /\ c[2] = k /\ f[o] \in DOMAIN rs /\ k \in Cases(f[o])
        BY <1>2, <1>3, <3>2
    <3> HIDE DEF O, Inputs, Cases
    <3> QED
        BY <1>8, <3>3
  <2> QED
      BY <2>1
<1>11. ASSUME NEW c \in RequiredWork(sem), NEW d \in RequiredWork(sem), h[c] = h[d]
       PROVE  c = d
  <2>0. PICK o \in O : \E k \in Inputs(o) : c = <<o, k>>
      BY <1>7
  <2>1. PICK k \in Inputs(o) : c = <<o, k>>
      BY <2>0
  <2>4. PICK p \in O : \E l \in Inputs(p) : d = <<p, l>>
      BY <1>7
  <2>2. PICK l \in Inputs(p) : d = <<p, l>>
      BY <2>4
  <2>3. <<f[o], k>> = <<f[p], l>>
    <3> HIDE DEF h, O, Inputs, Cases
    <3> QED
        BY <1>9, <1>11, <2>1, <2>2
  <2> QED
      BY <1>2, <2>1, <2>2, <2>3
<1>12. ASSUME NEW d \in CasesIn(rs) PROVE \E c \in RequiredWork(sem) : h[c] = d
  <2>0. PICK r \in DOMAIN rs : \E k \in Cases(r) : d = <<r, k>>
      BY <1>8
  <2>1. PICK k \in Cases(r) : d = <<r, k>>
      BY <2>0
  <2>2. PICK o \in O : f[o] = r
      BY <1>2
  <2>3. k \in Inputs(o)
      BY <1>3, <2>1, <2>2
  <2> HIDE DEF h, O, Inputs, Cases
  <2> QED
      BY <1>9, <2>1, <2>2, <2>3
<1>13. h \in Bijection(RequiredWork(sem), CasesIn(rs))
  <2> HIDE DEF h, O, Inputs, Cases
  <2> QED
      BY <1>10, <1>11, <1>12 DEF Bijection, Injection, Surjection, IsInjective
<1>14. Cardinality(CasesIn(rs)) = Cardinality(RequiredWork(sem))
  <2>1. ExistsBijection(RequiredWork(sem), CasesIn(rs))
      BY <1>13 DEF ExistsBijection
  <2> QED
      BY <1>6, <2>1, FS_Bijection
<1> QED
    BY <1>5, <1>14

LEMMA HoldsIsExact ==
    ASSUME NEW sem, Countable(sem), NEW rs, IsOutcome(rs)
    PROVE  AccountingHolds(sem, rs, Accounting(sem, rs)) <=> Exact(sem, rs)
<1>1. AccountingHolds(sem, rs, Accounting(sem, rs)) => Exact(sem, rs)
    BY HoldsMeans, AccountsIsExact
<1>2. Exact(sem, rs) => AccountingHolds(sem, rs, Accounting(sem, rs))
    BY HoldsMeans, AccountsIsExact, ExactWork
<1> QED
    BY <1>1, <1>2

\* Outcomes with one thing wrong are still arrays of arrays.
LEMMA CutArray ==
    ASSUME NEW s, IsArray(s), NEW n \in Nat, n <= Len(s)
    PROVE  /\ IsArray(SubSeq(s, 1, n)) /\ Len(SubSeq(s, 1, n)) = n
           /\ \A i \in 1..n : SubSeq(s, 1, n)[i] = s[i]
<1> DEFINE S == {s[i] : i \in DOMAIN s}
           t == SubSeq(s, 1, n)
<1>1. s \in Seq(S) /\ Len(s) \in Nat /\ DOMAIN s = 1..Len(s)
    BY ArrayIndices DEF IsArray
<1>2. t = [i \in 1..n |-> s[i]]
    BY <1>1
<1> HIDE DEF t
<1>3. t = [i \in 1..n |-> t[i]]
    BY <1>2
<1>4. IsArray(t) /\ Len(t) = n
    BY <1>3, MakesArray
<1> QED
    BY <1>2, <1>4 DEF t

LEMMA TailArray ==
    ASSUME NEW s, IsArray(s), Len(s) >= 1
    PROVE  IsArray(Tail(s))
<1> DEFINE S == {s[i] : i \in DOMAIN s}
<1>1. s \in Seq(S)
    BY DEF IsArray
<1> HIDE DEF S
<1>2. Tail(s) \in Seq(S)
  <2>1. s # <<>>
      BY <1>1
  <2> QED
      BY <1>1, <2>1, HeadTailProperties
<1> DEFINE t == Tail(s)
<1> HIDE DEF t
<1>3. t \in Seq(S)
    BY <1>2 DEF t
<1>4. Len(t) \in Nat /\ t = [i \in 1..Len(t) |-> t[i]]
    BY <1>3
<1>5. IsArray(t)
    BY <1>4, MakesArray
<1> QED
    BY <1>5 DEF t

\* Another array of results in the places of rs.
LEMMA OutcomeInPlace ==
    ASSUME NEW rs, IsOutcome(rs), NEW t, t = [i \in DOMAIN rs |-> t[i]],
           \A i \in DOMAIN rs : IsArray(t[i].cases)
    PROVE  IsOutcome(t)
<1>1. Len(rs) \in Nat /\ DOMAIN rs = 1..Len(rs)
    BY ArrayIndices DEF IsOutcome
<1>2. IsArray(t) /\ DOMAIN t = DOMAIN rs
    BY <1>1, MakesArray
<1> QED
    BY <1>2 DEF IsOutcome

\* An outcome as the cases make it: records with at least one case.
Recorded(rs) ==
    /\ IsOutcome(rs)
    /\ \A o \in DOMAIN rs : /\ rs[o] = [id |-> rs[o].id, cases |-> rs[o].cases]
                            /\ Len(rs[o].cases) >= 1

LEMMA AlteredIsOutcome ==
    ASSUME NEW rs, Recorded(rs), NEW t \in Altered(rs) PROVE IsOutcome(t)
<1>1. IsOutcome(rs) /\ IsArray(rs) /\ Len(rs) \in Nat /\ DOMAIN rs = 1..Len(rs)
    BY ArrayIndices DEF Recorded, IsOutcome
<1>2. ASSUME NEW o \in DOMAIN rs
      PROVE  /\ rs[o] = [id |-> rs[o].id, cases |-> rs[o].cases]
             /\ IsArray(rs[o].cases) /\ Len(rs[o].cases) \in Nat /\ Len(rs[o].cases) >= 1
             /\ DOMAIN rs[o].cases = 1..Len(rs[o].cases)
    BY ArrayIndices DEF Recorded, IsOutcome
<1>3. ASSUME NEW o \in DOMAIN rs PROVE IsOutcome(SubSeq(rs, 1, o - 1))
  <2>1. o - 1 \in Nat /\ o - 1 <= Len(rs)
      BY <1>1
  <2>2. /\ IsArray(SubSeq(rs, 1, o - 1)) /\ DOMAIN SubSeq(rs, 1, o - 1) = 1..(o - 1)
        /\ \A i \in 1..(o - 1) : SubSeq(rs, 1, o - 1)[i] = rs[i]
      BY <1>1, <2>1, CutArray, ArrayIndices
  <2> QED
      BY <1>1, <1>2, <2>1, <2>2 DEF IsOutcome
<1>4. ASSUME NEW o \in DOMAIN rs PROVE IsOutcome(Append(rs, rs[o]))
  <2>1. /\ IsArray(Append(rs, rs[o])) /\ DOMAIN Append(rs, rs[o]) = 1..(Len(rs) + 1)
        /\ \A i \in DOMAIN rs : Append(rs, rs[o])[i] = rs[i]
        /\ Append(rs, rs[o])[Len(rs) + 1] = rs[o]
      BY <1>1, AppendArray, ArrayIndices
  <2> QED
      BY <1>1, <1>2, <2>1 DEF IsOutcome
<1>5. ASSUME NEW o \in DOMAIN rs, NEW id PROVE IsOutcome([rs EXCEPT ![o].id = id])
  <2> DEFINE u == [rs EXCEPT ![o].id = id]
  <2>1. u = [i \in DOMAIN rs |-> u[i]]
      BY <1>1
  <2>2. \A i \in DOMAIN rs : u[i].cases = rs[i].cases
      BY <1>2
  <2> HIDE DEF u
  <2>3. IsOutcome(u)
      BY <1>1, <1>2, <2>1, <2>2, OutcomeInPlace
  <2> QED
      BY <2>3 DEF u
<1>6. ASSUME NEW o \in DOMAIN rs, NEW cases, IsArray(cases)
      PROVE  IsOutcome([rs EXCEPT ![o].cases = cases])
  <2> DEFINE u == [rs EXCEPT ![o].cases = cases]
  <2>1. u = [i \in DOMAIN rs |-> u[i]]
      BY <1>1
  <2>2. \A i \in DOMAIN rs : u[i].cases = IF i = o THEN cases ELSE rs[i].cases
      BY <1>2
  <2> HIDE DEF u
  <2>3. IsOutcome(u)
      BY <1>1, <1>2, <1>6, <2>1, <2>2, OutcomeInPlace
  <2> QED
      BY <2>3 DEF u
<1>7. ASSUME NEW o \in DOMAIN rs PROVE IsOutcome(Cut(rs, o, Len(rs[o].cases) - 1))
  <2>1. Len(rs[o].cases) - 1 \in Nat /\ Len(rs[o].cases) - 1 <= Len(rs[o].cases)
      BY <1>2
  <2>2. IsArray(SubSeq(rs[o].cases, 1, Len(rs[o].cases) - 1))
      BY <1>2, <2>1, CutArray
  <2>3. Cut(rs, o, Len(rs[o].cases) - 1)
          = [rs EXCEPT ![o].cases = SubSeq(rs[o].cases, 1, Len(rs[o].cases) - 1)]
      BY DEF Cut
  <2> QED
      BY <1>6, <2>2, <2>3
<1>8. ASSUME NEW o \in DOMAIN rs PROVE IsOutcome([rs EXCEPT ![o].cases = Append(@, @[1])])
  <2>1. IsArray(Append(rs[o].cases, rs[o].cases[1]))
      BY <1>2, AppendArray
  <2> QED
      BY <1>6, <2>1
<1>9. ASSUME NEW o \in DOMAIN rs, NEW input
      PROVE  IsOutcome([rs EXCEPT ![o].cases[1].input = input])
  <2> DEFINE x == [rs[o].cases[1] EXCEPT !.input = input]
  <2>1. IsArray([rs[o].cases EXCEPT ![1] = x])
    <3>1. 1 \in DOMAIN rs[o].cases
        BY <1>2
    <3> HIDE DEF x
    <3> QED
        BY <1>2, <3>1, ReplaceArray
  <2>2. [rs EXCEPT ![o].cases[1].input = input]
          = [rs EXCEPT ![o].cases = [rs[o].cases EXCEPT ![1] = x]]
      OBVIOUS
  <2> HIDE DEF x
  <2> QED
      BY <1>6, <2>1, <2>2
<1>10. ASSUME NEW o \in DOMAIN rs, NEW disposition
       PROVE  IsOutcome([rs EXCEPT ![o].cases[1].disposition = disposition])
  <2> DEFINE x == [rs[o].cases[1] EXCEPT !.disposition = disposition]
  <2>1. IsArray([rs[o].cases EXCEPT ![1] = x])
    <3>1. 1 \in DOMAIN rs[o].cases
        BY <1>2
    <3> HIDE DEF x
    <3> QED
        BY <1>2, <3>1, ReplaceArray
  <2>2. [rs EXCEPT ![o].cases[1].disposition = disposition]
          = [rs EXCEPT ![o].cases = [rs[o].cases EXCEPT ![1] = x]]
      OBVIOUS
  <2> HIDE DEF x
  <2> QED
      BY <1>6, <2>1, <2>2
<1>11. ASSUME NEW o \in DOMAIN rs, NEW p \in DOMAIN rs
       PROVE  IsOutcome([rs EXCEPT ![o].cases = Append(@, rs[p].cases[1]), ![p].cases = Tail(@)])
  <2> DEFINE more == Append(rs[o].cases, rs[p].cases[1])
             u == [rs EXCEPT ![o].cases = Append(@, rs[p].cases[1]), ![p].cases = Tail(@)]
  <2>1. IsArray(more) /\ Len(more) >= 1
      BY <1>2, AppendArray
  <2>2. u = [i \in DOMAIN rs |-> u[i]]
      BY <1>1
  <2>3. ASSUME NEW i \in DOMAIN rs
        PROVE  u[i].cases \in {more, Tail(more), Tail(rs[p].cases), rs[i].cases}
    <3>1. rs[i] = [id |-> rs[i].id, cases |-> rs[i].cases]
        BY <1>2
    <3>2. CASE i # o /\ i # p
        BY <3>1, <3>2
    <3>3. CASE i # o /\ i = p
        BY <3>1, <3>3
    <3>4. CASE i = o /\ i # p
        BY <3>1, <3>4
    <3>5. CASE i = o /\ i = p
        BY <3>1, <3>5
    <3> QED
        BY <3>2, <3>3, <3>4, <3>5
  <2>4. IsArray(Tail(more)) /\ IsArray(Tail(rs[p].cases))
      BY <1>2, <2>1, TailArray
  <2> HIDE DEF u, more
  <2>5. \A i \in DOMAIN rs : IsArray(u[i].cases)
      BY <1>2, <2>1, <2>3, <2>4
  <2>6. IsOutcome(u)
      BY <1>1, <2>2, <2>5, OutcomeInPlace
  <2> QED
      BY <2>6 DEF u
<1>12. ASSUME NEW o \in DOMAIN rs, NEW p \in DOMAIN rs, t = Moved(rs, o, p)
       PROVE  IsOutcome(t)
    BY <1>11, <1>12 DEF Moved
<1>13. ASSUME NEW o \in DOMAIN rs, t \in AlteredAt(rs, o)
       PROVE  IsOutcome(t)
  <2>1. CASE t = SubSeq(rs, 1, o - 1)
      BY <1>3, <2>1
  <2>2. CASE t = Append(rs, rs[o])
      BY <1>4, <2>2
  <2>3. CASE t = [rs EXCEPT ![o].id = "invented"]
      BY <1>5, <2>3
  <2>4. CASE t = Cut(rs, o, Len(rs[o].cases) - 1)
      BY <1>7, <2>4
  <2>5. CASE t = [rs EXCEPT ![o].cases = Append(@, @[1])]
      BY <1>8, <2>5
  <2>6. CASE t = [rs EXCEPT ![o].cases[1].input = "invented"]
      BY <1>9, <2>6
  <2>7. CASE t = [rs EXCEPT ![o].cases[1].disposition = "skipped"]
      BY <1>10, <2>7
  <2> QED
      BY <1>13, <2>1, <2>2, <2>3, <2>4, <2>5, <2>6, <2>7, Zenon DEF AlteredAt
<1>14. PICK o \in DOMAIN rs :
          t \in AlteredAt(rs, o) \/ \E p \in DOMAIN rs : t = Moved(rs, o, p)
    BY DEF Altered
<1> QED
    BY <1>12, <1>13, <1>14

LEMMA CheckedIsCountable ==
    ASSUME doc \in Documents, Resolvable2 PROVE Countable(doc.sem)
<1>1. /\ IsSemantics(doc.sem) /\ SetsAgree(doc.cg, doc.sem) /\ ObligationsAgree(doc.sem)
      /\ PartitionsAreComplete(doc.cg, doc.sem)
    BY CheckedMeans DEF ValidDocument
<1>2. /\ IsArray(doc.sem.obligations) /\ Indexed(doc.sem.obligations)
      /\ IsArray(doc.sem.members) /\ Indexed(doc.sem.members)
      /\ Partition(Represented(doc.sem), Unsupported(doc.sem), IdsOf(doc.sem.members))
    BY <1>1 DEF IsSemantics, SetsAgree, ObligationsAgree, PartitionsAreComplete
<1>3. ASSUME NEW o \in DOMAIN doc.sem.obligations
      PROVE  /\ IsArray(doc.sem.obligations[o].inputs)
             /\ Cardinality(IdSet(doc.sem.obligations[o].inputs))
                  = Len(doc.sem.obligations[o].inputs)
  <2> DEFINE inputs == doc.sem.obligations[o].inputs
             needs == InputsReached(doc.sem, doc.sem.obligations[o].coverage)
  <2>1. Lists(RefIds(inputs), needs)
      BY RequiredIsReached DEF Obligations
  <2>2. IsArray(inputs)
      BY <1>1 DEF IsSemantics
  <2> HIDE DEF inputs, needs
  <2>3. IdSet(inputs) = needs /\ Len(RefIds(inputs)) = Len(inputs)
      BY <2>1, <2>2, ListsReferences, IdSetOfRefIds
  <2>4. Cardinality(IdSet(inputs)) = Len(inputs)
      BY <2>1, <2>3 DEF Lists
  <2> QED
      BY <2>2, <2>4 DEF inputs
<1> QED
    BY <1>2, <1>3 DEF Countable

LEMMA ResultsAreExact ==
    ASSUME ExecutionInv, Checked, ~Remaining
    PROVE  Recorded(results) /\ Exact(doc.sem, results)
<1>1. ASSUME NEW o \in DOMAIN results
      PROVE  /\ Answers(results[o], Obligations[o], o = Len(results), Allowed)
             /\ o \in DOMAIN Obligations
             /\ IsArray(results[o].cases) /\ Len(results[o].cases) >= 1
             /\ results[o] = [id |-> Obligations[o].id, cases |-> results[o].cases]
  <2>1. Answers(results[o], Obligations[o], o = Len(results), Allowed)
      BY DEF ExecutionInv, ResultsInv
  <2>2. o \in DOMAIN Obligations
      BY NothingRemains, Standing
  <2>3. Len(results[o].cases) \in 1..Len(Obligations[o].inputs)
      BY <2>1 DEF Answers
  <2> QED
      BY <2>1, <2>2, <2>3, Standing DEF Answers
<1>2. Recorded(results)
    BY <1>1 DEF Recorded, IsOutcome, ExecutionInv, ResultsInv
<1>3. ASSUME NEW o \in DOMAIN Obligations
      PROVE  o \in DOMAIN results /\ Disposes(results[o], Obligations[o])
  <2>1. o \in DOMAIN results
      BY NothingRemains, Standing
  <2>2. Len(results[o].cases) = Len(Obligations[o].inputs)
      BY NothingRemains
  <2>3. DOMAIN results[o].cases = DOMAIN Obligations[o].inputs
      BY <1>1, <2>1, <2>2, Standing, ArrayIndices
  <2>4. CaseInputs(results[o]) = RefIds(Obligations[o].inputs)
    <3>1. ASSUME NEW k \in DOMAIN results[o].cases
          PROVE  results[o].cases[k].input = Obligations[o].inputs[k].id
      <4>1. results[o].cases[k] = [input |-> Obligations[o].inputs[k].id,
                                   disposition |-> results[o].cases[k].disposition]
          BY <1>1, <2>1, Zenon DEF Answers
      <4> QED
          BY <4>1
    <3> QED
        BY <2>3, <3>1 DEF CaseInputs, RefIds
  <2>5. SameIds(CaseInputs(results[o]), RefIds(Obligations[o].inputs))
      BY <2>4 DEF SameIds
  <2>6. \A k \in DOMAIN results[o].cases : results[o].cases[k].disposition \in Dispositions
      BY <2>1, CasesAreAllowed, PossibleMeans
  <2> QED
      BY <1>1, <2>1, <2>5, <2>6 DEF Disposes
<1>4. Len(results) = Len(Obligations)
    BY NothingRemains DEF Begun
<1>5. Exact(doc.sem, results)
    BY <1>3, <1>4, ExactMeans DEF Obligations
<1> QED
    BY <1>2, <1>5

LEMMA InvGivesExact == ASSUME ExecutionInv PROVE AccountingIsExact
<1>1. ASSUME phase = "account", NEW rs \in {results} \union Altered(results)
      PROVE  AccountingHolds(doc.sem, rs, Accounting(doc.sem, rs)) <=> Exact(doc.sem, rs)
  <2>1. doc \in Documents /\ Checked /\ ~Remaining /\ Resolvable2
      BY <1>1 DEF ExecutionInv, Checked
  <2>2. Recorded(results) /\ Countable(doc.sem)
      BY <2>1, ResultsAreExact, CheckedIsCountable
  <2>3. IsOutcome(rs)
      BY <2>2, AlteredIsOutcome DEF Recorded
  <2> QED
      BY <2>2, <2>3, HoldsIsExact
<1>2. outcome.state # "malfunction"
  <2>1. SUFFICES ASSUME outcome.state = "malfunction" PROVE FALSE
      OBVIOUS
  <2>2. /\ Checked /\ ~Remaining /\ doc \in Documents
        /\ outcome.state = IF AccountingHolds(doc.sem, results, Accounting(doc.sem, results))
                           THEN Terminal(DispositionsOf(results)) ELSE "malfunction"
      BY <2>1, EndMeans
  <2>3. Recorded(results) /\ Exact(doc.sem, results) /\ Countable(doc.sem)
      BY <2>2, ResultsAreExact, CheckedIsCountable DEF Checked
  <2>4. AccountingHolds(doc.sem, results, Accounting(doc.sem, results))
      BY <2>3, HoldsIsExact DEF Recorded
  <2>5. Terminal(DispositionsOf(results)) # "malfunction"
      BY DEF Terminal
  <2> QED
      BY <2>1, <2>2, <2>4, <2>5
<1> QED
    BY <1>1, <1>2 DEF AccountingIsExact

\* The accounting accepts an outcome exactly when each required pair of
\* obligation and input has one disposed case, for any accepted documents and
\* any of the alterations; so no accepted document ends as a malfunction
\* (executeSharedContractV2, validateSharedOutcomeAccounting).
THEOREM AccountingIsExactHolds == Spec => []AccountingIsExact
BY InvGivesExact, ExecutionInductive, PTL
=============================================================================
