---------------------------- MODULE SharedBundle ----------------------------
(***************************************************************************)
(* The candidate bundle of Defense Generation in the shared contract       *)
(* (shared_contract_v2.go): the checks made of it against the semantics,   *)
(* and the WAF prepared from its two artifacts.                            *)
(*                                                                         *)
(* bundle.contents gives each artifact id the document it decodes to, or   *)
(* Garbled.  A policy is TRUE when apply, rollback, remove and readback    *)
(* have the values the contract demands.                                   *)
(***************************************************************************)
EXTENDS SharedSemantics, SharedWaf

CONSTANT Garbled        \* artifact content that does not decode

\* checkedRefs: known, of the right kind and scope, each once.
CheckedRefs(refs, kind, S) ==
    RefsInto(refs, kind, S) /\ Cardinality(IdSet(refs)) = Len(refs)

ArtifactsOf(bundle) == {bundle.artifacts[i] : i \in DOMAIN bundle.artifacts}
GroupsOf(bundle) == {bundle.groups[i] : i \in DOMAIN bundle.groups}

----------------------------------------------------------------------------
(* validateSharedDefenseRow and validateSharedBundle *)

\* Row and logical identity, digests and sizes, and the binding to cg.
BundleIdentityHolds(bundle) == bundle.identity /\ bundle.digests /\ bundle.bound

\* Artifacts are numbered in their order, and each one's locator names and
\* digests its content; there is no other content.
ArtifactsComplete(bundle) ==
    /\ Indexed(bundle.artifacts)
    /\ \A i \in DOMAIN bundle.artifacts :
         bundle.artifacts[i].order = i - 1 /\ bundle.artifacts[i].located
    /\ bundle.artifacts # <<>>
    /\ IdsOf(bundle.artifacts) = DOMAIN bundle.contents

UnitComplete(bundle) ==
    /\ CheckedRefs(bundle.unit, "artifact", IdsOf(bundle.artifacts))
    /\ Lists(RefIds(bundle.unit), IdsOf(bundle.artifacts))
    /\ bundle.policy

\* Every artifact names a known group and is in exactly one; the code does not
\* compare the two.
GroupsPartition(bundle) ==
    /\ Indexed(bundle.groups)
    /\ \A g \in GroupsOf(bundle) :
         g.policy /\ CheckedRefs(g.artifacts, "artifact", IdsOf(bundle.artifacts))
    /\ \A a \in ArtifactsOf(bundle) :
         /\ RefsInto(<<a.group>>, "atomic-group", IdsOf(bundle.groups))
         /\ Cardinality({g \in GroupsOf(bundle) : a.id \in IdSet(g.artifacts)}) = 1

\* An artifact depends on artifacts applied before it.
DependenciesPrecede(bundle) ==
    \A a \in ArtifactsOf(bundle) :
        /\ CheckedRefs(a.depends, "artifact", IdsOf(bundle.artifacts))
        /\ \A id \in IdSet(a.depends) : Entry(bundle.artifacts, id).order < a.order

DirectivesKnown(bundle) ==
    /\ Indexed(bundle.directives)
    /\ \A i \in DOMAIN bundle.directives :
         RefsInto(<<bundle.directives[i].artifact>>, "artifact", IdsOf(bundle.artifacts))

\* Each obligation has one mapping, exact and of its own coverage.
MappingsComplete(bundle, sem) ==
    /\ Indexed(bundle.mappings)
    /\ IdsOf(bundle.mappings) = IdsOf(sem.obligations)
    /\ \A m \in {bundle.mappings[i] : i \in DOMAIN bundle.mappings} :
         LET coverage == Entry(sem.obligations, m.id).coverage IN
         /\ m.exact
         /\ m.coverage = <<coverage>>
         /\ Coverage(coverage, sem).ok
         /\ Lists(RefIds(m.members), Coverage(coverage, sem).members)
         /\ RefsOfKind(m.members, "source-member")
         /\ CheckedRefs(m.artifacts, "artifact", IdsOf(bundle.artifacts))
         /\ CheckedRefs(m.directives, "directive", IdsOf(bundle.directives))

\* Steps of the provenance are numbered and have digests.
ProvenanceOrdered(bundle) ==
    /\ bundle.provenance # <<>>
    /\ \A i \in DOMAIN bundle.provenance :
         bundle.provenance[i].order = i - 1 /\ bundle.provenance[i].digest

ValidBundle(bundle, sem) ==
    /\ BundleIdentityHolds(bundle)
    /\ ArtifactsComplete(bundle)
    /\ UnitComplete(bundle)
    /\ GroupsPartition(bundle)
    /\ DependenciesPrecede(bundle)
    /\ DirectivesKnown(bundle)
    /\ MappingsComplete(bundle, sem)
    /\ ProvenanceOrdered(bundle)

----------------------------------------------------------------------------
(* prepareSharedWAF *)

OfKind(bundle, kind) == {a \in ArtifactsOf(bundle) : a.kind = kind}

\* One match rule and one carrier table, that both decode and nothing else.
ReadsBack(bundle) ==
    /\ Len(bundle.unit) = Cardinality(DOMAIN bundle.contents)
    /\ Cardinality(OfKind(bundle, "match-rule")) = 1
    /\ Cardinality(OfKind(bundle, "configuration-fragment")) = 1
    /\ \A a \in ArtifactsOf(bundle) :
         /\ a.kind \in {"match-rule", "configuration-fragment"}
         /\ a.id \in DOMAIN bundle.contents
         /\ bundle.contents[a.id] # Garbled

ContentOf(bundle, kind) == bundle.contents[(CHOOSE a \in OfKind(bundle, kind) : TRUE).id]

\* The binding a rule needs: component, carrier and the name in lower case.
BindingKey(b) == <<b.component, b.carrier, FoldName[b.name]>>

\* Rules and carrier bindings correspond one to one.  A rule without an id does
\* not hold its component against a later rule.
RulesBound(rules, bindings) ==
    /\ rules # <<>> /\ Len(rules) = Len(bindings)
    /\ \A i, j \in DOMAIN bindings :
         i # j => BindingKey(bindings[i]) # BindingKey(bindings[j])
    /\ \A i \in DOMAIN rules :
         /\ rules[i].compiles
         /\ \E j \in DOMAIN bindings : BindingKey(rules[i]) = BindingKey(bindings[j])
         /\ \A j \in 1..(i - 1) : rules[j].component = rules[i].component => rules[j].id = ""

\* The rule that stays in the map: the last one of the component.
RuleOf(rules, component) ==
    LET mine == {i \in DOMAIN rules : rules[i].component = component}
    IN rules[CHOOSE i \in mine : \A j \in mine : j <= i]

\* The inputs of a component that go to a route, in the component's order.
InputsAt(component, route, sem) ==
    IF component \notin IdsOf(sem.components) THEN <<>>
    ELSE SelectSeq(Entry(sem.components, component).inputs,
                   LAMBDA r : /\ r.id \in IdsOf(sem.inputs)
                              /\ LET input == Entry(sem.inputs, r.id).input IN
                                 /\ HasRoute(input)
                                 /\ ValidRoute(RouteOf(input))
                                 /\ RouteOf(input) = route)

\* Wrong on purpose: a component without inputs at the route may be bound to it.
RouteAlternativeLoose(alternative, coverages, sem) ==
    /\ alternative.components \in coverages
    /\ ValidRoute(alternative.route)
    /\ IdsOf(alternative.bindings)
         = {alternative.components[j] : j \in DOMAIN alternative.components}
    /\ \A b \in {alternative.bindings[i] : i \in DOMAIN alternative.bindings} :
         b.inputs = InputsAt(b.id, alternative.route, sem)

\* The bindings of an alternative fill a map from components to inputs.  Only a
\* binding that has inputs keeps its component from being bound again: after
\* one that leaves its inputs out, the next one replaces it.
BindingsFill(bindings) ==
    /\ "" \notin IdsOf(bindings)
    /\ \A i, j \in DOMAIN bindings :
         i < j /\ bindings[i].id = bindings[j].id => bindings[i].inputs = <<>>
BoundTo(bindings, component) ==
    LET mine == {i \in DOMAIN bindings : bindings[i].id = component}
    IN bindings[CHOOSE i \in mine : \A j \in mine : j <= i].inputs

\* A route alternative is one of the Boolean alternatives, bound to exactly the
\* inputs that the semantics send to its route.
RouteAlternativeHolds(alternative, coverages, sem) ==
    /\ alternative.components \in coverages
    /\ ValidRoute(alternative.route)
    /\ BindingsFill(alternative.bindings)
    /\ Cardinality(IdsOf(alternative.bindings)) = Len(alternative.components)
    /\ \A j \in DOMAIN alternative.components :
         LET component == alternative.components[j]
             expected == InputsAt(component, alternative.route, sem)
         IN /\ expected # <<>>
            /\ component \in IdsOf(alternative.bindings)
            /\ BoundTo(alternative.bindings, component) = expected

RoutesHold(main, sem) ==
    LET coverages == {main.coverage[i] : i \in DOMAIN main.coverage} IN
    /\ main.routes # <<>>
    /\ Indexed(main.routes)
    /\ \A i \in DOMAIN main.routes : RouteAlternativeHolds(main.routes[i], coverages, sem)
    /\ {main.routes[i].components : i \in DOMAIN main.routes} = coverages

NoRoute == [kind |-> "", method |-> "", key |-> "", site |-> "", path |-> ""]

\* Without alternatives every rule is an alternative of its own.
AlternativesOf(main) ==
    IF main.placement = "route-bound-v1"
    THEN [i \in DOMAIN main.routes |->
            [components |-> main.routes[i].components, bound |-> TRUE, route |-> main.routes[i].route]]
    ELSE LET lists == IF main.coverage # <<>> THEN main.coverage
                      ELSE [i \in DOMAIN main.rules |-> <<main.rules[i].component>>]
         IN [i \in DOMAIN lists |-> [components |-> lists[i], bound |-> FALSE, route |-> NoRoute]]

\* Every component of an alternative has a rule with an id.
AlternativesKnown(main) ==
    LET alternatives == AlternativesOf(main) IN
    \A i \in DOMAIN alternatives :
        /\ alternatives[i].components # <<>>
        /\ \A j \in DOMAIN alternatives[i].components :
             LET c == alternatives[i].components[j] IN
             /\ \E k \in DOMAIN main.rules : main.rules[k].component = c
             /\ RuleOf(main.rules, c).id # ""

Preparable(bundle, sem) ==
    /\ ReadsBack(bundle)
    /\ LET main == ContentOf(bundle, "match-rule")
           table == ContentOf(bundle, "configuration-fragment")
       IN /\ main.action = "block"
          /\ main.ruleset # "" /\ main.ruleset = table.ruleset
          /\ RulesBound(main.rules, table.bindings)
          /\ main.placement \in {"", "route-bound-v1"}
          /\ main.placement = "route-bound-v1" => RoutesHold(main, sem)
          /\ AlternativesKnown(main)

PreparedWaf(bundle) ==
    LET main == ContentOf(bundle, "match-rule") IN
    [rules |-> [c \in {main.rules[i].component : i \in DOMAIN main.rules} |->
                  RuleOf(main.rules, c)],
     alternatives |-> AlternativesOf(main)]
=============================================================================
