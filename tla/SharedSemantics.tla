-------------------------- MODULE SharedSemantics --------------------------
(***************************************************************************)
(* What Check Generation hands over in the shared contract                 *)
(* (shared_contract_v2.go): the result document cg with the attack         *)
(* semantics sem embedded in it, and the checks made of the two.           *)
(*                                                                         *)
(* A typed reference is [kind, id]; one whose scope is another document    *)
(* has the kind "foreign".  The arrays of the documents are sequences: an  *)
(* id may be missing ("") or occur twice.                                  *)
(***************************************************************************)
EXTENDS Naturals, Sequences, FiniteSets

IdsOf(s) == {s[i].id : i \in DOMAIN s}
Entry(s, id) == LET i == CHOOSE i \in DOMAIN s : s[i].id = id IN s[i]

\* indexObjects, and the loops that index the embedded arrays.
Indexed(s) == "" \notin IdsOf(s) /\ Cardinality(IdsOf(s)) = Len(s)

RefIds(refs) == [i \in DOMAIN refs |-> refs[i].id]
IdSet(refs) == {refs[i].id : i \in DOMAIN refs}
Occurs(s, v) == Cardinality({i \in DOMAIN s : s[i] = v})
\* sameStringSetLocal counts: it compares multisets.
SameIds(s, t) ==
    /\ Len(s) = Len(t)
    /\ \A i \in DOMAIN t : Occurs(s, t[i]) = Occurs(t, t[i])
\* The same against the keys of a map, which occur once.
Lists(s, S) == Len(s) = Cardinality(S) /\ {s[i] : i \in DOMAIN s} = S

RefsInto(refs, kind, S) == \A i \in DOMAIN refs : refs[i].kind = kind /\ refs[i].id \in S
RefsOfKind(refs, kind) == \A i \in DOMAIN refs : refs[i].kind = kind

----------------------------------------------------------------------------
(* sharedCoverageRequirements: the inputs and the members a reference covers *)

BadCoverage == [ok |-> FALSE, inputs |-> {}, members |-> {}]

ComponentCoverage(c) ==
    IF RefsOfKind(c.inputs, "test-input") /\ RefsOfKind(c.members, "source-member")
    THEN [ok |-> TRUE, inputs |-> IdSet(c.inputs), members |-> IdSet(c.members)]
    ELSE BadCoverage

AllRefs(sem) == UNION {{sem.groups[k].refs[i] : i \in DOMAIN sem.groups[k].refs} :
                         k \in DOMAIN sem.groups}

\* Wrong on purpose: a group's nested groups are not entered.
CoverageShallow(root, sem) ==
    LET refs == IF root.kind = "component" THEN {root}
                ELSE LET g == Entry(sem.groups, root.id) IN {g.refs[i] : i \in DOMAIN g.refs}
        found == {Entry(sem.components, r.id) : r \in {r \in refs : r.kind = "component"}}
    IN [ok |-> TRUE, inputs |-> UNION {IdSet(c.inputs) : c \in found},
        members |-> UNION {IdSet(c.members) : c \in found}]

\* What a group covers, when below[r] is what each of its references covers.
GroupCoverage(g, below) ==
    LET inputs == UNION {below[g.refs[i]].inputs : i \in DOMAIN g.refs}
        members == UNION {below[g.refs[i]].members : i \in DOMAIN g.refs}
    IN IF (\A i \in DOMAIN g.refs : below[g.refs[i]].ok) /\ Lists(RefIds(g.members), members)
       THEN [ok |-> TRUE, inputs |-> inputs, members |-> members]
       ELSE BadCoverage

\* What a reference covers: below is what the walk finds with it on the path.
RefCoverage(ref, sem, visiting, below) ==
    IF ref.kind = "component" /\ ref.id \in IdsOf(sem.components)
    THEN ComponentCoverage(Entry(sem.components, ref.id))
    ELSE IF ref.kind = "coverage-group" /\ ref.id \in IdsOf(sem.groups) \ visiting
    THEN GroupCoverage(Entry(sem.groups, ref.id), below)
    ELSE BadCoverage

\* A group on the path from the root to itself is a cycle; one reached along
\* two paths is not.
CoverageWalk(root, sem) ==
    LET walk[visiting \in SUBSET IdsOf(sem.groups)] ==
          [ref \in AllRefs(sem) \union {root} |->
             RefCoverage(ref, sem, visiting, walk[visiting \union {ref.id}])]
    IN walk

Coverage(root, sem) ==
    IF Indexed(sem.components) /\ Indexed(sem.groups)
    THEN CoverageWalk(root, sem)[{}][root] ELSE BadCoverage

----------------------------------------------------------------------------
(* validateSharedCGDocument and validateSharedCompleteness *)

\* Contract, result id, revision, digest profiles and digests of cg and sem.
IdentityHolds(cg, sem) == cg.identity /\ cg.digests /\ sem.identity /\ sem.digests

\* The embedded sets are the sets of the enclosing result; the inputs may be
\* fewer, since an unsupported one is not embedded.
SetsAgree(cg, sem) ==
    /\ Indexed(cg.members) /\ Indexed(cg.artifacts) /\ Indexed(cg.inputs)
    /\ Indexed(sem.members) /\ Indexed(sem.artifacts) /\ Indexed(sem.inputs)
    /\ Indexed(sem.components)
    /\ IdsOf(sem.members) = IdsOf(cg.members) /\ Len(sem.members) = sem.memberCount
    /\ IdsOf(sem.artifacts) = IdsOf(cg.artifacts) /\ Len(sem.artifacts) = sem.artifactCount
    /\ IdsOf(sem.inputs) \subseteq IdsOf(cg.inputs)

\* no-checkable-artifact is the one state with another name in the semantics.
TerminalStateFromCG(state) ==
    IF state = "no-checkable-artifact" THEN "no-checkable-signal" ELSE state
Positive(state) == state \in {"verified", "signal-produced"}

MembersAgree(cg, sem) ==
    \A m \in {sem.members[i] : i \in DOMAIN sem.members} :
        LET outer == Entry(cg.members, m.id) IN
        /\ m.state = TerminalStateFromCG(outer.state)
        /\ SameIds(RefIds(m.artifacts), outer.artifacts)
        /\ Positive(m.state) <=> m.artifacts # <<>>
        /\ RefsInto(m.artifacts, "source-artifact", IdsOf(sem.artifacts))

\* Artifacts that refer to the semantics say which components and obligations
\* come from them; together they must name every one.
Referring(cg) == {a \in {cg.artifacts[i] : i \in DOMAIN cg.artifacts} : a.refers # "nowhere"}

ArtifactsAgree(cg, sem) ==
    /\ \A a \in {sem.artifacts[i] : i \in DOMAIN sem.artifacts} :
         LET outer == Entry(cg.artifacts, a.id) IN
         /\ SameIds(RefIds(a.members), outer.members)
         /\ RefsInto(a.members, "source-member", IdsOf(sem.members))
         /\ a.content
         /\ outer.refers # "elsewhere"
    /\ UNION {a.components : a \in Referring(cg)} = IdsOf(sem.components)
    /\ UNION {a.obligations : a \in Referring(cg)} = IdsOf(sem.obligations)

InputsAgree(cg, sem) ==
    \A t \in {sem.inputs[i] : i \in DOMAIN sem.inputs} :
        LET outer == Entry(cg.inputs, t.id) IN
        /\ RefsInto(<<t.artifact>>, "source-artifact", IdsOf(sem.artifacts))
        /\ t.artifact.id = outer.artifact
        /\ SameIds(RefIds(t.members), outer.members)
        /\ RefsInto(t.members, "source-member", IdsOf(sem.members))

\* An obligation requires exactly the inputs its coverage reference needs, each
\* once; the members it needs are computed and not looked at.
ObligationsAgree(sem) ==
    /\ Indexed(sem.obligations)
    /\ \A o \in {sem.obligations[i] : i \in DOMAIN sem.obligations} :
         LET needs == Coverage(o.coverage, sem) IN
         /\ o.required
         /\ needs.ok
         /\ RefsInto(o.inputs, "test-input", IdsOf(sem.inputs))
         /\ Lists(RefIds(o.inputs), needs.inputs)

Represented(sem) == UNION {IdSet(sem.inputs[i].members) : i \in DOMAIN sem.inputs}
Unsupported(sem) == UNION {IdSet(sem.dimensions[i].members) : i \in DOMAIN sem.dimensions}

DimensionsAgree(cg, sem) ==
    \A d \in {sem.dimensions[i] : i \in DOMAIN sem.dimensions} :
        /\ d.named
        /\ d.members # <<>>
        /\ RefsInto(d.members, "source-member", IdsOf(sem.members))
        /\ RefsInto(d.artifacts, "source-artifact", IdsOf(sem.artifacts))
        /\ RefsInto(d.inputs, "test-input", IdsOf(cg.inputs))

\* Two sets partition a third.
Partition(S, T, whole) == S \intersect T = {} /\ S \union T = whole

\* Every member, artifact and input is represented or unsupported and not both.
PartitionsAreComplete(cg, sem) ==
    LET shown == {sem.inputs[i].artifact.id : i \in DOMAIN sem.inputs}
        hidden == {sem.dimensions[i] : i \in DOMAIN sem.dimensions} IN
    /\ Partition(Represented(sem), Unsupported(sem), IdsOf(sem.members))
    /\ Partition(shown, UNION {IdSet(d.artifacts) : d \in hidden}, IdsOf(sem.artifacts))
    /\ shown = {a.id : a \in Referring(cg)}
    /\ Partition(IdsOf(sem.inputs), UNION {IdSet(d.inputs) : d \in hidden}, IdsOf(cg.inputs))

ValidDocument(cg, sem) ==
    /\ IdentityHolds(cg, sem)
    /\ SetsAgree(cg, sem)
    /\ MembersAgree(cg, sem)
    /\ ArtifactsAgree(cg, sem)
    /\ InputsAgree(cg, sem)
    /\ ObligationsAgree(sem)
    /\ DimensionsAgree(cg, sem)
    /\ PartitionsAreComplete(cg, sem)
=============================================================================
