-------------------------- MODULE SharedExecution --------------------------
(***************************************************************************)
(* executeSharedContractV2 (shared_contract_v2.go): both results are       *)
(* resolved and checked, the bundle becomes a WAF, every required pair of  *)
(* obligation and input is a case, and the outcome is accounted for before *)
(* it is handed back.                                                      *)
(*                                                                         *)
(* doc is what the two results hold.  The context of the run may be        *)
(* cancelled (lost lease, deadline, shutdown) at any step, the sources and *)
(* the substrate may fail.                                                 *)
(***************************************************************************)
EXTENDS SharedBundle

CONSTANT Documents      \* [cg, sem, bundle, profile, rows]

\* What the schemas of the two results say of their arrays: an obligation
\* requires an input (minItems of required_input_refs), a route has these five
\* texts and no other.
IsArray(s) == s \in Seq({s[i] : i \in DOMAIN s})

IsRuleSet(main) ==
    /\ IsArray(main.rules) /\ IsArray(main.coverage) /\ IsArray(main.routes)
    /\ \A i \in DOMAIN main.coverage : IsArray(main.coverage[i])
    /\ \A i \in DOMAIN main.routes :
         LET a == main.routes[i] IN
         /\ IsArray(a.components)
         /\ a.route = [kind |-> a.route.kind, method |-> a.route.method, key |-> a.route.key,
                       site |-> a.route.site, path |-> a.route.path]

IsSemantics(sem) ==
    /\ \A s \in {sem.members, sem.inputs, sem.components, sem.groups, sem.obligations} : IsArray(s)
    /\ \A i \in DOMAIN sem.inputs :
         /\ IsArray(sem.inputs[i].members)
         /\ HasRoute(sem.inputs[i].input) =>
              /\ "fields" \in DOMAIN sem.inputs[i].input
              /\ \A c \in {"query", "header", "cookie"} : IsArray(sem.inputs[i].input.fields[c])
    /\ \A i \in DOMAIN sem.groups : IsArray(sem.groups[i].refs)
    /\ \A i \in DOMAIN sem.obligations :
         IsArray(sem.obligations[i].inputs) /\ sem.obligations[i].inputs # <<>>

IsSource(cg) ==
    /\ \A s \in {cg.members, cg.artifacts, cg.inputs} : IsArray(s)
    /\ \A i \in DOMAIN cg.inputs : IsArray(cg.inputs[i].members)

IsDocument(d) ==
    /\ IsSource(d.cg) /\ IsSemantics(d.sem) /\ IsArray(d.bundle.mappings)
    /\ \A a \in OfKind(d.bundle, "match-rule") :
         a.id \in DOMAIN d.bundle.contents /\ d.bundle.contents[a.id] # Garbled =>
           IsRuleSet(d.bundle.contents[a.id])

ASSUME DocumentAssumption == \A d \in Documents : IsDocument(d)

VARIABLES
    doc,
    phase,      \* "resolve", "prepare", "start", "cases", "account" or "end"
    live,       \* whether the context is not cancelled
    results,    \* out.ObligationResults, with one entry begun per obligation
    outcome     \* terminal state and match, "none" while the run goes on

vars == <<doc, phase, live, results, outcome>>

Dispositions == {"blocked", "not-blocked", "safety-stop", "unsupported"}
NoOutcome == [state |-> "none", match |-> FALSE]

Obligations == doc.sem.obligations
Waf == PreparedWaf(doc.bundle)

Init ==
    /\ doc \in Documents
    /\ phase = "resolve"
    /\ live = TRUE
    /\ results = <<>>
    /\ outcome = NoOutcome

CouldNotTest ==
    /\ phase' = "end"
    /\ outcome' = [state |-> "could-not-test", match |-> FALSE]
    /\ UNCHANGED <<doc, live, results>>

----------------------------------------------------------------------------
(* ResolveV2: one row of each result, Check Generation first *)

Resolvable2 == doc.rows = 1 /\ ValidDocument(doc.cg, doc.sem) /\ ValidBundle(doc.bundle, doc.sem)

Resolve ==
    /\ phase = "resolve" /\ live
    /\ Resolvable2
    /\ phase' = "prepare"
    /\ UNCHANGED <<doc, live, results, outcome>>

\* The query fails, returns another number of rows, or a check does.
ResolveFails == phase = "resolve" /\ CouldNotTest

Prepare ==
    /\ phase = "prepare"
    /\ IF Preparable(doc.bundle, doc.sem)
       THEN phase' = "start" /\ UNCHANGED <<doc, live, results, outcome>>
       ELSE CouldNotTest

Start ==
    /\ phase = "start" /\ live
    /\ phase' = "cases"
    /\ UNCHANGED <<doc, live, results, outcome>>

StartFails == phase = "start" /\ CouldNotTest

----------------------------------------------------------------------------
(* The cases *)

\* The obligation whose cases are being run: the last one begun if it lacks
\* cases, else the next one.
Begun == Len(results)
Unfinished == /\ Begun > 0
              /\ Len(results[Begun].cases) < Len(Obligations[Begun].inputs)
Remaining == Unfinished \/ Begun < Len(Obligations)
Current == IF Unfinished THEN Begun ELSE Begun + 1
CasesOf(o) == IF o <= Begun THEN results[o].cases ELSE <<>>

NextInput ==
    LET k == Len(CasesOf(Current)) + 1
    IN Entry(doc.sem.inputs, Obligations[Current].inputs[k].id)

\* executeSharedCase before the request is sent.
Unsendable(input) ==
    \/ ~input.typed
    \/ input.modality = "http-request-template" /\ ~Resolvable(input, doc.profile)
    \/ ~BodyResolves(input.body)
Request(input) ==
    IF input.modality = "http-request-template" THEN Render(input, doc.profile) ELSE input
CaseVerdict(input) ==
    Evaluate(Waf, RouteOf(input), Request(input), BodyText(input.body))

\* A request that is not blocked is forwarded; any answer is not-blocked, a
\* failure or a cancelled context is a safety stop.
Possible(input, isLive) ==
    IF ~HasRoute(input) THEN {"unsupported"}
    ELSE IF Unsendable(input) \/ CaseVerdict(input) = "error" THEN {"safety-stop"}
    ELSE IF CaseVerdict(input) = "match" THEN {"blocked"}
    ELSE {"safety-stop"} \union (IF isLive THEN {"not-blocked"} ELSE {})

Record(disposition) ==
    LET case == [input |-> NextInput.id, disposition |-> disposition]
        result == [id |-> Obligations[Current].id, cases |-> Append(CasesOf(Current), case)]
    IN results' = IF Unfinished THEN [results EXCEPT ![Begun] = result]
                  ELSE Append(results, result)

ExecuteCase ==
    /\ phase = "cases" /\ Remaining
    /\ \E disposition \in Possible(NextInput.input, live) : Record(disposition)
    /\ UNCHANGED <<doc, phase, live, outcome>>

CasesDone ==
    /\ phase = "cases" /\ ~Remaining
    /\ phase' = "account"
    /\ UNCHANGED <<doc, live, results, outcome>>

----------------------------------------------------------------------------
(* The accounting and the outcome *)

DispositionsOf(rs) ==
    UNION {{rs[o].cases[k].disposition : k \in DOMAIN rs[o].cases} : o \in DOMAIN rs}

\* A result begins with one case per required input; only cases with a known
\* disposition were counted while they ran.
RequiredWork(sem) ==
    UNION {{<<o, k>> : k \in DOMAIN sem.obligations[o].inputs} : o \in DOMAIN sem.obligations}
CasesIn(rs) == UNION {{<<o, k>> : k \in DOMAIN rs[o].cases} : o \in DOMAIN rs}
Work(rs) ==
    Cardinality({c \in CasesIn(rs) : rs[c[1]].cases[c[2]].disposition \in Dispositions})

Accounting(sem, rs) ==
    [required |-> Len(sem.obligations), accounted |-> Len(rs),
     members |-> Len(sem.members),
     represented |-> Cardinality(Represented(sem)),
     unsupported |-> Cardinality(Unsupported(sem)),
     work |-> Work(rs), disposed |-> Work(rs)]

\* Wrong on purpose: only the totals are compared.
AccountingAddsUp(sem, rs, accounting) ==
    /\ accounting.accounted = accounting.required
    /\ accounting.work = Cardinality(RequiredWork(sem))
    /\ Cardinality(Represented(sem)) + Cardinality(Unsupported(sem)) = accounting.members

\* validateSharedOutcomeAccounting
AccountingHolds(sem, rs, accounting) ==
    /\ \A o \in DOMAIN sem.obligations :
         Cardinality(IdSet(sem.obligations[o].inputs)) = Len(sem.obligations[o].inputs)
    /\ Cardinality(IdsOf(rs)) = Len(rs)
    /\ \A o \in DOMAIN rs :
         LET cases == rs[o].cases IN
         /\ rs[o].id \in IdsOf(sem.obligations)
         /\ Cardinality({cases[k].input : k \in DOMAIN cases}) = Len(cases)
         /\ {cases[k].input : k \in DOMAIN cases}
              = IdSet(Entry(sem.obligations, rs[o].id).inputs)
         /\ \A k \in DOMAIN cases : cases[k].disposition \in Dispositions
    /\ IdsOf(rs) = IdsOf(sem.obligations)
    /\ accounting.required = Cardinality(IdsOf(sem.obligations))
    /\ accounting.accounted = Len(rs)
    /\ accounting.members = Len(sem.members)
    /\ accounting.represented = Cardinality(Represented(sem))
    /\ accounting.unsupported = Cardinality(Unsupported(sem))
    /\ accounting.work = Cardinality(RequiredWork(sem))
    /\ accounting.disposed = Cardinality(CasesIn(rs))
    /\ Represented(sem) \intersect Unsupported(sem) = {}
    /\ accounting.represented + accounting.unsupported = accounting.members

\* Wrong on purpose: one blocked case is enough.
TerminalOptimist(ds) ==
    IF "blocked" \in ds THEN "blocked"
    ELSE IF "not-blocked" \in ds THEN "not-blocked" ELSE "could-not-test"

Terminal(ds) ==
    IF ds \intersect {"safety-stop", "unsupported"} # {} THEN "could-not-test"
    ELSE IF "not-blocked" \in ds THEN "not-blocked" ELSE "blocked"

Account ==
    /\ phase = "account"
    /\ phase' = "end"
    /\ LET ds == DispositionsOf(results) IN
       outcome' = IF AccountingHolds(doc.sem, results, Accounting(doc.sem, results))
                  THEN [state |-> Terminal(ds), match |-> ds \subseteq {"blocked"}]
                  ELSE [state |-> "malfunction", match |-> FALSE]
    /\ UNCHANGED <<doc, live, results>>

\* The environment: the context of the run is cancelled.
Cancel ==
    /\ phase # "end" /\ live
    /\ live' = FALSE
    /\ UNCHANGED <<doc, phase, results, outcome>>

Next ==
    \/ Resolve \/ ResolveFails \/ Prepare \/ Start \/ StartFails
    \/ ExecuteCase \/ CasesDone \/ Account
    \/ Cancel

Spec == Init /\ [][Next]_vars

----------------------------------------------------------------------------
(* Properties *)

Accepted == phase \in {"prepare", "start", "cases", "account"}

\* What a reference reaches in the coverage graph: the least set that has the
\* reference and with each group what the group refers to.
ChildrenOf(sem, ref) ==
    IF ref.kind = "coverage-group" /\ ref.id \in IdsOf(sem.groups)
    THEN LET refs == Entry(sem.groups, ref.id).refs IN {refs[i] : i \in DOMAIN refs}
    ELSE {}
ReachedFrom(sem, ref) ==
    LET known == AllRefs(sem) \union {ref}
        closed == {S \in SUBSET known : ref \in S /\ \A r \in S : ChildrenOf(sem, r) \subseteq S}
    IN {r \in known : \A S \in closed : r \in S}

\* The components it reaches, their inputs and their members.
ComponentsReached(sem, ref) ==
    {Entry(sem.components, r.id) : r \in {r \in ReachedFrom(sem, ref) : r.kind = "component"}}
InputsReached(sem, ref) == UNION {IdSet(c.inputs) : c \in ComponentsReached(sem, ref)}
MembersReached(sem, ref) == UNION {IdSet(c.members) : c \in ComponentsReached(sem, ref)}

\* An input is stopped when it is an HTTP request whose rendered form the
\* control of the bundle matches.
Stopped(input) ==
    /\ HasRoute(input)
    /\ ~Unsendable(input)
    /\ ControlHolds(Waf, RouteOf(input), Request(input), BodyText(input.body))

\* The cases a blocked outcome stands on: when the outcome is blocked, every
\* input that the coverage graph makes an obligation of was executed, and the
\* control of the candidate matches each one as it was sent; no safety stop, no
\* unsupported case and no undecodable text hides behind the verdict
\* (executeSharedContractV2, evaluate, executeSharedCase).
BlockedIsEarned ==
    outcome.state = "blocked" =>
        \A o \in DOMAIN Obligations :
            \A id \in InputsReached(doc.sem, Obligations[o].coverage) :
                /\ \E k \in DOMAIN results[o].cases :
                      results[o].cases[k] = [input |-> id, disposition |-> "blocked"]
                /\ Stopped(Entry(doc.sem.inputs, id).input)

\* What each case says is what the control says: a blocked case is matched by
\* the disjunction of conjunctions that applies to its route, a case that was
\* let through has in every such alternative a rule that could be evaluated and
\* does not match, and an input the control matches is only stopped for safety
\* where some value could not be decoded: a body that cannot be read masks no
\* other alternative (evaluate).
DispositionsAreJust ==
    \A o \in DOMAIN results : \A k \in DOMAIN results[o].cases :
        LET case == results[o].cases[k]
            input == Entry(doc.sem.inputs, case.input).input
        IN /\ case.disposition = "blocked" => Stopped(input)
           /\ case.disposition = "not-blocked" =>
                /\ ~Unsendable(input)
                /\ ControlFails(Waf, RouteOf(input), Request(input), BodyText(input.body))
           /\ case.disposition = "safety-stop" /\ ~Unsendable(input) /\ Stopped(input) =>
                ControlGarbles(Waf, RouteOf(input), Request(input), BodyText(input.body))

\* A route-bound control decides only requests of routes to which the
\* semantics send inputs of each of its components, and it blocks nothing that
\* the same control without routes would let through (prepareSharedWAF,
\* sharedRouteApplies).
RoutesAreAncestral ==
    \A o \in DOMAIN results : \A k \in DOMAIN results[o].cases :
        LET case == results[o].cases[k]
            input == Entry(doc.sem.inputs, case.input).input
            main == ContentOf(doc.bundle, "match-rule")
            deciding == {a \in DOMAIN Waf.alternatives :
                           /\ RouteApplies(Waf.alternatives[a].route, RouteOf(input))
                           /\ AlternativeOutcome(Waf, Waf.alternatives[a], Request(input),
                                                 BodyText(input.body)) = "hit"}
        IN main.placement = "route-bound-v1" /\ case.disposition = "blocked" =>
             /\ \E a \in deciding : \A c \in
                  {Waf.alternatives[a].components[j] : j \in DOMAIN Waf.alternatives[a].components} :
                    InputsAt(c, RouteOf(input), doc.sem) # <<>>
             /\ Evaluate(Unbound(Waf), RouteOf(input), Request(input), BodyText(input.body))
                  # "miss"

\* The required inputs of an accepted obligation are the inputs its reference
\* reaches in the coverage graph, each once, and no group it reaches is reached
\* from itself (validateSharedCompleteness, sharedCoverageRequirements).
RequirementsAreReached ==
    Accepted =>
        \A o \in DOMAIN Obligations :
            LET root == Obligations[o].coverage IN
            /\ Lists(RefIds(Obligations[o].inputs), InputsReached(doc.sem, root))
            /\ \A g \in ReachedFrom(doc.sem, root) : \A child \in ChildrenOf(doc.sem, g) :
                 g \notin ReachedFrom(doc.sem, child)

\* Nothing the source listed is lost or counted twice: in an accepted document
\* each member, artifact and input of the enclosing result is either shown by
\* an embedded input or named by an unsupported dimension, and not both
\* (validateSharedCompleteness).
SourceIsPartitioned ==
    Accepted =>
        LET shown == {doc.sem.inputs[i].id : i \in DOMAIN doc.sem.inputs}
            given == {doc.cg.inputs[i] : i \in DOMAIN doc.cg.inputs}
            hidden == {doc.sem.dimensions[i] : i \in DOMAIN doc.sem.dimensions}
            OnlyOne(x, S, T) == (x \in S) # (x \in T)
        IN /\ \A t \in given : OnlyOne(t.id, shown, UNION {IdSet(d.inputs) : d \in hidden})
           /\ \A a \in IdsOf(doc.cg.artifacts) :
                OnlyOne(a, {t.artifact : t \in {t \in given : t.id \in shown}},
                        UNION {IdSet(d.artifacts) : d \in hidden})
           /\ \A m \in IdsOf(doc.cg.members) :
                OnlyOne(m, UNION {{t.members[i] : i \in DOMAIN t.members} :
                                    t \in {t \in given : t.id \in shown}},
                        UNION {IdSet(d.members) : d \in hidden})

\* An accepted bundle answers the semantics it came with: each obligation has
\* one mapping, whose members are those the coverage graph reaches and whose
\* artifacts are all in the unit that is applied (validateSharedBundle).
BundleAnswersSemantics ==
    Accepted =>
        \A o \in DOMAIN Obligations :
            LET mine == {m \in {doc.bundle.mappings[i] : i \in DOMAIN doc.bundle.mappings} :
                           m.id = Obligations[o].id}
            IN /\ Cardinality(mine) = 1
               /\ \A m \in mine :
                    /\ IdSet(m.members) = MembersReached(doc.sem, Obligations[o].coverage)
                    /\ IdSet(m.artifacts) \subseteq IdSet(doc.bundle.unit)

\* A check that passed as whole left nothing out: neither of what the coverage
\* graph reaches, nor of the source, nor of the candidate (README.md:62-65).
AcceptedIsComplete ==
    RequirementsAreReached /\ SourceIsPartitioned /\ BundleAnswersSemantics

\* Results with a case or an obligation left out, repeated, invented or moved.
Cut(rs, o, n) == [rs EXCEPT ![o].cases = SubSeq(@, 1, n)]
AlteredAt(rs, o) ==
    {SubSeq(rs, 1, o - 1), Append(rs, rs[o]), [rs EXCEPT ![o].id = "invented"],
     Cut(rs, o, Len(rs[o].cases) - 1),
     [rs EXCEPT ![o].cases = Append(@, @[1])],
     [rs EXCEPT ![o].cases[1].input = "invented"],
     [rs EXCEPT ![o].cases[1].disposition = "skipped"]}
Moved(rs, o, p) ==
    [rs EXCEPT ![o].cases = Append(@, rs[p].cases[1]), ![p].cases = Tail(@)]
Altered(rs) ==
    UNION {AlteredAt(rs, o) \union {Moved(rs, o, p) : p \in DOMAIN rs} : o \in DOMAIN rs}

\* Exactly one disposed case of every required pair.
Exact(sem, rs) ==
    /\ Len(rs) = Len(sem.obligations)
    /\ \A o \in DOMAIN sem.obligations : \E r \in DOMAIN rs :
         /\ rs[r].id = sem.obligations[o].id
         /\ SameIds([k \in DOMAIN rs[r].cases |-> rs[r].cases[k].input],
                    RefIds(sem.obligations[o].inputs))
         /\ \A k \in DOMAIN rs[r].cases : rs[r].cases[k].disposition \in Dispositions

\* The accounting catches every outcome that leaves out, repeats, invents or
\* moves a case or an obligation, even where the totals still add up, and
\* accepts the outcome with every required pair.  The checks made before the
\* cases leave it nothing to find: accepted documents never end as a malfunction
\* (executeSharedContractV2, validateSharedOutcomeAccounting).
AccountingIsExact ==
    /\ phase = "account" =>
          \A rs \in {results} \union Altered(results) :
              AccountingHolds(doc.sem, rs, Accounting(doc.sem, rs)) <=> Exact(doc.sem, rs)
    /\ outcome.state # "malfunction"

\* README.md: the path "verifies ... complete ancestry".  The source members that
\* a component of accepted semantics names are members of the source.
AncestryIsComplete ==
    Accepted =>
        \A i \in DOMAIN doc.sem.components :
            IdSet(doc.sem.components[i].members) \subseteq IdsOf(doc.sem.members)
=============================================================================
