------------------------------ MODULE MCShared ------------------------------
(***************************************************************************)
(* Instances of SharedExecution: documents for the checks (semantics and   *)
(* bundle built from a coverage graph, then altered in one place) and      *)
(* documents for the control (one graph, many rule sets and requests).     *)
(***************************************************************************)
EXTENDS SharedExecution, SequencesExt

----------------------------------------------------------------------------
(* Texts and profiles *)

MCTexts == {"", "atk", "enc", "bad", "json", "GET", "/x"}
MCTransforms == {"urlDecode"}
MCDecode == [t \in MCTransforms |-> [x \in MCTexts |->
    CASE x = "enc" -> "atk" [] x = "bad" -> Undecodable [] OTHER -> x]]
MCSelect == [x \in MCTexts |-> [n \in {"/p", "/p/q", "/other"} |->
    CASE x # "json" -> "malformed"
      [] n = "/p" -> "atk"
      [] n = "/p/q" -> "scalar"
      [] OTHER -> "member absent"]]
MCFoldName == [n \in {"", "h", "H", "/p", "/p/q", "/other"} |-> IF n = "H" THEN "h" ELSE n]
MCProfiles == [p \in {"waf-standard@2"} |-> [k \in {"k1"} |-> [site |-> "s", path |-> "/x"]]]

----------------------------------------------------------------------------
(* The builder *)

Ref(kind, id) == [kind |-> kind, id |-> id]
Refs(kind, ids) == [i \in DOMAIN ids |-> Ref(kind, ids[i])]
Listed(kind, S) == Refs(kind, SetToSeq(S))
FieldsOf(h) == [query |-> <<>>, cookie |-> <<>>, header |-> h]
AbsentBody == [state |-> "absent", sound |-> TRUE, text |-> ""]
BodyOf(state, text) == [state |-> state, sound |-> TRUE, text |-> text]

Plain == [modality |-> "http-request", typed |-> TRUE, method |-> "GET", key |-> "",
          site |-> "s", path |-> "/x", fields |-> FieldsOf(<<[name |-> "H", value |-> "atk"]>>),
          body |-> AbsentBody]
Template == [Plain EXCEPT !.modality = "http-request-template", !.key = "k1",
                          !.site = "", !.path = ""]

\* An embedded semantics over two inputs; the source has a third one, its member
\* and its artifact, that are unsupported.  refs1 and refs2 are the members of the
\* two coverage groups, roots the coverage references of the obligations.
Semantics(inputs, refs1, refs2, roots, claimed) ==
    LET components == <<[id |-> "c1", inputs |-> <<Ref("test-input", "t1")>>,
                         members |-> Refs("source-member", claimed)],
                        [id |-> "c2", inputs |-> <<Ref("test-input", "t1"), Ref("test-input", "t2")>>,
                         members |-> Refs("source-member", <<"m1", "m2">>)]>>
        bare == <<[id |-> "g1", refs |-> refs1, members |-> <<>>],
                  [id |-> "g2", refs |-> refs2, members |-> <<>>]>>
        sketch == [components |-> components, groups |-> bare]
        \* The schema wants an input even where a cycle reaches none.
        Required(root) == IF InputsReached(sketch, root) = {} THEN {"t1"}
                          ELSE InputsReached(sketch, root)
    IN [identity |-> TRUE, digests |-> TRUE, memberCount |-> 3, artifactCount |-> 3,
        members |-> <<[id |-> "m1", state |-> "verified", artifacts |-> Refs("source-artifact", <<"a1">>)],
                      [id |-> "m2", state |-> "verified", artifacts |-> Refs("source-artifact", <<"a2">>)],
                      [id |-> "m3", state |-> "no-checkable-signal", artifacts |-> <<>>]>>,
        artifacts |-> [i \in 1..3 |->
                         [id |-> <<"a1", "a2", "a3">>[i], content |-> TRUE,
                          members |-> Refs("source-member", <<<<"m1", "m2", "m3">>[i]>>)]],
        inputs |-> [i \in 1..2 |->
                      [id |-> <<"t1", "t2">>[i], input |-> inputs[i],
                       artifact |-> Ref("source-artifact", <<"a1", "a2">>[i]),
                       members |-> Refs("source-member", <<<<"m1", "m2">>[i]>>)]],
        components |-> components,
        groups |-> [k \in 1..2 |-> [bare[k] EXCEPT !.members =
                                      Listed("source-member",
                                         MembersReached(sketch, Ref("coverage-group", bare[k].id)))]],
        obligations |-> [k \in DOMAIN roots |->
                           [id |-> <<"o1", "o2">>[k], required |-> TRUE, coverage |-> roots[k],
                            inputs |-> Listed("test-input", Required(roots[k]))]],
        dimensions |-> <<[named |-> TRUE, members |-> Refs("source-member", <<"m3">>),
                          artifacts |-> Refs("source-artifact", <<"a3">>),
                          inputs |-> Refs("test-input", <<"t3">>)]>>]

CheckResult(sem) ==
    [identity |-> TRUE, digests |-> TRUE,
     members |-> [i \in 1..3 |->
                    [id |-> sem.members[i].id,
                     state |-> <<"verified", "verified", "no-checkable-artifact">>[i],
                     artifacts |-> RefIds(sem.members[i].artifacts)]],
     artifacts |-> [i \in 1..3 |->
                      [id |-> sem.artifacts[i].id, members |-> RefIds(sem.artifacts[i].members),
                       refers |-> <<"here", "here", "nowhere">>[i],
                       components |-> IdsOf(sem.components), obligations |-> IdsOf(sem.obligations)]],
     inputs |-> [i \in 1..3 |-> [id |-> <<"t1", "t2", "t3">>[i],
                                 artifact |-> <<"a1", "a2", "a3">>[i],
                                 members |-> <<<<"m1", "m2", "m3">>[i]>>]]]

Bundle(sem, main, table) ==
    LET units == Refs("artifact", <<"main", "carriers">>) IN
    [identity |-> TRUE, digests |-> TRUE, bound |-> TRUE, policy |-> TRUE,
     artifacts |-> [i \in 1..2 |->
                      [id |-> <<"main", "carriers">>[i], order |-> i - 1, located |-> TRUE,
                       kind |-> <<"match-rule", "configuration-fragment">>[i],
                       group |-> Ref("atomic-group", "ag"),
                       depends |-> IF i = 1 THEN <<>> ELSE Refs("artifact", <<"main">>)]],
     contents |-> ("main" :> main) @@ ("carriers" :> table),
     unit |-> units,
     groups |-> <<[id |-> "ag", policy |-> TRUE, artifacts |-> units]>>,
     directives |-> <<[id |-> "d1", artifact |-> Ref("artifact", "main")]>>,
     mappings |-> [k \in DOMAIN sem.obligations |->
                     LET o == sem.obligations[k] IN
                     [id |-> o.id, exact |-> TRUE, coverage |-> <<o.coverage>>,
                      members |-> Listed("source-member", MembersReached(sem, o.coverage)),
                      artifacts |-> units, directives |-> Refs("directive", <<"d1">>)]],
     provenance |-> <<[order |-> 0, digest |-> TRUE]>>]

Rule(id, component, carrier, name, pattern, transforms) ==
    [id |-> id, component |-> component, carrier |-> carrier, name |-> name,
     pattern |-> pattern, transforms |-> transforms, compiles |-> TRUE]
Main(placement, coverage, routes, rules) ==
    [ruleset |-> "rs", action |-> "block", placement |-> placement, coverage |-> coverage,
     routes |-> routes, rules |-> rules]
Table(rules) ==
    [ruleset |-> "rs", bindings |-> [i \in DOMAIN rules |->
       [component |-> rules[i].component, carrier |-> rules[i].carrier, name |-> rules[i].name]]]

DocumentsOver(sems, mains) ==
    {[cg |-> CheckResult(sem), sem |-> sem, bundle |-> Bundle(sem, main, Table(main.rules)),
      profile |-> "waf-standard@2", rows |-> 1] : sem \in sems, main \in mains}
=============================================================================
