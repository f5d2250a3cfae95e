------------------------- MODULE MCSharedDocuments -------------------------
(***************************************************************************)
(* Documents for the checks: every coverage graph of two groups over two   *)
(* components, cyclic ones included, each document also altered in one     *)
(* place the way an inconsistent producer would.                           *)
(***************************************************************************)
EXTENDS MCShared

HeaderRules == <<Rule("r1", "c1", "header", "h", {"atk"}, <<>>)>>
SimpleMain == Main("", <<>>, <<>>, HeaderRules)

Nodes == {Ref("coverage-group", "g1"), Ref("coverage-group", "g2"),
          Ref("component", "c1"), Ref("component", "c2")}
RefLists == {<<n>> : n \in Nodes} \union {<<a, b>> : a, b \in Nodes}
Graphs2 == {<<a, b>> : a \in RefLists, b \in RefLists}

Sound(graphs, roots, claims) ==
    DocumentsOver({Semantics(<<Plain, Template>>, g[1], g[2], <<root, Ref("component", "c2")>>, claimed) :
                     g \in graphs, root \in roots, claimed \in claims}, {SimpleMain})

\* A group within a group, reached twice.
Straight == Sound({<<<<Ref("component", "c1"), Ref("component", "c2")>>,
                     <<Ref("coverage-group", "g1"), Ref("coverage-group", "g1")>>>>},
                  {Ref("coverage-group", "g2")}, {<<"m1">>})

\* One alteration of a sound document.  Each producer's digests are over what
\* it wrote, so they hold.
Dropped(s, i) == SubSeq(s, 1, i - 1) \o SubSeq(s, i + 1, Len(s))
AlteredOnce(d) ==
    UNION {
      {[d EXCEPT !.sem.inputs = Dropped(@, i)] : i \in 1..2},
      {[d EXCEPT !.sem.inputs = Append(@, @[1])]},
      {[d EXCEPT !.sem.inputs[i].members = Refs("source-member", <<m>>)] : i \in 1..2, m \in {"m2", "m3"}},
      {[d EXCEPT !.sem.inputs[i].artifact.id = a] : i \in 1..2, a \in {"a1", "a3"}},
      {[d EXCEPT !.sem.members = Dropped(@, i)] : i \in 1..3},
      {[d EXCEPT !.sem.members[i].state = "verified"] : i \in {3}},
      {[d EXCEPT !.sem.members[1].artifacts = <<>>]},
      {[d EXCEPT !.sem.artifacts = Dropped(@, i)] : i \in 1..3},
      {[d EXCEPT !.sem.obligations = Dropped(@, 2)], [d EXCEPT !.sem.obligations = Append(@, @[1])]},
      {[d EXCEPT !.sem.obligations[1].inputs = Dropped(@, 1)],
       [d EXCEPT !.sem.obligations[1].inputs = Append(@, @[1])],
       [d EXCEPT !.sem.obligations[1].inputs = Append(@, Ref("test-input", "t3"))]},
      {[d EXCEPT !.sem.obligations[1].coverage = r] :
         r \in Nodes \union {Ref("component", "c9"), Ref("foreign", "g1")}},
      {[d EXCEPT !.sem.groups[1].members = Dropped(@, 1)]},
      {[d EXCEPT !.sem.components = Append(@, @[1])], [d EXCEPT !.sem.components = Dropped(@, 1)]},
      {[d EXCEPT !.sem.dimensions = <<>>]},
      {[d EXCEPT !.sem.dimensions[1].members = Refs("source-member", s)] :
         s \in {<<"m2">>, <<"m1", "m3">>, <<"m9">>}},
      {[d EXCEPT !.sem.dimensions[1].artifacts = Refs("source-artifact", s)] :
         s \in {<<>>, <<"a2">>, <<"a2", "a3">>}},
      {[d EXCEPT !.sem.dimensions[1].inputs = Refs("test-input", s)] :
         s \in {<<>>, <<"t2">>, <<"t2", "t3">>}},
      {[d EXCEPT !.cg.artifacts[3].refers = "here"], [d EXCEPT !.cg.artifacts[1].refers = "elsewhere"],
       [d EXCEPT !.cg.artifacts[2].refers = "nowhere"]},
      {[d EXCEPT !.cg.inputs = Dropped(@, i)] : i \in 1..3},
      {[d EXCEPT !.bundle.mappings = Dropped(@, 1)], [d EXCEPT !.bundle.mappings = Append(@, @[1])],
       [d EXCEPT !.bundle.mappings[1].members = Dropped(@, 1)],
       [d EXCEPT !.bundle.mappings[1].artifacts = Refs("artifact", <<"extra">>)]},
      {[d EXCEPT !.bundle.unit = Dropped(@, 1)],
       [d EXCEPT !.bundle.artifacts[1].depends = Refs("artifact", <<"carriers">>)],
       [d EXCEPT !.bundle.groups[1].artifacts = Dropped(@, 1)],
       [d EXCEPT !.bundle.provenance[1].order = 1]},
      {[d EXCEPT !.rows = n] : n \in {0, 2}}}

DocumentCases ==
    Sound(Graphs2, Nodes, {<<"m1">>, <<"m1", "m9">>})
      \union UNION {AlteredOnce(d) : d \in Straight}
=============================================================================
