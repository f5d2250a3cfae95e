-------------------------- MODULE MCProducerInputs --------------------------
(***************************************************************************)
(* One Defense Generation and one Check Generation result in every form    *)
(* their producers store them, and tables that hold something else.        *)
(***************************************************************************)
EXTENDS ProducerInputs

CONSTANTS r1, r2, r3

----------------------------------------------------------------------------
(* The results and their locators *)

Candidate(r) == [type |-> "modsecurity-rule", rule |-> r, hash |-> r]
DefenseContent == [ident |-> "d", created |-> 1, candidate |-> Candidate(r1)]
Stimulus(key, query) == [key |-> key, query |-> query, body |-> "b"]
Artifact(id, eligible, stimulus) ==
    [id |-> id, eligible |-> eligible, typed |-> TRUE, stimulus |-> stimulus]
Run == [ident |-> "c", artifacts |-> <<Artifact("a1", FALSE, Stimulus("public_submit_php", "")),
                                       Artifact("a2", TRUE, Stimulus("public_submit_php", "q")),
                                       Artifact("a3", TRUE, Stimulus("item", ""))>>]
Core == [ident |-> "c", created |-> 1]
Content(zone) == [core |-> Core, run |-> Run, zone |-> zone]

MCDefenseLocator == [ident |-> "d", created |-> 1, digest |-> DefenseContent]
MCCheckLocator == [ident |-> "c", created |-> 1, digest |-> Content("+00:00")]
MCRooted == [k \in {"public_submit_php", "item"} |-> IF k = "item" THEN "/item" ELSE "/public_submit_php"]
MCRegistered == [k \in {"public_submit_php", "item"} |-> IF k = "item" THEN "/" ELSE "/public/submit.php"]

Stored(run, form) == [wrapper |-> "c", run |-> run, form |-> form]
Inline(stored) == [manifest |-> FALSE, sound |-> TRUE, stored |-> stored]
Manifest(stored) == [manifest |-> TRUE, sound |-> TRUE, stored |-> stored]

DefenseRow == [ident |-> "d", json |-> [content |-> DefenseContent, digest |-> DefenseContent]]
\* digest is over the payload as it was written, with the numbers as written.
CheckRow(payload, written, zone) ==
    [ident |-> "c", payload |-> payload, digest |-> written, created |-> 1,
     completion |-> [core |-> Core, zone |-> zone, digest |-> MCCheckLocator.digest, lineage |-> TRUE]]
TablesOf(defense, check, volume) == [defense |-> defense, check |-> check, volume |-> volume]

MCPublished ==
    {TablesOf(<<DefenseRow>>, <<check>>, Stored(Run, "written")) : check \in
       {CheckRow(Inline(Stored(Run, "written")), Inline(Stored(Run, "written")), "+00:00"),
        CheckRow(Inline(Stored(Run, "normalised")), Inline(Stored(Run, "written")), "Z"),
        CheckRow(Manifest(Stored(Run, "written")), Manifest(Stored(Run, "written")), "Z")}}

----------------------------------------------------------------------------
(* Tables that changed *)

OtherRun == [Run EXCEPT !.artifacts = <<Artifact("a2", TRUE, Stimulus("item", "x"))>>]
Untyped == [Run EXCEPT !.artifacts[1].typed = FALSE]
OtherDefense == [DefenseContent EXCEPT !.candidate = Candidate(r2)]
DefenseRows ==
    {<<>>, <<DefenseRow, DefenseRow>>, <<[DefenseRow EXCEPT !.json = None]>>,
     <<[DefenseRow EXCEPT !.ident = "x"]>>,
     \* another candidate under the old digest, and a consistent other result
     <<[DefenseRow EXCEPT !.json.content = OtherDefense]>>,
     <<[DefenseRow EXCEPT !.json = [content |-> OtherDefense, digest |-> OtherDefense]]>>,
     <<[DefenseRow EXCEPT !.json.content.candidate.type = "firewall-rule"]>>,
     <<[DefenseRow EXCEPT !.json.content.candidate.rule = None]>>}
Checks == {t.check[1] : t \in MCPublished}
CheckRows ==
    {<<>>} \union {<<c, c>> : c \in Checks}
      \union UNION {{<<[c EXCEPT !.payload = None]>>, <<[c EXCEPT !.payload.stored.run = OtherRun]>>,
                     <<[c EXCEPT !.payload.stored.run = OtherRun, !.digest = Inline(Stored(OtherRun, "written"))]>>,
                     <<[c EXCEPT !.payload.stored.run = Untyped]>>,
                     <<[c EXCEPT !.payload.stored.run.artifacts = <<>>]>>,
                     <<[c EXCEPT !.completion.core.created = 2]>>, <<[c EXCEPT !.created = 2]>>,
                     <<[c EXCEPT !.payload.sound = FALSE]>>} : c \in Checks}
MCRewritten ==
    MCPublished
      \union {[t EXCEPT !.defense = rows] : t \in MCPublished, rows \in DefenseRows}
      \union {[t EXCEPT !.check = rows] : t \in MCPublished, rows \in CheckRows}
      \union {[t EXCEPT !.volume = Stored(OtherRun, "written")] : t \in MCPublished}

----------------------------------------------------------------------------
(* Requests *)

ByLocator == [policy |-> "registered", profile |-> "", defense |-> "valid", check |-> "valid",
              correlated |-> TRUE, rule |-> None, test |-> None, entries |-> <<>>, ids |-> FALSE,
              basis |-> "", mode |-> "inmemory"]
Entries == <<[capability |-> "check-generation", sound |-> TRUE],
             [capability |-> "defense-generation", sound |-> TRUE]>>
InlineTest == [path |-> "", query |-> "", body |-> "t", connection |-> "k"]
ByInline == [ByLocator EXCEPT !.policy = "", !.defense = "none", !.check = "none", !.rule = r3,
                              !.test = InlineTest, !.ids = TRUE, !.basis = "a9"]
ByUpstream == [ByInline EXCEPT !.entries = Entries, !.test = None]
MCRequests ==
    {[ByLocator EXCEPT !.basis = b] : b \in {"", "a1", "a3", "a9"}}
    \union {[ByLocator EXCEPT !.check = "none"], [ByLocator EXCEPT !.correlated = FALSE],
            [ByLocator EXCEPT !.rule = r3], [ByLocator EXCEPT !.policy = ""],
            [ByLocator EXCEPT !.policy = "shared", !.profile = "waf-standard@2"],
            [ByLocator EXCEPT !.profile = "waf-standard@2"]}
    \union {ByInline, [ByInline EXCEPT !.defense = "valid"], [ByInline EXCEPT !.policy = "registered"],
            [ByInline EXCEPT !.check = "invalid"]}
    \union {ByUpstream, [ByUpstream EXCEPT !.rule = None], [ByUpstream EXCEPT !.test = InlineTest],
            [ByUpstream EXCEPT !.entries = <<Entries[1]>>], [ByUpstream EXCEPT !.entries = <<Entries[2]>>],
            [ByUpstream EXCEPT !.entries[1].sound = FALSE]}
=============================================================================
