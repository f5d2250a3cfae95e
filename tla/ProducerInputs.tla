--------------------------- MODULE ProducerInputs ---------------------------
(***************************************************************************)
(* Where the rule and the test of a run come from: the checks of a         *)
(* submission (main.go), the choice of the executor (lifecycle.go), and    *)
(* the two executors that read them from the producers' tables, by         *)
(* immutable locators (executor_locator.go) and by upstream references     *)
(* (executor_upstream.go).                                                 *)
(*                                                                         *)
(* The tables may be rewritten between any two reads, and an attempt may   *)
(* be repeated.  The digest of a content is the content itself.  A         *)
(* stimulus is [key, query, body]; Rooted and Registered are what the two  *)
(* executors make of its path key.  A test sent with a request is          *)
(* [path, query, body, connection], of which an HTTP test uses the first   *)
(* three and a firewall test the last.                                     *)
(***************************************************************************)
EXTENDS Integers, Sequences, FiniteSets

CONSTANTS
    Requests,           \* submissions
    DefenseLocator,     \* [ident, digest, created] of the result a request names
    CheckLocator,
    Published,          \* contents of the tables that hold these two results
    Rewritten,          \* contents the tables may come to hold
    Rooted,             \* [path keys -> paths] of stimulusPath
    Registered,         \* [path keys -> paths] of registeredWAFPath
    Timeouts,           \* values of DATABRICKS_TIMEOUT, in seconds
    Latencies,          \* seconds until a statement has succeeded
    UpstreamMode,       \* MC_INPUT_UPSTREAM
    MaxAttempts,
    MaxRewrites,
    None

ASSUME InputAssumption ==
    /\ MaxAttempts \in Nat /\ MaxRewrites \in Nat
    /\ Timeouts \subseteq Nat \ {0} /\ Latencies \subseteq Nat
    /\ UpstreamMode \in BOOLEAN

\* The digests of the two locators are those of results that pass for a result of
\* their producer, ...
ASSUME LocatorAssumption ==
    /\ LET d == DefenseLocator.digest IN
         /\ d.ident = DefenseLocator.ident /\ d.created = DefenseLocator.created
         /\ d.candidate.type = "modsecurity-rule" /\ d.candidate.rule # None
         /\ d.candidate.hash = d.candidate.rule
    /\ LET c == CheckLocator.digest IN
         /\ c.core.ident = CheckLocator.ident /\ c.core.created = CheckLocator.created
         /\ c.run.ident = CheckLocator.ident
         /\ c = [core |-> c.core, run |-> c.run, zone |-> c.zone]

\* ... which Published stores in the forms the producers have for them: a payload
\* inline, in numbers that may have been renormalised since its digest was taken,
\* or in the Volume, and +00:00 for a Z of the timestamp.
ASSUME PublishedAssumption ==
    /\ \A t \in Published :
         /\ Len(t.defense) = 1 /\ Len(t.check) = 1
         /\ LET d == t.defense[1] IN
              /\ d # None /\ d.ident = DefenseLocator.ident
              /\ d.json # None
              /\ d.json.content = DefenseLocator.digest /\ d.json.digest = DefenseLocator.digest
         /\ LET c == t.check[1] IN
              /\ c # None /\ c.payload # None /\ c.payload.stored # None /\ c.completion # None
              /\ c.ident = CheckLocator.ident /\ c.created = CheckLocator.created
              /\ c.payload.manifest \in BOOLEAN
              /\ c.payload.manifest => c.digest = c.payload /\ c.payload.sound
              /\ c.payload.stored.wrapper = CheckLocator.ident
              /\ c.payload.stored.run = CheckLocator.digest.run
              /\ c.completion.core = CheckLocator.digest.core
              /\ \/ c.completion.zone = CheckLocator.digest.zone
                 \/ c.completion.zone = "Z" /\ CheckLocator.digest.zone = "+00:00"
              /\ c.completion.digest = CheckLocator.digest /\ c.completion.lineage
    \* The path of a manifest is that of its digest.
    /\ \A t, u \in Published :
         u.check[1].payload.manifest => t.volume = u.check[1].payload.stored

VARIABLES
    req,
    tables,     \* [defense, check: rows under the key; volume: payload at the path]
    timeout,
    phase,
    attempt,
    rule,       \* candidate of the attempt
    row,        \* Check Generation row of which only the manifest was read
    stimuli,    \* artifacts of the verified run result
    executed,   \* what the attempts executed
    refused,    \* why the last attempt did not
    seen        \* contents the tables have had (history)

vars == <<req, tables, timeout, phase, attempt, rule, row, stimuli, executed, refused, seen>>
inputVars == <<rule, row, stimuli>>
outsideVars == <<req, tables, timeout, attempt, seen>>

----------------------------------------------------------------------------
(* validate, and which executor a request goes to *)

Shared(r) == r.policy = "shared" \/ r.profile # ""

\* Wrong on purpose: only a request with a route policy is one by locator.
LocatorByPolicy(r) == r.policy # ""
Locator(r) == r.defense # "none" \/ r.check # "none" \/ r.policy # ""

\* What both reference-only contracts demand.
ReferenceOnly(r) ==
    /\ r.defense = "valid" /\ r.check = "valid"
    /\ r.correlated
    /\ r.rule = None /\ r.test = None /\ r.entries = <<>>
    /\ ~r.ids
    /\ r.mode \in {"", "inmemory"}

\* normalizeRequestDefaults: the default mode, and, of a test that was sent, what
\* an HTTP test has a place for; the connection of a firewall test is gone.
StoredMode(mode) == IF mode = "" THEN "inmemory" ELSE mode
Normalized(test) ==
    IF test = None THEN None
    ELSE [test EXCEPT !.path = IF @ = "" THEN "/" ELSE @, !.connection = None]

ValidEntries(entries) == \A i \in DOMAIN entries : entries[i].sound

Valid(r) ==
    IF Shared(r) THEN /\ r.policy = "shared"
                      /\ r.profile \in {"waf-standard@1", "waf-standard@2"}
                      /\ ReferenceOnly(r)
                      /\ r.basis = ""
    ELSE IF Locator(r) THEN r.policy = "registered" /\ ReferenceOnly(r)
    ELSE /\ r.ids /\ r.basis # ""
         /\ ValidEntries(r.entries)
         /\ r.mode \in {"", "inmemory", "firewall", "local", "aci", "aci-sp", "github", "github-ghcr"}

Path(r) ==
    IF Shared(r) THEN "shared"
    ELSE IF Locator(r) THEN "locator"
    ELSE IF UpstreamMode /\ r.entries # <<>> THEN "upstream" ELSE "inline"

----------------------------------------------------------------------------
(* The checks of the locator path *)

\* execute: the warehouse waits at most 5 to 50 seconds, the client timeout
\* seconds, and only a statement that has succeeded by then has rows.
Wait(t) == IF t < 5 THEN 5 ELSE IF t > 50 THEN 50 ELSE t
InTime(latency) == latency < timeout /\ latency <= Wait(timeout)

\* The one row of a locator, or None.
OnlyRow(rows) == IF Len(rows) = 1 THEN rows[1] ELSE None

\* Wrong on purpose: the document's own digest is believed.
VerifiedDefenseTrusting(d) ==
    /\ d # None
    /\ d.ident = DefenseLocator.ident
    /\ d.json # None
    /\ d.json.content.ident = DefenseLocator.ident
    /\ d.json.digest = DefenseLocator.digest
    /\ d.json.content.candidate.type = "modsecurity-rule"
    /\ d.json.content.candidate.hash = d.json.content.candidate.rule

\* verifyDefenseRow: the row, then the document it holds, whose unsigned form
\* has the digest that it and the locator give, then its candidate.
VerifiedDefense(d) ==
    /\ d # None
    /\ d.ident = DefenseLocator.ident
    /\ d.json # None
    /\ d.json.content.ident = DefenseLocator.ident
    /\ d.json.content.created = DefenseLocator.created
    /\ d.json.digest = d.json.content
    /\ d.json.digest = DefenseLocator.digest
    /\ d.json.content.candidate.type = "modsecurity-rule"
    /\ d.json.content.candidate.rule # None
    /\ d.json.content.candidate.hash = d.json.content.candidate.rule

\* verifyCheckRow up to the payload.  The number forms of an inline payload may
\* differ from those its digest was taken over, a manifest may not differ.
ReadableCheck(c) ==
    /\ c # None
    /\ c.ident = CheckLocator.ident
    /\ c.payload # None
    /\ c.payload.manifest => c.digest = c.payload /\ c.payload.sound

\* Wrong on purpose: the timestamp is taken only as it stands.
LogicalLiteral(completion, run) ==
    {[core |-> completion.core, run |-> run, zone |-> completion.zone]}

\* The timestamp is taken as it stands, and with +00:00 for its Z.
Logical(completion, run) ==
    {[core |-> completion.core, run |-> run, zone |-> z] :
       z \in {completion.zone} \union (IF completion.zone = "Z" THEN {"+00:00"} ELSE {})}

\* verifyCheckRow from the payload on; numbers are equal in the canonical form.
VerifiedCheck(c, stored) ==
    /\ stored # None
    /\ stored.wrapper = CheckLocator.ident
    /\ c.completion # None
    /\ c.completion.core.ident = CheckLocator.ident
    /\ c.completion.digest = CheckLocator.digest
    /\ c.completion.lineage
    /\ stored.run.ident = CheckLocator.ident
    /\ CheckLocator.digest \in Logical(c.completion, stored.run)
    /\ c.completion.core.created = CheckLocator.created
    /\ c.created = CheckLocator.created

----------------------------------------------------------------------------
(* From a stimulus to a request *)

Eligible(artifacts, basis) ==
    {i \in DOMAIN artifacts : (basis = "" \/ artifacts[i].id = basis) /\ artifacts[i].eligible}
First(S) == CHOOSE i \in S : \A j \in S : i <= j

\* selectRegisteredHTTPTestBasis sets the path anew.
HydratedRequest(stimulus) ==
    [path |-> Registered[stimulus.key], query |-> "", body |-> stimulus.body]
\* TestBasisFromStimulus
StimulusRequest(stimulus) ==
    [path |-> Rooted[stimulus.key], query |-> stimulus.query, body |-> stimulus.body]

----------------------------------------------------------------------------
Init ==
    /\ req \in Requests
    /\ tables \in Published
    /\ timeout \in Timeouts
    /\ phase = "submit"
    /\ attempt = 0
    /\ rule = None /\ row = None /\ stimuli = None
    /\ executed = {}
    /\ refused = "none"
    /\ seen = {tables}

Submit ==
    /\ phase = "submit"
    /\ phase' = IF Valid(req) THEN "queued" ELSE "rejected"
    /\ UNCHANGED <<outsideVars, inputVars, executed, refused>>

Claim ==
    /\ phase = "queued" /\ attempt < MaxAttempts
    /\ attempt' = attempt + 1
    /\ phase' = Path(req)
    /\ rule' = None /\ row' = None /\ stimuli' = None
    /\ refused' = "none"
    /\ UNCHANGED <<req, tables, timeout, executed, seen>>

\* couldNotTest
Refuse(why) ==
    /\ phase' = "end"
    /\ refused' = why
    /\ UNCHANGED <<outsideVars, inputVars, executed>>

Execute(r, request, stimulus, mode) ==
    /\ phase' = "end"
    /\ executed' = executed \union {[path |-> Path(req), rule |-> r, request |-> request,
                                     stimulus |-> stimulus, mode |-> mode]}
    /\ UNCHANGED <<outsideVars, inputVars, refused>>

ExecuteInline ==
    /\ phase = "inline"
    /\ Execute(req.rule, Normalized(req.test), None, StoredMode(req.mode))

\* executeSharedContractV2, which SharedExecution models.
ExecuteShared ==
    /\ phase = "shared"
    /\ phase' = "end"
    /\ UNCHANGED <<outsideVars, inputVars, executed, refused>>

----------------------------------------------------------------------------
(* executeScenarioByLocator *)

ReadDefense ==
    /\ phase = "locator"
    /\ \E latency \in Latencies :
         LET d == OnlyRow(tables.defense) IN
         IF ~InTime(latency) THEN Refuse("source")
         ELSE IF ~VerifiedDefense(d) THEN Refuse("verification")
         ELSE /\ phase' = "check"
              /\ rule' = d.json.content.candidate.rule
              /\ UNCHANGED <<outsideVars, row, stimuli, executed, refused>>

\* verifyCheckRow once the payload is in hand.
Verify(c, stored) ==
    IF VerifiedCheck(c, stored)
    THEN /\ phase' = "select"
         /\ stimuli' = stored.run.artifacts
         /\ UNCHANGED <<outsideVars, rule, row, executed, refused>>
    ELSE Refuse("verification")

ReadCheck ==
    /\ phase = "check"
    /\ \E latency \in Latencies :
         LET c == OnlyRow(tables.check) IN
         IF ~InTime(latency) THEN Refuse("source")
         ELSE IF ~ReadableCheck(c) THEN Refuse("verification")
         ELSE IF c.payload.manifest
         THEN /\ phase' = "volume"
              /\ row' = c
              /\ UNCHANGED <<outsideVars, rule, stimuli, executed, refused>>
         ELSE Verify(c, c.payload.stored)

\* The payload is read by its digest and compared with it.
ReadVolume ==
    /\ phase = "volume"
    /\ IF tables.volume = row.payload.stored
       THEN Verify(row, tables.volume)
       ELSE Refuse("verification")

\* An artifact that does not decode fails them all.
SelectBasis ==
    /\ phase = "select"
    /\ LET eligible == Eligible(stimuli, req.basis) IN
       IF (\A i \in DOMAIN stimuli : stimuli[i].typed) /\ eligible # {}
       THEN LET stimulus == stimuli[First(eligible)].stimulus
            IN Execute(rule, HydratedRequest(stimulus), stimulus, "inmemory")
       ELSE Refuse("selection")

----------------------------------------------------------------------------
(* executeScenarioUpstream *)

\* selectByCapability: the first entry of a capability with a key, 0 if none.
EntryOf(capability) ==
    LET mine == {i \in DOMAIN req.entries : req.entries[i].capability = capability}
    IN IF mine = {} THEN 0 ELSE First(mine)

ModeOf(candidate) == IF candidate.type = "firewall-rule" THEN "firewall" ELSE StoredMode(req.mode)

\* Wrong on purpose: a rule that cannot be read leaves the inline one.
ReadRuleOrInline ==
    /\ phase = "upstream"
    /\ phase' = "test"
    /\ LET rows == tables.defense IN
       rule' = IF EntryOf("defense-generation") # 0 /\ rows # <<>> /\ rows[1].json # None
               THEN rows[1].json.content.candidate
               ELSE [type |-> "modsecurity-rule", rule |-> req.rule, hash |-> None]
    /\ UNCHANGED <<outsideVars, row, stimuli, executed, refused>>

\* ReadCandidate takes any one row of the key, as it is.
ReadRule ==
    /\ phase = "upstream"
    /\ IF EntryOf("defense-generation") = 0 \/ tables.defense = <<>>
       THEN Refuse("source")
       ELSE \E i \in DOMAIN tables.defense :
              LET json == tables.defense[i].json IN
              IF json = None \/ json.content.candidate.rule = None
              THEN Refuse("source")
              ELSE /\ phase' = "test"
                   /\ rule' = json.content.candidate
                   /\ UNCHANGED <<outsideVars, row, stimuli, executed, refused>>

\* An inline test wins; without an entry the executor finds no test.  A manifest
\* has no run_result, and of a run result only the first artifact counts.
ReadTest ==
    /\ phase = "test"
    /\ IF req.test # None THEN Execute(rule.rule, Normalized(req.test), None, ModeOf(rule))
       ELSE IF EntryOf("check-generation") = 0 \/ tables.check = <<>>
       THEN Refuse("source")
       ELSE \E i \in DOMAIN tables.check :
              LET payload == tables.check[i].payload IN
              IF payload = None \/ payload.manifest \/ payload.stored.run.artifacts = <<>>
              THEN Refuse("source")
              ELSE LET artifact == payload.stored.run.artifacts[1] IN
                   IF ~artifact.typed THEN Refuse("source")
                   ELSE Execute(rule.rule, StimulusRequest(artifact.stimulus),
                                artifact.stimulus, ModeOf(rule))

----------------------------------------------------------------------------
(* The environment *)

\* A read fails, or the context of the run is cancelled.
SourceFails ==
    /\ phase \in {"locator", "check", "volume", "upstream", "test"}
    /\ Refuse("source")

\* The run is leased again: its worker crashed, lost the lease or could not publish.
Release ==
    /\ phase \in {"locator", "check", "volume", "select", "upstream", "test", "end"}
    /\ attempt < MaxAttempts
    /\ phase' = "queued"
    /\ UNCHANGED <<outsideVars, inputVars, executed, refused>>

\* A producer, or someone else, writes the tables.
Rewrite ==
    /\ phase \notin {"submit", "rejected"}
    /\ Cardinality(seen) <= MaxRewrites
    /\ tables' \in Rewritten \ seen
    /\ seen' = seen \union {tables'}
    /\ UNCHANGED <<req, timeout, phase, attempt, inputVars, executed, refused>>

Next ==
    \/ Submit \/ Claim \/ ExecuteInline \/ ExecuteShared
    \/ ReadDefense \/ ReadCheck \/ ReadVolume \/ SelectBasis
    \/ ReadRule \/ ReadTest
    \/ SourceFails \/ Release \/ Rewrite

Spec == Init /\ [][Next]_vars
----------------------------------------------------------------------------
(* Properties *)

NamedRule == DefenseLocator.digest.candidate.rule
NamedArtifacts == CheckLocator.digest.run.artifacts

\* Whatever the tables hold at the moments they are read, and however often the
\* run is executed, what is executed by locators is the candidate and the first
\* eligible artifact of the two contents that the locators digest: no mixture of
\* old and new rows, no second result on a retry (verifyDefenseRow,
\* verifyCheckRow, selectRegisteredHTTPTestBasis).
HydratedIsNamed ==
    \A e \in executed : e.path = "locator" =>
        /\ e.rule = NamedRule
        /\ e.stimulus = NamedArtifacts[First(Eligible(NamedArtifacts, req.basis))].stimulus
        /\ e.request = HydratedRequest(e.stimulus)

\* A run whose results are stored in any of the forms the producers use, inline
\* with renormalised numbers, in the Volume, with either time zone suffix, is
\* never refused as corrupt (verifyCheckRow).
SoundIsNotRefused == seen \subseteq Published => refused # "verification"

\* A request that names a producer result by locator or asks for a route policy
\* never has a rule or a test of its own executed, and one that carries
\* upstream references is never executed on what it carries alone (validate,
\* executeRequestedScenario, executeScenarioByLocator).
NothingInlineRuns ==
    \A e \in executed :
        /\ req.defense # "none" \/ req.check # "none" \/ req.policy # "" \/ req.profile # "" =>
             e.path = "locator" /\ req.rule = None /\ req.test = None
        /\ UpstreamMode /\ req.entries # <<>> => e.path # "inline"

\* README.md: "A read/parse failure yields could-not-test (never a fabricated
\* verdict)".  The rule and the test of an upstream verdict were each in the
\* table of their capability, or the test is what was stored of one that came
\* with the request, which is not all of it (executeScenarioUpstream,
\* normalizeRequestDefaults).
VerdictsStandOnReads ==
    \A e \in executed : e.path = "upstream" =>
        /\ \E t \in seen : \E i \in DOMAIN t.defense :
             t.defense[i].json # None /\ t.defense[i].json.content.candidate.rule = e.rule
        /\ IF req.test # None THEN e.request = Normalized(req.test)
           ELSE \E t \in seen : \E i \in DOMAIN t.check :
                  /\ t.check[i].payload # None
                  /\ t.check[i].payload.stored.run.artifacts # <<>>
                  /\ e.request = StimulusRequest(t.check[i].payload.stored.run.artifacts[1].stimulus)
=============================================================================
