--------------------------- MODULE ProducerProofs ---------------------------
(***************************************************************************)
(* Theorems about ProducerInputs, for any requests, any locators, any      *)
(* contents of the tables and any rewrites between the reads.              *)
(***************************************************************************)
EXTENDS ProducerInputs, TLAPS

----------------------------------------------------------------------------
(* The inductive invariant *)

\* The step of an attempt belongs to the executor its request goes to.
PathFits ==
    /\ phase \in {"locator", "check", "volume", "select"} => Path(req) = "locator"
    /\ phase \in {"upstream", "test"} => Path(req) = "upstream"
    /\ phase = "inline" => Path(req) = "inline"
    /\ phase \notin {"submit", "rejected"} => Valid(req)

\* What a locator attempt holds is what the locators name.
HoldsNamed ==
    /\ phase \in {"check", "volume", "select"} => rule = NamedRule
    /\ phase = "select" => stimuli = NamedArtifacts

WasDefense(text) ==
    \E t \in seen : \E i \in DOMAIN t.defense :
        t.defense[i].json # None /\ t.defense[i].json.content.candidate.rule = text

WasCheck(request) ==
    \E t \in seen : \E i \in DOMAIN t.check :
        /\ t.check[i].payload # None
        /\ t.check[i].payload.stored.run.artifacts # <<>>
        /\ request = StimulusRequest(t.check[i].payload.stored.run.artifacts[1].stimulus)

\* What an upstream attempt holds was in the tables.
HoldsRead ==
    /\ tables \in seen
    /\ phase = "test" => WasDefense(rule.rule)

Justified(e) ==
    /\ Valid(req)
    /\ e.path = Path(req) /\ e.path # "shared"
    /\ e.path = "locator" =>
         /\ e.rule = NamedRule
         /\ e.stimulus = NamedArtifacts[First(Eligible(NamedArtifacts, req.basis))].stimulus
         /\ e.request = HydratedRequest(e.stimulus)
    /\ e.path = "upstream" =>
         /\ WasDefense(e.rule)
         /\ IF req.test # None THEN e.request = Normalized(req.test) ELSE WasCheck(e.request)

ProducerInv == PathFits /\ HoldsNamed /\ HoldsRead /\ \A e \in executed : Justified(e)

----------------------------------------------------------------------------
(* What the checks establish *)

\* A verified row holds the candidate of the content its locator digests.
LEMMA DefenseIsNamed ==
    ASSUME NEW d, VerifiedDefense(d)
    PROVE  d.json.content.candidate.rule = NamedRule
BY DEF VerifiedDefense, NamedRule

\* A verified payload holds the run result of the content its locator digests.
LEMMA CheckIsNamed ==
    ASSUME NEW c, NEW stored, VerifiedCheck(c, stored)
    PROVE  stored.run.artifacts = NamedArtifacts
<1>1. CheckLocator.digest \in Logical(c.completion, stored.run)
    BY DEF VerifiedCheck
<1>2. CheckLocator.digest.run = stored.run
    BY <1>1 DEF Logical
<1> QED
    BY <1>2 DEF NamedArtifacts

LEMMA PathKnown == Path(req) \in {"shared", "locator", "upstream", "inline"}
BY DEF Path

----------------------------------------------------------------------------
(* The steps *)

\* Nothing an attempt has executed loses its reasons when tables are rewritten.
LEMMA JustifiedStays ==
    ASSUME NEW e, Justified(e), req' = req, seen \subseteq seen'
    PROVE  Justified(e)'
BY DEF Justified, WasDefense, WasCheck

LEMMA InitProducerInv == Init => ProducerInv
BY DEF Init, ProducerInv, PathFits, HoldsNamed, HoldsRead

\* A step to a phase in which the attempt holds nothing.
LEMMA IdleStep ==
    ASSUME ProducerInv, UNCHANGED <<req, tables, seen, executed>>,
           phase' \in {"queued", "end"}, phase \notin {"submit", "rejected"}
    PROVE  ProducerInv'
<1>1. PathFits' /\ HoldsNamed' /\ HoldsRead'
    BY DEF ProducerInv, PathFits, HoldsNamed, HoldsRead, Valid, Shared, Locator, ReferenceOnly, ValidEntries
<1>2. \A e \in executed' : Justified(e)'
    BY JustifiedStays DEF ProducerInv
<1> QED
    BY <1>1, <1>2 DEF ProducerInv

LEMMA RefuseStep ==
    ASSUME ProducerInv, NEW why, Refuse(why), phase \notin {"submit", "rejected"}
    PROVE  ProducerInv'
BY IdleStep DEF Refuse, outsideVars

\* An execution with its reasons.
LEMMA ExecuteStep ==
    ASSUME ProducerInv, NEW r, NEW request, NEW stimulus, NEW mode,
           Execute(r, request, stimulus, mode), phase \notin {"submit", "rejected"},
           Justified([path |-> Path(req), rule |-> r, request |-> request,
                      stimulus |-> stimulus, mode |-> mode])
    PROVE  ProducerInv'
<1>1. UNCHANGED <<req, tables, seen>> /\ phase' = "end"
    BY DEF Execute, outsideVars
<1>2. PathFits' /\ HoldsNamed' /\ HoldsRead'
    BY <1>1 DEF ProducerInv, PathFits, HoldsNamed, HoldsRead, Valid, Shared, Locator, ReferenceOnly, ValidEntries
<1>3. \A e \in executed' : Justified(e)
    BY DEF Execute, ProducerInv
<1>4. \A e \in executed' : Justified(e)'
    BY <1>1, <1>3, JustifiedStays
<1> QED
    BY <1>2, <1>4 DEF ProducerInv

\* A step from one phase of an attempt to another.
LEMMA MoveStep ==
    ASSUME ProducerInv, UNCHANGED <<req, tables, seen, executed>>,
           PathFits', HoldsNamed', phase' = "test" => WasDefense(rule'.rule)
    PROVE  ProducerInv'
<1>1. HoldsRead'
    BY DEF ProducerInv, HoldsRead, WasDefense
<1>2. \A e \in executed' : Justified(e)'
    BY JustifiedStays DEF ProducerInv
<1> QED
    BY <1>1, <1>2 DEF ProducerInv

LEMMA ValidStays ==
    ASSUME req' = req PROVE (Valid(req) <=> Valid(req)') /\ Path(req)' = Path(req)
OBVIOUS

LEMMA VerifyStep ==
    ASSUME ProducerInv, NEW c, NEW stored, Verify(c, stored),
           phase \in {"check", "volume"}
    PROVE  ProducerInv'
<1>1. CASE VerifiedCheck(c, stored)
  <2>1. /\ UNCHANGED <<req, tables, seen, executed, rule>> /\ phase' = "select"
        /\ stimuli' = NamedArtifacts
      BY <1>1, CheckIsNamed DEF Verify, outsideVars
  <2>2. PathFits' /\ HoldsNamed'
      BY <2>1, ValidStays DEF ProducerInv, PathFits, HoldsNamed
  <2> QED
      BY <2>1, <2>2, MoveStep
<1>2. CASE ~VerifiedCheck(c, stored)
    BY <1>2, RefuseStep DEF Verify
<1> QED
    BY <1>1, <1>2

LEMMA NextProducerInv ==
    ASSUME ProducerInv, [Next]_vars PROVE ProducerInv'
<1>1. ASSUME Submit PROVE ProducerInv'
  <2>1. UNCHANGED <<req, tables, seen, executed>> /\ phase' = IF Valid(req) THEN "queued" ELSE "rejected"
      BY <1>1 DEF Submit, outsideVars
  <2>2. PathFits' /\ HoldsNamed' /\ phase' # "test"
      BY <2>1, ValidStays DEF PathFits, HoldsNamed
  <2> QED
      BY <2>1, <2>2, MoveStep
<1>2. ASSUME Claim PROVE ProducerInv'
  <2>1. UNCHANGED <<req, tables, seen, executed>> /\ phase = "queued" /\ phase' = Path(req)
      BY <1>2 DEF Claim
  <2>2. PathFits' /\ HoldsNamed' /\ phase' # "test"
      BY <2>1, ValidStays, PathKnown DEF ProducerInv, PathFits, HoldsNamed
  <2> QED
      BY <2>1, <2>2, MoveStep
<1>3. ASSUME ExecuteInline PROVE ProducerInv'
  <2>1. Path(req) = "inline" /\ Valid(req) /\ phase = "inline"
      BY <1>3 DEF ExecuteInline, ProducerInv, PathFits
  <2>2. Justified([path |-> Path(req), rule |-> req.rule, request |-> Normalized(req.test),
                   stimulus |-> None, mode |-> StoredMode(req.mode)])
      BY <2>1 DEF Justified
  <2> QED
      BY <1>3, <2>1, <2>2, ExecuteStep DEF ExecuteInline
<1>4. ASSUME ExecuteShared PROVE ProducerInv'
    BY <1>4, IdleStep DEF ExecuteShared, outsideVars
<1>5. ASSUME ReadDefense PROVE ProducerInv'
  <2> DEFINE d == OnlyRow(tables.defense)
  <2>1. PICK latency \in Latencies :
          IF ~InTime(latency) THEN Refuse("source")
          ELSE IF ~VerifiedDefense(d) THEN Refuse("verification")
          ELSE /\ phase' = "check"
               /\ rule' = d.json.content.candidate.rule
               /\ UNCHANGED <<outsideVars, row, stimuli, executed, refused>>
      BY <1>5 DEF ReadDefense
  <2>2. CASE ~InTime(latency) \/ ~VerifiedDefense(d)
      BY <1>5, <2>1, <2>2, RefuseStep DEF ReadDefense
  <2>3. CASE InTime(latency) /\ VerifiedDefense(d)
    <3>1. UNCHANGED <<req, tables, seen, executed>> /\ phase' = "check" /\ rule' = NamedRule
        BY <2>1, <2>3, DefenseIsNamed DEF outsideVars
    <3>2. PathFits' /\ HoldsNamed' /\ phase' # "test"
        BY <1>5, <3>1, ValidStays DEF ReadDefense, ProducerInv, PathFits, HoldsNamed
    <3> QED
        BY <3>1, <3>2, MoveStep
  <2> QED
      BY <2>2, <2>3
<1>6. ASSUME ReadCheck PROVE ProducerInv'
  <2> DEFINE c == OnlyRow(tables.check)
  <2>1. PICK latency \in Latencies :
          IF ~InTime(latency) THEN Refuse("source")
          ELSE IF ~ReadableCheck(c) THEN Refuse("verification")
          ELSE IF c.payload.manifest
          THEN /\ phase' = "volume"
               /\ row' = c
               /\ UNCHANGED <<outsideVars, rule, stimuli, executed, refused>>
          ELSE Verify(c, c.payload.stored)
      BY <1>6 DEF ReadCheck
  <2>2. CASE ~InTime(latency) \/ ~ReadableCheck(c)
      BY <1>6, <2>1, <2>2, RefuseStep DEF ReadCheck
  <2>3. CASE InTime(latency) /\ ReadableCheck(c) /\ c.payload.manifest
    <3>1. UNCHANGED <<req, tables, seen, executed, rule>> /\ phase' = "volume"
        BY <2>1, <2>3 DEF outsideVars
    <3>2. PathFits' /\ HoldsNamed' /\ phase' # "test"
        BY <1>6, <3>1, ValidStays DEF ReadCheck, ProducerInv, PathFits, HoldsNamed
    <3> QED
        BY <3>1, <3>2, MoveStep
  <2>4. CASE InTime(latency) /\ ReadableCheck(c) /\ ~c.payload.manifest
      BY <1>6, <2>1, <2>4, VerifyStep DEF ReadCheck
  <2> QED
      BY <2>2, <2>3, <2>4
<1>7. ASSUME ReadVolume PROVE ProducerInv'
    BY <1>7, VerifyStep, RefuseStep DEF ReadVolume
<1>8. ASSUME SelectBasis PROVE ProducerInv'
  <2> DEFINE eligible == Eligible(stimuli, req.basis)
             stimulus == stimuli[First(eligible)].stimulus
  <2>1. /\ phase = "select" /\ Path(req) = "locator" /\ Valid(req)
        /\ rule = NamedRule /\ stimuli = NamedArtifacts
      BY <1>8 DEF SelectBasis, ProducerInv, PathFits, HoldsNamed
  <2>2. CASE Execute(rule, HydratedRequest(stimulus), stimulus, "inmemory")
    <3>1. Justified([path |-> Path(req), rule |-> rule, request |-> HydratedRequest(stimulus),
                     stimulus |-> stimulus, mode |-> "inmemory"])
        BY <2>1 DEF Justified
    <3> QED
        BY <2>1, <2>2, <3>1, ExecuteStep
  <2>3. CASE Refuse("selection")
      BY <2>1, <2>3, RefuseStep
  <2> QED
      BY <1>8, <2>2, <2>3 DEF SelectBasis
<1>9. ASSUME ReadRule PROVE ProducerInv'
  <2>1. phase = "upstream" /\ Path(req) = "upstream" /\ Valid(req) /\ tables \in seen
      BY <1>9 DEF ReadRule, ProducerInv, PathFits, HoldsRead
  <2>2. CASE Refuse("source")
      BY <2>1, <2>2, RefuseStep
  <2>3. CASE ~Refuse("source")
    <3>1. PICK i \in DOMAIN tables.defense :
            /\ tables.defense[i].json # None
            /\ phase' = "test"
            /\ rule' = tables.defense[i].json.content.candidate
            /\ UNCHANGED <<outsideVars, row, stimuli, executed, refused>>
        BY <1>9, <2>3 DEF ReadRule
    <3>2. UNCHANGED <<req, tables, seen, executed>>
        BY <3>1 DEF outsideVars
    <3>3. WasDefense(rule'.rule)
        BY <2>1, <3>1 DEF WasDefense
    <3>4. PathFits' /\ HoldsNamed'
        BY <2>1, <3>1, <3>2, ValidStays DEF PathFits, HoldsNamed
    <3> QED
        BY <3>2, <3>3, <3>4, MoveStep
  <2> QED
      BY <2>2, <2>3
<1>10. ASSUME ReadTest PROVE ProducerInv'
  <2>1. /\ phase = "test" /\ Path(req) = "upstream" /\ Valid(req)
        /\ tables \in seen /\ WasDefense(rule.rule)
      BY <1>10 DEF ReadTest, ProducerInv, PathFits, HoldsRead
  <2>2. CASE Refuse("source")
      BY <2>1, <2>2, RefuseStep
  <2>3. CASE req.test # None
    <3>1. Execute(rule.rule, Normalized(req.test), None, ModeOf(rule))
        BY <1>10, <2>3 DEF ReadTest
    <3>2. Justified([path |-> Path(req), rule |-> rule.rule, request |-> Normalized(req.test),
                     stimulus |-> None, mode |-> ModeOf(rule)])
        BY <2>1, <2>3 DEF Justified
    <3> QED
        BY <2>1, <3>1, <3>2, ExecuteStep
  <2>4. CASE ~Refuse("source") /\ req.test = None
    <3> DEFINE stimulusOf(i) == tables.check[i].payload.stored.run.artifacts[1].stimulus
    <3>1. PICK i \in DOMAIN tables.check :
            /\ tables.check[i].payload # None
            /\ tables.check[i].payload.stored.run.artifacts # <<>>
            /\ Execute(rule.rule, StimulusRequest(stimulusOf(i)), stimulusOf(i), ModeOf(rule))
        BY <1>10, <2>4 DEF ReadTest
    <3>2. WasCheck(StimulusRequest(stimulusOf(i)))
        BY <2>1, <3>1 DEF WasCheck
    <3>3. Justified([path |-> Path(req), rule |-> rule.rule,
                     request |-> StimulusRequest(stimulusOf(i)),
                     stimulus |-> stimulusOf(i), mode |-> ModeOf(rule)])
        BY <2>1, <2>4, <3>2 DEF Justified
    <3> QED
        BY <2>1, <3>1, <3>3, ExecuteStep
  <2> QED
      BY <2>2, <2>3, <2>4
<1>11. ASSUME SourceFails PROVE ProducerInv'
    BY <1>11, RefuseStep DEF SourceFails
<1>12. ASSUME Release PROVE ProducerInv'
    BY <1>12, IdleStep DEF Release, outsideVars
<1>13. ASSUME Rewrite PROVE ProducerInv'
  <2>1. /\ UNCHANGED <<req, phase, executed, rule, stimuli>>
        /\ seen' = seen \union {tables'}
      BY <1>13 DEF Rewrite, inputVars
  <2>2. PathFits' /\ HoldsNamed'
      BY <2>1, ValidStays DEF ProducerInv, PathFits, HoldsNamed
  <2>3. HoldsRead'
      BY <2>1 DEF ProducerInv, HoldsRead, WasDefense
  <2>4. \A e \in executed' : Justified(e)'
      BY <2>1, JustifiedStays DEF ProducerInv
  <2> QED
      BY <2>2, <2>3, <2>4 DEF ProducerInv
<1>14. ASSUME UNCHANGED vars PROVE ProducerInv'
  <2>1. UNCHANGED <<req, tables, phase, rule, stimuli, executed, seen>>
      BY <1>14 DEF vars
  <2>2. PathFits' /\ HoldsNamed'
      BY <2>1, ValidStays DEF ProducerInv, PathFits, HoldsNamed
  <2>3. phase' = "test" => WasDefense(rule'.rule)
      BY <2>1 DEF ProducerInv, HoldsRead
  <2> QED
      BY <2>1, <2>2, <2>3, MoveStep
<1> QED
    BY <1>1, <1>2, <1>3, <1>4, <1>5, <1>6, <1>7, <1>8, <1>9, <1>10, <1>11, <1>12,
       <1>13, <1>14 DEF Next

----------------------------------------------------------------------------
THEOREM ProducerInvariance == Spec => []ProducerInv
<1>1. ProducerInv /\ [Next]_vars => ProducerInv'
    BY NextProducerInv
<1> QED
    BY InitProducerInv, <1>1, PTL DEF Spec

\* However the tables are rewritten between the reads and however often the run
\* is executed, a locator run executes what its locators digest
\* (verifyDefenseRow, verifyCheckRow, selectRegisteredHTTPTestBasis).
THEOREM LocatorRunsAreImmutable == Spec => []HydratedIsNamed
<1>1. ProducerInv => HydratedIsNamed
    BY DEF ProducerInv, Justified, HydratedIsNamed
<1> QED
    BY ProducerInvariance, <1>1, PTL

\* A request that names producer results executes nothing it carries itself
\* (validate, executeRequestedScenario).
THEOREM ReferencesExcludeInline == Spec => []NothingInlineRuns
<1>1. ProducerInv => NothingInlineRuns
  <2> SUFFICES ASSUME ProducerInv, NEW e \in executed
               PROVE  /\ req.defense # "none" \/ req.check # "none" \/ req.policy # "" \/ req.profile # "" =>
                           e.path = "locator" /\ req.rule = None /\ req.test = None
                      /\ UpstreamMode /\ req.entries # <<>> => e.path # "inline"
      BY DEF NothingInlineRuns
  <2>1. Valid(req) /\ e.path = Path(req) /\ e.path # "shared"
      BY DEF ProducerInv, Justified
  <2>2. ~Shared(req)
      BY <2>1 DEF Path
  <2>3. Locator(req) => e.path = "locator" /\ ReferenceOnly(req)
      BY <2>1, <2>2 DEF Path, Valid
  <2>4. req.defense # "none" \/ req.check # "none" \/ req.policy # "" \/ req.profile # "" => Locator(req)
      BY <2>2 DEF Shared, Locator
  <2>5. UpstreamMode /\ req.entries # <<>> => e.path # "inline"
      BY <2>1, <2>2 DEF Path
  <2> QED
      BY <2>3, <2>4, <2>5 DEF ReferenceOnly
<1> QED
    BY ProducerInvariance, <1>1, PTL

\* No upstream verdict rests on a rule or a test that was not read, or given
\* with the request (executeScenarioUpstream).
THEOREM UpstreamVerdictsStandOnReads == Spec => []VerdictsStandOnReads
<1>1. ProducerInv => VerdictsStandOnReads
    BY DEF ProducerInv, Justified, VerdictsStandOnReads, WasDefense, WasCheck
<1> QED
    BY ProducerInvariance, <1>1, PTL

----------------------------------------------------------------------------
(* Sound results are accepted *)

LEMMA SoundDefenseIsVerified ==
    ASSUME NEW t \in Published PROVE VerifiedDefense(OnlyRow(t.defense))
BY LocatorAssumption, PublishedAssumption DEF VerifiedDefense, OnlyRow

LEMMA SoundCheckIsReadable ==
    ASSUME NEW t \in Published
    PROVE  OnlyRow(t.check) = t.check[1] /\ ReadableCheck(t.check[1])
BY PublishedAssumption DEF ReadableCheck, OnlyRow

LEMMA SoundCheckIsVerified ==
    ASSUME NEW t \in Published PROVE VerifiedCheck(t.check[1], t.check[1].payload.stored)
<1> DEFINE c == t.check[1]
           named == CheckLocator.digest
<1>1. /\ c.payload.stored # None /\ c.completion # None
      /\ c.created = CheckLocator.created
      /\ c.payload.stored.wrapper = CheckLocator.ident /\ c.payload.stored.run = named.run
      /\ c.completion.core = named.core
      /\ c.completion.digest = named /\ c.completion.lineage
    BY PublishedAssumption
<1>2. /\ named.core.ident = CheckLocator.ident /\ named.core.created = CheckLocator.created
      /\ named.run.ident = CheckLocator.ident
    BY LocatorAssumption
<1>3. named \in Logical(c.completion, c.payload.stored.run)
  <2>1. named = [core |-> c.completion.core, run |-> c.payload.stored.run, zone |-> named.zone]
      BY <1>1, LocatorAssumption
  <2>2. named.zone \in {c.completion.zone}
                          \union (IF c.completion.zone = "Z" THEN {"+00:00"} ELSE {})
      BY PublishedAssumption
  <2> QED
      BY <2>1, <2>2 DEF Logical
<1> QED
    BY <1>1, <1>2, <1>3 DEF VerifiedCheck

\* As long as the tables hold the two results, no attempt was refused as corrupt,
\* and the row that waits for its payload is the manifest of one of them.
SoundInv ==
    seen \subseteq Published =>
      /\ refused # "verification"
      /\ phase = "volume" => \E t \in Published : row = t.check[1] /\ row.payload.manifest

LEMMA NextSoundInv ==
    ASSUME ProducerInv, SoundInv, [Next]_vars PROVE SoundInv'
<1> DEFINE Kept == refused' # "verification" /\ phase' # "volume"
<1>0. seen \subseteq seen' /\ tables \in seen
    BY DEF ProducerInv, HoldsRead, Next, vars, Submit, Claim, ExecuteInline, Execute, ExecuteShared,
           ReadDefense, ReadCheck, Verify, ReadVolume, SelectBasis, ReadRule, ReadTest,
           SourceFails, Release, Rewrite, Refuse, outsideVars
<1> SUFFICES ASSUME seen' \subseteq Published
             PROVE  /\ refused' # "verification"
                    /\ phase' = "volume" =>
                         \E t \in Published : row' = t.check[1] /\ row'.payload.manifest
    BY DEF SoundInv
<1>1. /\ tables \in Published /\ refused # "verification"
      /\ phase = "volume" => \E t \in Published : row = t.check[1] /\ row.payload.manifest
    BY <1>0 DEF SoundInv
<1>2. CASE \/ Submit \/ Claim \/ ExecuteInline \/ ExecuteShared \/ SelectBasis
           \/ ReadRule \/ ReadTest \/ SourceFails \/ Release
    BY <1>1, <1>2, PathKnown
    DEF Submit, Claim, ExecuteInline, Execute, ExecuteShared, SelectBasis, ReadRule, ReadTest,
        SourceFails, Release, Refuse
<1>3. CASE ReadDefense
    BY <1>1, <1>3, SoundDefenseIsVerified DEF ReadDefense, Refuse
<1>4. ASSUME NEW t \in Published, Verify(t.check[1], t.check[1].payload.stored) PROVE Kept
    BY <1>1, <1>4, SoundCheckIsVerified DEF Verify
<1>5. CASE ReadCheck
  <2>1. /\ OnlyRow(tables.check) = tables.check[1] /\ ReadableCheck(tables.check[1])
      BY <1>1, SoundCheckIsReadable
  <2>2. \/ Refuse("source")
        \/ tables.check[1].payload.manifest /\ row' = tables.check[1] /\ refused' = refused
        \/ Verify(tables.check[1], tables.check[1].payload.stored)
      BY <1>5, <2>1 DEF ReadCheck
  <2>3. CASE Refuse("source")
      BY <2>3 DEF Refuse
  <2>4. CASE tables.check[1].payload.manifest /\ row' = tables.check[1] /\ refused' = refused
      BY <1>1, <2>4
  <2>5. CASE Verify(tables.check[1], tables.check[1].payload.stored)
      BY <1>1, <1>4, <2>5
  <2> QED
      BY <2>2, <2>3, <2>4, <2>5
<1>6. CASE ReadVolume
  <2>1. PICK t \in Published : row = t.check[1] /\ row.payload.manifest
      BY <1>1, <1>6 DEF ReadVolume
  <2>2. tables.volume = row.payload.stored
      BY <1>1, <2>1, PublishedAssumption
  <2>3. Verify(t.check[1], t.check[1].payload.stored)
      BY <1>6, <2>1, <2>2 DEF ReadVolume
  <2> QED
      BY <1>4, <2>3
<1>7. CASE Rewrite \/ UNCHANGED vars
    BY <1>1, <1>7 DEF Rewrite, vars, inputVars
<1> QED
    BY <1>2, <1>3, <1>5, <1>6, <1>7 DEF Next

\* A run whose results are in the tables in any form their producers use is not
\* refused as corrupt, however one form replaces another between the reads
\* (verifyDefenseRow, verifyCheckRow).
THEOREM SoundResultsAreAccepted == Spec => []SoundIsNotRefused
<1>1. Init => SoundInv
    BY DEF Init, SoundInv
<1>2. ProducerInv /\ SoundInv /\ [Next]_vars => SoundInv'
    BY NextSoundInv
<1>3. SoundInv => SoundIsNotRefused
    BY DEF SoundInv, SoundIsNotRefused
<1> QED
    BY <1>1, <1>2, <1>3, ProducerInvariance, PTL DEF Spec
=============================================================================
