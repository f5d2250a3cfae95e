-------------------------- MODULE ScenarioExecution --------------------------
(***************************************************************************)
(* executeScenario (executor.go) and the places it runs in: the in-process *)
(* target, Docker, Azure Container Instances, GitHub Actions and GHCR.     *)
(*                                                                         *)
(* An attempt <<r, k>> is the k-th lease of run r.  A new attempt starts   *)
(* when the previous one crashed or lost its lease; one that lost its      *)
(* lease goes on until its context is cancelled, so that two attempts of a *)
(* run may use the same container name at the same time.                   *)
(*                                                                         *)
(* findRun looks at time: it takes a workflow created up to 5 seconds      *)
(* before the dispatch.  There is no clock.  The workflows of a run are    *)
(* numbered as GitHub creates them, and those up to aged[r] were created   *)
(* longer than that slack ago, by the clocks findRun compares.             *)
(***************************************************************************)
EXTENDS Integers, FiniteSets

CONSTANTS
    Runs,
    MaxAttempts,    \* leases of a run that execute
    Modes,          \* execution modes runs may ask for
    Images,         \* images of this and other users of the registry
    ImageOf,        \* substrate image of each run
    TagOf,          \* name of an image in the repository's registry (ghcrTarget)
    Configured,     \* whether Azure and GitHub are configured on this replica
    None

AllModes == {"local", "local-network", "inmemory", "aci", "github", "github-ghcr",
             "firewall", "unknown"}
Tags == {TagOf[i] : i \in Images}

ASSUME ConstantAssumption ==
    /\ MaxAttempts \in Nat \ {0}
    /\ Modes \subseteq AllModes
    /\ Configured \in BOOLEAN
    /\ ImageOf \in [Runs -> Images] /\ None \notin Images
    /\ None \notin Runs \X (1..MaxAttempts)

VARIABLES
    mode,       \* execution mode of each run
    request,    \* what the request of a run lacks, if anything
    fires,      \* whether the run's rule matches its test, as it is stored
    epoch,      \* leases of a run so far
    pc,         \* step of each attempt
    live,       \* whether the context of an attempt is not cancelled
    verdict,    \* terminal state of each attempt
    answered,   \* image of the app that answered the attempt's test request
    target,     \* attempt whose target lives under a name
    deleting,   \* names with a delete Azure has accepted
    mishap,     \* what kept an attempt from removing what it created, or
                \* removed it before (history)
    wf,         \* workflow each attempt dispatched, at: its number in the run
    listed,     \* workflows GitHub created for a run so far
    aged,       \* those of them created longer than the slack ago
    outset,     \* aged when an attempt was leased (history)
    since,      \* aged when an attempt dispatched: the time findRun is given
    found,      \* attempt whose workflow an attempt follows
    pushed      \* image under each tag of the repository's registry

vars == <<mode, request, fires, epoch, pc, live, verdict, answered, target, deleting,
          mishap, wf, listed, aged, outset, since, found, pushed>>
caseVars == <<mode, request, fires>>
placeVars == <<target, deleting>>
timeVars == <<listed, aged, outset>>
gitVars == <<wf, timeVars, since, found, pushed>>

Attempts == Runs \X (1..MaxAttempts)
Mode(a) == mode[a[1]]
Image(a) == ImageOf[a[1]]
Remote == {"github", "github-ghcr"}

Names == Runs \X (0..MaxAttempts)

\* The name a target lives under.  Containers on a shared network and container
\* groups are named by their run; a published port or an in-process listener
\* belongs to one attempt.
Name(a) == IF Mode(a) \in {"local-network", "aci"} THEN <<a[1], 0>> ELSE a

Requests == {"complete", "no-image", "no-rule", "no-basis", "bad-rule"}
Steps == {"waiting", "check", "secret", "relay", "dispatch", "find", "wait", "fetch",
          "create", "provision", "abandon", "ready", "forward", "cleanup", "done", "dead"}
Mishaps == {"none", "exited", "crashed", "create-lost", "delete-failed"}
Verdicts == {"blocked", "not-blocked", "could-not-test"}

ASSUME VerdictAssumption == None \notin Verdicts

NoWorkflow == [state |-> "none", at |-> 0, verdict |-> "could-not-test", image |-> None]

Init ==
    /\ mode \in [Runs -> Modes]
    /\ request \in [Runs -> Requests]
    /\ fires \in [Runs -> BOOLEAN]
    /\ \A r \in Runs : fires[r] => request[r] \in {"complete", "no-image"}
    /\ epoch = [r \in Runs |-> 0]
    /\ pc = [a \in Attempts |-> "waiting"]
    /\ live = [a \in Attempts |-> TRUE]
    /\ verdict = [a \in Attempts |-> None]
    /\ answered = [a \in Attempts |-> None]
    /\ target = [n \in Names |-> None]
    /\ deleting = {}
    /\ mishap = [a \in Attempts |-> "none"]
    /\ wf = [a \in Attempts |-> NoWorkflow]
    /\ listed = [r \in Runs |-> 0]
    /\ aged = [r \in Runs |-> 0]
    /\ outset = [a \in Attempts |-> 0]
    /\ since = [a \in Attempts |-> 0]
    /\ found = [a \in Attempts |-> None]
    /\ pushed = [t \in Tags |-> None]

Goto(a, step) == pc' = [pc EXCEPT ![a] = step]

\* A step that ends the execution with a verdict, or goes on without one.
Concludes(a, v, step) == Goto(a, step) /\ verdict' = [verdict EXCEPT ![a] = v]
CouldNotTest(a) == Concludes(a, "could-not-test", "done")

Running(a) == pc[a] \notin {"waiting", "done", "dead"}

-----------------------------------------------------------------------------
(* Leases, crashes and contexts.                                           *)

\* The worker leases the run for the first time, or again after the previous
\* attempt crashed or outlived its lease.
Lease(r) ==
    /\ epoch[r] < MaxAttempts
    /\ epoch[r] > 0 => pc[<<r, epoch[r]>>] # "done"
    /\ epoch' = [epoch EXCEPT ![r] = @ + 1]
    /\ Goto(<<r, epoch[r] + 1>>, "check")
    /\ outset' = [outset EXCEPT ![<<r, epoch[r] + 1>>] = aged[r]]
    /\ UNCHANGED <<caseVars, live, verdict, answered, placeVars, mishap, wf, listed, aged,
                   since, found, pushed>>

\* A cancel request, a lost lease, the execution timeout or a shutdown.
Cancel(a) ==
    /\ Running(a) /\ live[a]
    /\ live' = [live EXCEPT ![a] = FALSE]
    /\ UNCHANGED <<caseVars, epoch, pc, verdict, answered, placeVars, mishap, gitVars>>

\* The process stops: no deferred cleanup runs, an in-process target is gone.
Crash(a) ==
    /\ Running(a)
    /\ Goto(a, "dead")
    /\ mishap' = [mishap EXCEPT ![a] = "crashed"]
    /\ target' = IF Mode(a) = "inmemory" THEN [target EXCEPT ![Name(a)] = None] ELSE target
    /\ UNCHANGED <<caseVars, epoch, live, verdict, answered, deleting, gitVars>>

-----------------------------------------------------------------------------
(* executeScenario: what the request lacks, then where it runs.            *)

\* Checks in the order of the code; a missing image is tolerated in process,
\* and only a local evaluation compiles the rule.
Refused(a) ==
    \/ request[a[1]] \in {"no-rule", "no-basis"}
    \/ request[a[1]] = "no-image" /\ Mode(a) \notin {"inmemory", "firewall"}
    \/ request[a[1]] = "bad-rule" /\ Mode(a) \notin Remote
    \/ Mode(a) = "unknown"
    \/ Mode(a) \in Remote \union {"aci"} /\ ~Configured

\* runFirewallInMemory: the verdict needs no target.
Check(a) ==
    /\ pc[a] = "check"
    /\ \/ Refused(a) /\ CouldNotTest(a)
       \/ /\ ~Refused(a) /\ Mode(a) = "firewall"
          /\ Concludes(a, IF fires[a[1]] THEN "blocked" ELSE "not-blocked", "done")
       \/ /\ ~Refused(a) /\ Mode(a) # "firewall"
          /\ Goto(a, CASE Mode(a) = "github" -> "dispatch"
                       [] Mode(a) = "github-ghcr" -> "secret"
                       [] OTHER -> "create")
          /\ UNCHANGED verdict
    /\ UNCHANGED <<caseVars, epoch, live, answered, placeVars, mishap, gitVars>>

-----------------------------------------------------------------------------
(* Bring-up and teardown.                                                  *)

\* Wrong on purpose: a container with the name is replaced.
NameTakenNever(a) == FALSE

\* Docker refuses a name in use; Azure updates the group that has it.
NameTaken(a) == Mode(a) = "local-network" /\ target[Name(a)] # None

Created(a, step) ==
    /\ target' = [target EXCEPT ![Name(a)] = a]
    /\ Goto(a, step) /\ UNCHANGED <<verdict, mishap>>

CreateFails(a) == CouldNotTest(a) /\ UNCHANGED <<target, mishap>>

\* The client timed out or its context was cancelled before the answer: nobody
\* cleans up what was created all the same.
CreateAnswerLost(a) ==
    /\ CouldNotTest(a)
    /\ target' = [target EXCEPT ![Name(a)] = a]
    /\ mishap' = [mishap EXCEPT ![a] = "create-lost"]

\* docker run, on the shared network or with a published port.
StartContainer(a) ==
    /\ pc[a] = "create" /\ Mode(a) \in {"local", "local-network"}
    /\ \/ live[a] /\ ~NameTaken(a) /\ (Created(a, "ready") \/ CreateAnswerLost(a))
       \/ CreateFails(a)
    /\ UNCHANGED <<caseVars, epoch, live, answered, deleting, gitVars>>

\* BeginCreateOrUpdate.
CreateGroup(a) ==
    /\ pc[a] = "create" /\ Mode(a) = "aci"
    /\ \/ live[a] /\ (Created(a, "provision") \/ CreateAnswerLost(a))
       \/ CreateFails(a)
    /\ UNCHANGED <<caseVars, epoch, live, answered, deleting, gitVars>>

\* A listener in the process, whatever became of the context.
Listen(a) ==
    /\ pc[a] = "create" /\ Mode(a) = "inmemory"
    /\ Created(a, "ready") \/ CreateFails(a)
    /\ UNCHANGED <<caseVars, epoch, live, answered, deleting, gitVars>>

\* Wrong on purpose: a group that was not provisioned in time is left alone.
ProvisionLeaving(a) ==
    /\ pc[a] = "provision"
    /\ \/ live[a] /\ target[Name(a)] # None /\ Goto(a, "ready") /\ UNCHANGED verdict
       \/ CouldNotTest(a)
    /\ UNCHANGED <<caseVars, epoch, live, answered, placeVars, mishap, gitVars>>

\* PollUntilDone and the address of the group; a failure calls the deleter.
Provision(a) ==
    /\ pc[a] = "provision"
    /\ \/ live[a] /\ target[Name(a)] # None /\ Goto(a, "ready") /\ UNCHANGED verdict
       \/ Concludes(a, "could-not-test", "cleanup")
    /\ UNCHANGED <<caseVars, epoch, live, answered, placeVars, mishap, gitVars>>

\* waitReady: 120 seconds, or until the context is cancelled.  A matching rule
\* then denies the request without asking the app.
Ready(a) ==
    /\ pc[a] = "ready"
    /\ \/ /\ live[a] /\ target[Name(a)] # None
          /\ IF fires[a[1]]
             THEN Concludes(a, "blocked", "cleanup")
             ELSE Goto(a, "forward") /\ UNCHANGED verdict
       \/ Concludes(a, "could-not-test", "cleanup")
    /\ UNCHANGED <<caseVars, epoch, live, answered, placeVars, mishap, gitVars>>

\* Wrong on purpose: no answer counts as blocked.
ForwardPessimist(a) ==
    /\ pc[a] = "forward"
    /\ \/ /\ live[a] /\ target[Name(a)] # None
          /\ answered' = [answered EXCEPT ![a] = ImageOf[target[Name(a)][1]]]
          /\ Concludes(a, "not-blocked", "cleanup")
       \/ Concludes(a, "blocked", "cleanup") /\ UNCHANGED answered
    /\ UNCHANGED <<caseVars, epoch, live, placeVars, mishap, gitVars>>

\* forward: the app's answer, or none.
Forward(a) ==
    /\ pc[a] = "forward"
    /\ \/ /\ live[a] /\ target[Name(a)] # None
          /\ answered' = [answered EXCEPT ![a] = ImageOf[target[Name(a)][1]]]
          /\ Concludes(a, "not-blocked", "cleanup")
       \/ Concludes(a, "could-not-test", "cleanup") /\ UNCHANGED answered
    /\ UNCHANGED <<caseVars, epoch, live, placeVars, mishap, gitVars>>

\* The deferred cleanup has a context of its own.  Docker removes the container
\* this attempt started, by id; Azure accepts the delete of a name.
Cleanup(a) ==
    /\ pc[a] = "cleanup"
    /\ Goto(a, "done")
    /\ \/ /\ Mode(a) = "aci" /\ deleting' = deleting \union {Name(a)}
          /\ UNCHANGED <<target, mishap>>
       \/ /\ Mode(a) # "aci"
          /\ target' = [target EXCEPT ![Name(a)] = IF @ = a THEN None ELSE @]
          /\ UNCHANGED <<deleting, mishap>>
       \/ /\ Mode(a) # "inmemory" /\ mishap' = [mishap EXCEPT ![a] = "delete-failed"] /\ UNCHANGED placeVars
    /\ UNCHANGED <<caseVars, epoch, live, verdict, answered, gitVars>>

\* A container whose process ends is removed by Docker itself (--rm).
ContainerExits(a) ==
    /\ Mode(a) \in {"local", "local-network"} /\ target[Name(a)] = a
    /\ target' = [target EXCEPT ![Name(a)] = None]
    /\ mishap' = [mishap EXCEPT ![a] = IF @ = "none" THEN "exited" ELSE @]
    /\ UNCHANGED <<caseVars, epoch, pc, live, verdict, answered, deleting, gitVars>>

\* Azure removes a group some time after it accepted the delete.
DeleteLands(n) ==
    /\ n \in deleting
    /\ deleting' = deleting \ {n}
    /\ target' = [target EXCEPT ![n] = None]
    /\ UNCHANGED <<caseVars, epoch, pc, live, verdict, answered, mishap, gitVars>>

-----------------------------------------------------------------------------
(* GitHub Actions.                                                         *)

\* ensureRepoSecret writes the same secret whoever calls it.
EnsureSecret(a) ==
    /\ pc[a] = "secret"
    /\ \/ live[a] /\ Goto(a, "relay") /\ UNCHANGED verdict
       \/ CouldNotTest(a)
    /\ UNCHANGED <<caseVars, epoch, live, answered, placeVars, mishap, gitVars>>

\* relayImageToGHCR: the image is copied to the tag ghcrTarget gives it.
Relay(a) ==
    /\ pc[a] = "relay"
    /\ \/ /\ live[a] /\ Goto(a, "dispatch") /\ UNCHANGED verdict
          /\ pushed' = [pushed EXCEPT ![TagOf[Image(a)]] = Image(a)]
       \/ CouldNotTest(a) /\ UNCHANGED pushed
    /\ UNCHANGED <<caseVars, epoch, live, answered, placeVars, mishap, wf, timeVars, since,
                   found>>

\* The registry is the repository owner's: another run, replica or deployment
\* relays an image to its tag.  It matters while a runner has yet to pull.
OthersRelay(i) ==
    /\ \E a \in Attempts : Mode(a) = "github-ghcr" /\ wf[a].state = "queued"
    /\ pushed' = [pushed EXCEPT ![TagOf[i]] = i]
    /\ UNCHANGED <<caseVars, epoch, pc, live, verdict, answered, placeVars, mishap, wf,
                   timeVars, since, found>>

\* The dispatch is accepted, fails, or is accepted with its answer lost.
Dispatch(a) ==
    /\ pc[a] = "dispatch"
    /\ since' = [since EXCEPT ![a] = aged[a[1]]]
    /\ \/ /\ live[a] /\ Goto(a, "find") /\ UNCHANGED <<verdict, mishap>>
          /\ wf' = [wf EXCEPT ![a].state = "sent"]
       \/ /\ CouldNotTest(a)
          /\ \/ UNCHANGED <<wf, mishap>>
             \/ /\ live[a] /\ wf' = [wf EXCEPT ![a].state = "sent"]
                /\ mishap' = [mishap EXCEPT ![a] = "create-lost"]
    /\ UNCHANGED <<caseVars, epoch, live, answered, placeVars, timeVars, found, pushed>>

\* GitHub creates the workflow run, which then shows in the list.
Appears(a) ==
    /\ wf[a].state = "sent"
    /\ wf' = [wf EXCEPT ![a].state = "queued", ![a].at = listed[a[1]] + 1]
    /\ listed' = [listed EXCEPT ![a[1]] = @ + 1]
    /\ UNCHANGED <<caseVars, epoch, pc, live, verdict, answered, placeVars, mishap, aged,
                   outset, since, found, pushed>>

\* The slack passes since the creation of the next workflow.  It matters while
\* an attempt of the run has yet to dispatch.
Ages(r) ==
    /\ aged[r] < listed[r]
    /\ \E a \in Attempts :
          a[1] = r /\ pc[a] \in {"waiting", "check", "secret", "relay", "dispatch"}
    /\ aged' = [aged EXCEPT ![r] = @ + 1]
    /\ UNCHANGED <<caseVars, epoch, pc, live, verdict, answered, placeVars, mishap, wf,
                   listed, outset, since, found, pushed>>

\* The runner executes the scenario in local mode, with the image the registry
\* has under its tag when it pulls.
WorkflowEnds(a) ==
    /\ wf[a].state = "queued"
    /\ \E v \in Verdicts :
         /\ v # "could-not-test" => request[a[1]] = "complete"
         /\ v = "blocked" => fires[a[1]]
         /\ v = "not-blocked" => ~fires[a[1]]
         /\ wf' = [wf EXCEPT ![a].state = "completed", ![a].verdict = v,
                     ![a].image = IF v # "not-blocked" THEN None
                                  ELSE IF Mode(a) = "github-ghcr" THEN pushed[TagOf[Image(a)]]
                                  ELSE Image(a)]
    /\ UNCHANGED <<caseVars, epoch, pc, live, verdict, answered, placeVars, mishap, timeVars,
                   since, found, pushed>>

\* Wrong on purpose: the creation time is not looked at.
CandidateRunAnyAge(a, b) == wf[b].state \in {"queued", "completed"} /\ b[1] = a[1]

\* findRun: named after the run, created after the time of the dispatch, which
\* is set back by the slack (substrate_github.go:55, 142).
CandidateRun(a, b) ==
    /\ wf[b].state \in {"queued", "completed"} /\ b[1] = a[1]
    /\ wf[b].at > since[a]

FindRun(a) ==
    /\ pc[a] = "find"
    /\ \/ \E b \in Attempts :
            /\ live[a] /\ CandidateRun(a, b)
            /\ found' = [found EXCEPT ![a] = b]
            /\ Goto(a, "wait") /\ UNCHANGED verdict
       \/ CouldNotTest(a) /\ UNCHANGED found
    /\ UNCHANGED <<caseVars, epoch, live, answered, placeVars, mishap, wf, timeVars, since,
                   pushed>>

\* Wrong on purpose: only the end of the workflow ends the wait.
WaitRunDeaf(a) ==
    /\ pc[a] = "wait"
    /\ wf[found[a]].state = "completed" /\ Goto(a, "fetch") /\ UNCHANGED verdict
    /\ UNCHANGED <<caseVars, epoch, live, answered, placeVars, mishap, gitVars>>

\* waitRun polls for ever; a cancelled context ends it.
WaitRun(a) ==
    /\ pc[a] = "wait"
    /\ \/ wf[found[a]].state = "completed" /\ Goto(a, "fetch") /\ UNCHANGED verdict
       \/ ~live[a] /\ CouldNotTest(a)
    /\ UNCHANGED <<caseVars, epoch, live, answered, placeVars, mishap, gitVars>>

\* So does a call that fails while the context is alive.
PollFails(a) ==
    /\ pc[a] = "wait" /\ live[a]
    /\ CouldNotTest(a)
    /\ UNCHANGED <<caseVars, epoch, live, answered, placeVars, mishap, gitVars>>

\* fetchResult, or no usable result; the remote verdict is kept.
FetchResult(a) ==
    /\ pc[a] = "fetch"
    /\ \/ /\ live[a] /\ Concludes(a, wf[found[a]].verdict, "done")
          /\ answered' = [answered EXCEPT ![a] = wf[found[a]].image]
       \/ CouldNotTest(a) /\ UNCHANGED answered
    /\ UNCHANGED <<caseVars, epoch, live, placeVars, mishap, gitVars>>

-----------------------------------------------------------------------------
\* The bring-up, test and teardown of executeScenario.
InContainer(a) ==
    \/ StartContainer(a) \/ CreateGroup(a) \/ Listen(a) \/ Provision(a)
    \/ Ready(a) \/ Forward(a) \/ Cleanup(a)

\* runViaGitHub, and what runViaGitHubGHCR does before it.
OnGitHub(a) == Dispatch(a) \/ FindRun(a) \/ WaitRun(a) \/ FetchResult(a)
ThroughRegistry(a) == EnsureSecret(a) \/ Relay(a)

Execute(a) == Check(a) \/ InContainer(a) \/ OnGitHub(a) \/ ThroughRegistry(a)

Settled ==
    /\ \A a \in Attempts : ~Running(a)
    /\ UNCHANGED vars

Next ==
    \/ \E r \in Runs : Lease(r) \/ Ages(r)
    \/ \E a \in Attempts : Cancel(a) \/ Crash(a) \/ Execute(a) \/ PollFails(a)
    \/ \E a \in Attempts : ContainerExits(a)
    \/ \E n \in Names : DeleteLands(n)
    \/ \E i \in Images : OthersRelay(i)
    \/ \E a \in Attempts : Appears(a) \/ WorkflowEnds(a)
    \/ Settled

Spec == Init /\ [][Next]_vars

\* The steps whose end is up to this process: each call has a time limit of its
\* own, except the wait for Azure to provision a group.
Prompt(a) == (pc[a] = "provision" => ~live[a]) /\ Execute(a)

\* The process runs, and MC_EXECUTION_TIMEOUT ends every context; GitHub and
\* Azure owe nothing.
FairSpec == Spec /\ \A a \in Attempts : WF_vars(Prompt(a)) /\ WF_vars(Cancel(a))

-----------------------------------------------------------------------------
(* Properties.                                                             *)

Workflow == [state: {"none", "sent", "queued", "completed"}, at: Nat,
             verdict: Verdicts, image: Images \union {None}]

\* Attempts, targets and workflows keep their types.
TypeOK ==
    /\ mode \in [Runs -> Modes] /\ request \in [Runs -> Requests] /\ fires \in [Runs -> BOOLEAN]
    /\ epoch \in [Runs -> 0..MaxAttempts]
    /\ pc \in [Attempts -> Steps] /\ live \in [Attempts -> BOOLEAN]
    /\ verdict \in [Attempts -> Verdicts \union {None}]
    /\ answered \in [Attempts -> Images \union {None}]
    /\ target \in [Names -> Attempts \union {None}]
    /\ deleting \in SUBSET Names /\ mishap \in [Attempts -> Mishaps]
    /\ wf \in [Attempts -> Workflow]
    /\ listed \in [Runs -> Nat] /\ aged \in [Runs -> Nat]
    /\ outset \in [Attempts -> Nat] /\ since \in [Attempts -> Nat]
    /\ found \in [Attempts -> Attempts \union {None}]
    /\ pushed \in [Tags -> Images \union {None}]

\* An app with image i may answer for attempt a: the run's own or, where the
\* image went through the registry, one that ghcrTarget gives the same tag
\* (substrate_github_ghcr.go:206-217) and that replaced it there.
AnsweredFor(a, i) ==
    \/ i = Image(a)
    \/ Mode(a) = "github-ghcr" /\ i \in Images /\ TagOf[i] = TagOf[Image(a)]

\* No verdict is made up (README.md:162-164): a run is blocked only by a rule
\* that matches, and not blocked only when an app answered that has the run's
\* image or its tag; two attempts of a run never disagree.
VerdictsAreObserved ==
    \A a \in Attempts :
      /\ verdict[a] = "blocked" => fires[a[1]]
      /\ verdict[a] = "not-blocked" =>
           /\ ~fires[a[1]]
           /\ Mode(a) = "firewall" \/ AnsweredFor(a, answered[a])

\* A target outlives its run's attempts only if its creator crashed, lost the
\* answer to its create, or failed to delete it.
LeaksAreMishaps ==
    \A n \in Names : target[n] # None /\ n \notin deleting =>
      Running(target[n]) \/ mishap[target[n]] # "none"

\* Between bring-up and cleanup an attempt has its own target, unless the
\* container exited by itself.  Only a container group may otherwise be gone or
\* another attempt's: its name is the run's, and another attempt of the run has
\* created or deleted under it (substrate_aci.go:196).
TargetsAreKept ==
    \A a \in Attempts : pc[a] \in {"provision", "ready", "forward", "cleanup"} =>
      \/ target[Name(a)] = a
      \/ Mode(a) \in {"local", "local-network"} /\ mishap[a] = "exited"
      \/ /\ Mode(a) = "aci"
         /\ \E b \in Attempts \ {a} :
               b[1] = a[1] /\ pc[b] \notin {"waiting", "check", "create"}

\* An attempt takes its result from a workflow of its own run, and never from
\* one created longer than the slack before the attempt was leased.  It may take
\* a predecessor's: one created later, or within the slack before the lease.
NoStaleResult ==
    \A a \in Attempts : found[a] # None =>
      found[a][1] = a[1] /\ wf[found[a]].at > outset[a]

\* With an execution timeout every attempt ends, whatever GitHub, Azure and the
\* apps do.
AttemptsReturn == \A a \in Attempts : pc[a] = "check" ~> ~Running(a)
=============================================================================
