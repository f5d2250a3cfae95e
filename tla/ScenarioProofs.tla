--------------------------- MODULE ScenarioProofs ---------------------------
(***************************************************************************)
(* Theorems about ScenarioExecution, for any runs, attempts and modes.     *)
(***************************************************************************)
EXTENDS ScenarioExecution, TLAPS

----------------------------------------------------------------------------
(* The inductive invariant *)

Early == {"waiting", "check", "create"}
Holding == {"provision", "ready", "forward", "cleanup"}
Undispatched == {"waiting", "check", "secret", "relay", "dispatch"}
Contained == {"local", "local-network", "inmemory", "aci"}

\* Exactly the leased attempts have begun.
LeasesFit ==
    \A a \in Attempts : pc[a] = "waiting" <=> epoch[a[1]] < a[2]

\* Each step belongs to the mode of its run.
StepsFit ==
    \A a \in Attempts :
        /\ pc[a] = "create" \/ pc[a] \in Holding => Mode(a) \in Contained
        /\ pc[a] = "provision" => Mode(a) = "aci"

\* A target lives under the name of its creator, which is past its create; while
\* an attempt goes on, only its container's exit has happened to it.
TargetsFit ==
    /\ \A n \in Names : target[n] # None =>
         /\ Name(target[n]) = n
         /\ pc[target[n]] \in Holding \union {"done", "dead"}
    /\ \A n \in deleting : \E b \in Attempts :
         Name(b) = n /\ Mode(b) = "aci" /\ pc[b] = "done"
    /\ \A a \in Attempts : pc[a] \notin {"done", "dead"} => mishap[a] \in {"none", "exited"}

\* A workflow is dispatched once and found after it appeared, by an attempt whose
\* time of dispatch is not before its lease.
WorkflowsFit ==
    \A a \in Attempts :
        /\ outset[a] <= aged[a[1]]
        /\ pc[a] = "waiting" => found[a] = None
        /\ pc[a] \in Undispatched => wf[a].state = "none"
        /\ pc[a] = "find" => since[a] >= outset[a]
        /\ pc[a] \in {"wait", "fetch"} => found[a] # None
        /\ found[a] # None => wf[found[a]].state \in {"queued", "completed"}

ScenarioInv ==
    /\ TypeOK
    /\ LeasesFit /\ StepsFit /\ TargetsFit /\ WorkflowsFit
    /\ LeaksAreMishaps /\ TargetsAreKept /\ NoStaleResult

----------------------------------------------------------------------------
(* Types *)

LEMMA StrictlyAbove ==
    ASSUME NEW x \in Nat, NEW y \in Nat, y # x + 1
    PROVE  x < y <=> x + 1 < y
OBVIOUS

USE ConstantAssumption DEF ConstantAssumption

LEMMA AttemptShape ==
    ASSUME NEW a \in Attempts
    PROVE  a[1] \in Runs /\ a[2] \in 1..MaxAttempts /\ a = <<a[1], a[2]>> /\ a # None
BY DEF Attempts

LEMMA ImageType == \A r \in Runs : ImageOf[r] \in Images /\ TagOf[ImageOf[r]] \in Tags
BY DEF Tags

LEMMA NameType ==
    ASSUME NEW a \in Attempts PROVE Name(a) \in Names
BY AttemptShape DEF Name, Names

LEMMA InitTypeOK == Init => TypeOK
BY DEF Init, TypeOK, Workflow, NoWorkflow, Steps, Mishaps, Verdicts

LEMMA GotoType ==
    ASSUME TypeOK, NEW a \in Attempts, NEW step \in Steps, Goto(a, step)
    PROVE  pc' \in [Attempts -> Steps]
BY DEF TypeOK, Goto

LEMMA WorkflowType ==
    ASSUME TypeOK, NEW a \in Attempts
    PROVE  /\ [wf EXCEPT ![a].state = "sent"] \in [Attempts -> Workflow]
           /\ \A at \in Nat :
                [wf EXCEPT ![a].state = "queued", ![a].at = at] \in [Attempts -> Workflow]
           /\ \A v \in Verdicts, image \in Images \union {None} :
                [wf EXCEPT ![a].state = "completed", ![a].verdict = v, ![a].image = image]
                  \in [Attempts -> Workflow]
<1>1. wf \in [Attempts -> Workflow] /\ wf[a] \in Workflow
    BY DEF TypeOK
<1>2. [wf[a] EXCEPT !.state = "sent"] \in Workflow
    BY <1>1 DEF Workflow
<1>3. ASSUME NEW at \in Nat
      PROVE  [wf[a] EXCEPT !.state = "queued", !.at = at] \in Workflow
    BY <1>1 DEF Workflow
<1>4. ASSUME NEW v \in Verdicts, NEW image \in Images \union {None}
      PROVE  [wf[a] EXCEPT !.state = "completed", !.verdict = v, !.image = image] \in Workflow
    BY <1>1 DEF Workflow
<1> QED
    BY <1>1, <1>2, <1>3, <1>4

LEMMA NextTypeOK ==
    ASSUME TypeOK, WorkflowsFit, [Next]_vars PROVE TypeOK'
<1> USE DEF TypeOK, caseVars, placeVars, gitVars, timeVars, Steps, Verdicts, Mishaps, Goto, Concludes,
            CouldNotTest
<1>1. ASSUME NEW r \in Runs, Lease(r) \/ Ages(r) PROVE TypeOK'
  <2>1. CASE Lease(r)
    <3>1. epoch[r] + 1 \in 1..MaxAttempts /\ <<r, epoch[r] + 1>> \in Attempts
        BY <2>1 DEF Lease, Attempts
    <3> QED
        BY <2>1, <3>1 DEF Lease
  <2>2. CASE Ages(r)
      BY <2>2 DEF Ages
  <2> QED
      BY <1>1, <2>1, <2>2
<1>2. ASSUME NEW a \in Attempts, Cancel(a) PROVE TypeOK'
    BY <1>2 DEF Cancel
<1>3. ASSUME NEW a \in Attempts, Crash(a) PROVE TypeOK'
    BY <1>3, NameType DEF Crash
<1>4. ASSUME NEW a \in Attempts, Check(a) PROVE TypeOK'
    BY <1>4 DEF Check
<1>5. ASSUME NEW a \in Attempts, StartContainer(a) PROVE TypeOK'
    BY <1>5, NameType DEF StartContainer, Created, CreateFails, CreateAnswerLost
<1>6. ASSUME NEW a \in Attempts, CreateGroup(a) PROVE TypeOK'
    BY <1>6, NameType DEF CreateGroup, Created, CreateFails, CreateAnswerLost
<1>7. ASSUME NEW a \in Attempts, Listen(a) PROVE TypeOK'
    BY <1>7, NameType DEF Listen, Created, CreateFails
<1>8. ASSUME NEW a \in Attempts, Provision(a) PROVE TypeOK'
    BY <1>8 DEF Provision
<1>9. ASSUME NEW a \in Attempts, Ready(a) PROVE TypeOK'
    BY <1>9 DEF Ready
<1>10. ASSUME NEW a \in Attempts, Forward(a) PROVE TypeOK'
  <2>1. target[Name(a)] # None => ImageOf[target[Name(a)][1]] \in Images
      BY NameType, AttemptShape, ImageType
  <2> QED
      BY <1>10, <2>1 DEF Forward
<1>11. ASSUME NEW a \in Attempts, Cleanup(a) PROVE TypeOK'
    BY <1>11, NameType DEF Cleanup
<1>12. ASSUME NEW n \in Names, DeleteLands(n) PROVE TypeOK'
    BY <1>12 DEF DeleteLands
<1>13. ASSUME NEW a \in Attempts, EnsureSecret(a) PROVE TypeOK'
    BY <1>13 DEF EnsureSecret
<1>14. ASSUME NEW a \in Attempts, Relay(a) PROVE TypeOK'
    BY <1>14, AttemptShape, ImageType DEF Relay, Image
<1>15. ASSUME NEW a \in Attempts, Dispatch(a) PROVE TypeOK'
  <2>1. wf' = wf \/ wf' = [wf EXCEPT ![a].state = "sent"]
      BY <1>15 DEF Dispatch
  <2>2. wf' \in [Attempts -> Workflow]
    <3>1. CASE wf' = wf
        BY <3>1
    <3>2. CASE wf' = [wf EXCEPT ![a].state = "sent"]
        BY <3>2, WorkflowType, Zenon
    <3> QED
        BY <2>1, <3>1, <3>2
  <2> QED
      BY <1>15, <2>2, AttemptShape DEF Dispatch
<1>16. ASSUME NEW a \in Attempts, Appears(a) PROVE TypeOK'
  <2>1. listed[a[1]] + 1 \in Nat
      BY AttemptShape
  <2>2. PICK at \in Nat : wf' = [wf EXCEPT ![a].state = "queued", ![a].at = at]
      BY <1>16, <2>1 DEF Appears
  <2>3. wf' \in [Attempts -> Workflow]
      BY <2>2, WorkflowType
  <2> QED
      BY <1>16, <2>1, <2>3 DEF Appears
<1>17. ASSUME NEW a \in Attempts, WorkflowEnds(a) PROVE TypeOK'
  <2>1. Image(a) \in Images /\ pushed[TagOf[Image(a)]] \in Images \union {None}
      BY AttemptShape, ImageType DEF Image
  <2>2. PICK v \in Verdicts, image \in Images \union {None} :
          wf' = [wf EXCEPT ![a].state = "completed", ![a].verdict = v, ![a].image = image]
      BY <1>17, <2>1 DEF WorkflowEnds
  <2>3. wf' \in [Attempts -> Workflow]
      BY <2>2, WorkflowType
  <2> QED
      BY <1>17, <2>3 DEF WorkflowEnds
<1>18. ASSUME NEW a \in Attempts, FindRun(a) PROVE TypeOK'
    BY <1>18 DEF FindRun
<1>19. ASSUME NEW a \in Attempts, WaitRun(a) \/ PollFails(a) PROVE TypeOK'
    BY <1>19 DEF WaitRun, PollFails
<1>20. ASSUME NEW a \in Attempts, FetchResult(a) PROVE TypeOK'
  <2>1. wf[found[a]] \in Workflow
      BY <1>20 DEF FetchResult, WorkflowsFit
  <2>2. wf[found[a]].verdict \in Verdicts /\ wf[found[a]].image \in Images \union {None}
      BY <2>1 DEF Workflow
  <2> QED
      BY <1>20, <2>2 DEF FetchResult
<1>21. ASSUME NEW a \in Attempts, ContainerExits(a) PROVE TypeOK'
    BY <1>21, NameType DEF ContainerExits
<1>22. ASSUME NEW i \in Images, OthersRelay(i) PROVE TypeOK'
    BY <1>22 DEF OthersRelay, Tags
<1>23. ASSUME UNCHANGED vars PROVE TypeOK'
    BY <1>23 DEF vars
<1> QED
    BY <1>1, <1>2, <1>3, <1>4, <1>5, <1>6, <1>7, <1>8, <1>9, <1>10, <1>11, <1>12, <1>13,
       <1>14, <1>15, <1>16, <1>17, <1>18, <1>19, <1>20, <1>21, <1>22, <1>23
    DEF Next, Execute, InContainer, OnGitHub, ThroughRegistry, Settled

----------------------------------------------------------------------------
(* Leases and steps *)

LEMMA NextStepsFit ==
    ASSUME ScenarioInv, [Next]_vars PROVE LeasesFit' /\ StepsFit'
<1> USE DEF ScenarioInv, TypeOK, LeasesFit, StepsFit, Mode, caseVars, Goto, Concludes, CouldNotTest,
            Holding, Contained, Running
<1>1. ASSUME NEW r \in Runs, Lease(r) PROVE LeasesFit' /\ StepsFit'
  <2> DEFINE b == <<r, epoch[r] + 1>>
  <2>1. b \in Attempts /\ b[1] = r /\ b[2] = epoch[r] + 1
      BY <1>1 DEF Lease, Attempts
  <2>2. ASSUME NEW a \in Attempts PROVE a = b <=> a[1] = r /\ a[2] = epoch[r] + 1
      BY AttemptShape
  <2>3. /\ pc' = [pc EXCEPT ![b] = "check"] /\ epoch' = [epoch EXCEPT ![r] = epoch[r] + 1]
        /\ mode' = mode /\ epoch[r] \in Nat
      BY <1>1 DEF Lease
  <2>4. ASSUME NEW a \in Attempts PROVE pc'[a] = "waiting" <=> epoch'[a[1]] < a[2]
    <3>1. a[1] \in Runs /\ a[2] \in Nat /\ (pc[a] = "waiting" <=> epoch[a[1]] < a[2])
        BY AttemptShape
    <3>2. CASE a = b
        BY <2>1, <2>3, <3>2
    <3>3. CASE a # b /\ a[1] = r
      <4>1. /\ pc'[a] = pc[a] /\ epoch'[a[1]] = epoch[a[1]] + 1
            /\ a[2] # epoch[a[1]] + 1 /\ epoch[a[1]] \in Nat
          BY <2>2, <2>3, <3>1, <3>3
      <4>2. epoch[a[1]] < a[2] <=> epoch[a[1]] + 1 < a[2]
          BY ONLY <3>1, <4>1, StrictlyAbove
      <4> QED
          BY <3>1, <4>1, <4>2
    <3>4. CASE a[1] # r
        BY <2>1, <2>3, <3>1, <3>4
    <3> QED
        BY <3>2, <3>3, <3>4
  <2>5. StepsFit'
      BY <2>3
  <2> QED
      BY <2>4, <2>5
<1>2. ASSUME NEW a \in Attempts, Cancel(a) \/ Appears(a) \/ WorkflowEnds(a)
      PROVE  LeasesFit' /\ StepsFit'
    BY <1>2 DEF Cancel, Appears, WorkflowEnds
<1>3. ASSUME NEW a \in Attempts, Crash(a) PROVE LeasesFit' /\ StepsFit'
    BY <1>3 DEF Crash
<1>4. ASSUME NEW a \in Attempts, Check(a) PROVE LeasesFit' /\ StepsFit'
  <2>1. mode[a[1]] \in AllModes
      BY AttemptShape
  <2> QED
      BY <1>4, <2>1 DEF Check, Refused, AllModes, Remote
<1>5. ASSUME NEW a \in Attempts, StartContainer(a) \/ CreateGroup(a) \/ Listen(a)
      PROVE  LeasesFit' /\ StepsFit'
    BY <1>5 DEF StartContainer, CreateGroup, Listen, Created, CreateFails, CreateAnswerLost
<1>6. ASSUME NEW a \in Attempts, Provision(a) \/ Ready(a) \/ Forward(a) \/ Cleanup(a)
      PROVE  LeasesFit' /\ StepsFit'
    BY <1>6 DEF Provision, Ready, Forward, Cleanup
<1>7. ASSUME NEW n \in Names, DeleteLands(n) PROVE LeasesFit' /\ StepsFit'
    BY <1>7 DEF DeleteLands
<1>8. ASSUME NEW a \in Attempts, ThroughRegistry(a) PROVE LeasesFit' /\ StepsFit'
    BY <1>8 DEF ThroughRegistry, EnsureSecret, Relay
<1>9. ASSUME NEW a \in Attempts, OnGitHub(a) \/ PollFails(a) PROVE LeasesFit' /\ StepsFit'
    BY <1>9 DEF OnGitHub, Dispatch, FindRun, WaitRun, FetchResult, PollFails
<1>10. ASSUME \/ \E r \in Runs : Ages(r)
              \/ \E a \in Attempts : ContainerExits(a)
              \/ \E i \in Images : OthersRelay(i)
              \/ UNCHANGED vars
       PROVE  LeasesFit' /\ StepsFit'
    BY <1>10 DEF Ages, ContainerExits, OthersRelay, vars
<1> QED
    BY <1>1, <1>2, <1>3, <1>4, <1>5, <1>6, <1>7, <1>8, <1>9, <1>10
    DEF Next, Execute, InContainer, Settled

----------------------------------------------------------------------------
(* Targets.  A step of an attempt leaves the places alone, creates a target   *)
(* or takes targets away.                                                    *)

PlacesFit == TargetsFit /\ LeaksAreMishaps /\ TargetsAreKept

\* Attempt a moves on; its target, if it has one, is not touched.
Stays(a) ==
    /\ UNCHANGED <<mode, target, deleting>>
    /\ \A b \in Attempts : b # a => pc'[b] = pc[b] /\ mishap'[b] = mishap[b]
    /\ \/ mishap'[a] = mishap[a]
       \/ mishap'[a] # "none" /\ pc[a] \notin Holding /\ pc'[a] \in {"done", "dead"}
    /\ pc[a] \in Holding <=> pc'[a] \in Holding
    /\ pc[a] \notin Early => pc'[a] \notin Early
    /\ pc[a] \in {"done", "dead"} => pc'[a] = pc[a]

\* Names are shared only by attempts of one run on a network or in a group.
LEMMA NamesAreOwn ==
    ASSUME NEW a \in Attempts, NEW b \in Attempts, Name(a) = Name(b), a # b
    PROVE  a[1] = b[1] /\ Mode(a) \in {"local-network", "aci"} /\ Mode(b) = Mode(a)
BY AttemptShape DEF Name, Mode

LEMMA StaysStep ==
    ASSUME ScenarioInv, NEW a \in Attempts, Stays(a) PROVE PlacesFit'
<1> USE DEF ScenarioInv, TypeOK
<1>1. \A b \in Attempts : Name(b)' = Name(b) /\ Mode(b)' = Mode(b)
    BY DEF Stays, Name, Mode
<1>2. TargetsFit'
    BY <1>1, NameType DEF Stays, TargetsFit, Holding, Early
<1>3. LeaksAreMishaps'
    BY <1>2 DEF Stays, LeaksAreMishaps, TargetsFit, Running, Holding
<1>4. TargetsAreKept'
    BY <1>1 DEF Stays, TargetsAreKept, Holding, Early
<1> QED
    BY <1>2, <1>3, <1>4 DEF PlacesFit

\* Attempt a creates a target, and holds it or loses the answer.
Makes(a) ==
    /\ UNCHANGED <<mode, deleting>>
    /\ pc[a] = "create" /\ ~NameTaken(a)
    /\ target' = [target EXCEPT ![Name(a)] = a]
    /\ \A b \in Attempts : b # a => pc'[b] = pc[b] /\ mishap'[b] = mishap[b]
    /\ \/ pc'[a] \in Holding \ {"cleanup"} /\ mishap'[a] = mishap[a]
       \/ pc'[a] = "done" /\ mishap'[a] # "none"

LEMMA MakesStep ==
    ASSUME ScenarioInv, NEW a \in Attempts, Makes(a) PROVE PlacesFit'
<1> USE DEF ScenarioInv, TypeOK
<1>1. \A b \in Attempts : Name(b)' = Name(b) /\ Mode(b)' = Mode(b)
    BY DEF Makes, Name, Mode
<1>2. Name(a) \in Names /\ a # None
    BY NameType, AttemptShape
<1>3. TargetsFit'
    BY <1>1, <1>2 DEF Makes, TargetsFit, Holding
<1>4. LeaksAreMishaps'
    BY <1>2, <1>3 DEF Makes, LeaksAreMishaps, TargetsFit, Running, Holding
<1>5. TargetsAreKept'
  <2> SUFFICES ASSUME NEW b \in Attempts, pc'[b] \in Holding
               PROVE  \/ target'[Name(b)] = b
                      \/ Mode(b) \in {"local", "local-network"} /\ mishap'[b] = "exited"
                      \/ /\ Mode(b) = "aci"
                         /\ \E c \in Attempts \ {b} : c[1] = b[1] /\ pc'[c] \notin Early
      BY <1>1 DEF TargetsAreKept, Holding, Early
  <2>1. CASE b = a
      BY <1>2, <2>1 DEF Makes
  <2>2. CASE b # a /\ Name(b) # Name(a)
    <3>1. pc'[b] = pc[b] /\ target'[Name(b)] = target[Name(b)] /\ mishap'[b] = mishap[b]
        BY <2>2, NameType DEF Makes
    <3>2. \A c \in Attempts : pc[c] \notin Early => pc'[c] \notin Early
        BY DEF Makes, Early
    <3> QED
        BY <3>1, <3>2 DEF TargetsAreKept, Holding, Early
  <2>3. CASE b # a /\ Name(b) = Name(a)
    <3>1. a[1] = b[1] /\ Mode(a) \in {"local-network", "aci"} /\ Mode(b) = Mode(a)
        BY <2>3, NamesAreOwn
    <3>2. pc[b] \in Holding /\ b # None
        BY <2>3, AttemptShape DEF Makes
    <3>3. Mode(b) = "aci" \/ (Mode(b) \in {"local", "local-network"} /\ mishap[b] = "exited")
        BY <1>2, <2>3, <3>1, <3>2 DEF Makes, NameTaken, TargetsAreKept, Holding
    <3> QED
        BY <2>3, <3>1, <3>3 DEF Makes, Holding, Early
  <2> QED
      BY <2>1, <2>2, <2>3
<1> QED
    BY <1>3, <1>4, <1>5 DEF PlacesFit

\* A name loses the target of an attempt that ends, of one whose container exits,
\* or of no matter whom when a container group is deleted under its name.
Drops(a, n) ==
    /\ UNCHANGED mode
    /\ n \in Names /\ target' = [target EXCEPT ![n] = None]
    /\ \A b \in Attempts : b # a => pc'[b] = pc[b] /\ mishap'[b] = mishap[b]
    /\ \/ /\ deleting' = deleting
          /\ n = Name(a) /\ pc'[a] \in {"done", "dead"} /\ pc[a] \notin {"done", "dead"}
          /\ target[n] = a \/ Mode(a) = "inmemory"
       \/ /\ n \in deleting /\ deleting' = deleting \ {n}
          /\ pc'[a] = pc[a] /\ mishap'[a] = mishap[a]
       \/ /\ deleting' = deleting
          /\ n = Name(a) /\ target[n] = a /\ pc'[a] = pc[a]
          /\ Mode(a) \in {"local", "local-network"}
          /\ mishap'[a] = IF mishap[a] = "none" THEN "exited" ELSE mishap[a]

\* An attempt that loses its target this way is in a group of its run in which
\* another attempt has finished.
LEMMA DropsStep ==
    ASSUME ScenarioInv, NEW a \in Attempts, NEW n, Drops(a, n) PROVE PlacesFit'
<1> USE DEF ScenarioInv, TypeOK
<1>1. \A b \in Attempts : Name(b)' = Name(b) /\ Mode(b)' = Mode(b)
    BY DEF Drops, Name, Mode
<1>2. \A b \in Attempts : pc[b] \notin Early => pc'[b] \notin Early
    BY DEF Drops, Early
<1>3. \A b \in Attempts : pc[b] = "done" => pc'[b] = "done"
    BY DEF Drops
<1>4. \A b \in Attempts : b # a => pc'[b] = pc[b]
    BY DEF Drops
<1>5. pc'[a] = pc[a] \/ pc'[a] \in {"done", "dead"}
    BY DEF Drops
<1>6. TargetsFit'
    BY <1>1, <1>3, <1>4, <1>5 DEF Drops, TargetsFit
<1>7. LeaksAreMishaps'
  <2> SUFFICES ASSUME NEW m \in Names, target'[m] # None, m \notin deleting'
               PROVE  Running(target[m])' \/ mishap'[target[m]] # "none"
      BY DEF Drops, LeaksAreMishaps
  <2>1. m # n /\ target'[m] = target[m] /\ m \notin deleting
      BY DEF Drops
  <2>2. target[m] \in Attempts /\ Name(target[m]) = m
      BY <2>1 DEF TargetsFit
  <2>3. CASE target[m] # a
      BY <2>1, <2>2, <2>3 DEF Drops, LeaksAreMishaps, Running
  <2>4. CASE target[m] = a
      BY <2>1, <2>2, <2>4 DEF Drops, LeaksAreMishaps, Running
  <2> QED
      BY <2>3, <2>4
<1>8. TargetsAreKept'
  <2> SUFFICES ASSUME NEW b \in Attempts, pc'[b] \in Holding
               PROVE  \/ target'[Name(b)] = b
                      \/ Mode(b) \in {"local", "local-network"} /\ mishap'[b] = "exited"
                      \/ /\ Mode(b) = "aci"
                         /\ \E c \in Attempts \ {b} : c[1] = b[1] /\ pc'[c] \notin Early
      BY <1>1 DEF TargetsAreKept, Holding, Early
  <2>1. pc[b] \in Holding
      BY <1>4, <1>5 DEF Holding
  <2>2. CASE Name(b) # n \/ target[n] # b
      BY <1>2, <2>1, <2>2, NameType DEF Drops, TargetsAreKept, Holding, Early
  <2>3. CASE Name(b) = n /\ target[n] = b
    <3>1. CASE n \in deleting
      <4>1. PICK c \in Attempts : Name(c) = n /\ Mode(c) = "aci" /\ pc[c] = "done"
          BY <3>1 DEF TargetsFit
      <4>2. c # b
          BY <2>1, <4>1 DEF Holding
      <4>3. c[1] = b[1] /\ Mode(b) = "aci"
          BY <2>3, <4>1, <4>2, NamesAreOwn
      <4> QED
          BY <1>3, <4>1, <4>2, <4>3 DEF Early
    <3>2. CASE n \notin deleting /\ pc'[a] # pc[a]
      <4>1. n = Name(a) /\ pc'[a] \in {"done", "dead"} /\ (target[n] = a \/ Mode(a) = "inmemory")
          BY <3>2 DEF Drops
      <4>2. b # a
          BY <4>1 DEF Holding
      <4>3. Mode(a) = "inmemory"
          BY <2>3, <4>1, <4>2
      <4> QED
          BY <2>3, <4>1, <4>2, <4>3, NamesAreOwn
    <3>3. CASE pc'[a] = pc[a] /\ n = Name(a) /\ target[n] = a /\ n \notin deleting
      <4>1. b = a /\ Mode(b) \in {"local", "local-network"} /\ mishap[b] \in {"none", "exited"}
          BY <2>1, <2>3, <3>3 DEF Drops, TargetsFit, Holding
      <4> QED
          BY <3>3, <4>1 DEF Drops
    <3> QED
        BY <3>1, <3>2, <3>3 DEF Drops
  <2> QED
      BY <2>2, <2>3
<1> QED
    BY <1>6, <1>7, <1>8 DEF PlacesFit

\* Attempt a ends with a mishap and leaves what it created, if it is still there.
Leaves(a) ==
    /\ UNCHANGED <<mode, target, deleting>>
    /\ \A b \in Attempts : b # a => pc'[b] = pc[b] /\ mishap'[b] = mishap[b]
    /\ pc[a] \notin {"done", "dead"} /\ pc'[a] \in {"done", "dead"}
    /\ mishap'[a] # "none"

\* Azure accepts the delete of the group attempt a tested in.
Deletes(a) ==
    /\ UNCHANGED <<mode, target, mishap>>
    /\ \A b \in Attempts : b # a => pc'[b] = pc[b]
    /\ pc[a] = "cleanup" /\ Mode(a) = "aci" /\ pc'[a] = "done"
    /\ deleting' = deleting \union {Name(a)}

LEMMA EndsStep ==
    ASSUME ScenarioInv, NEW a \in Attempts, Leaves(a) \/ Deletes(a) PROVE PlacesFit'
<1> USE DEF ScenarioInv, TypeOK
<1>1. \A b \in Attempts : Name(b)' = Name(b) /\ Mode(b)' = Mode(b)
    BY DEF Leaves, Deletes, Name, Mode
<1>2. \A b \in Attempts : pc[b] \notin Early => pc'[b] \notin Early
    BY DEF Leaves, Deletes, Early
<1>3. TargetsFit'
    BY <1>1, NameType DEF Leaves, Deletes, TargetsFit, Holding
<1>4. LeaksAreMishaps'
    BY <1>3 DEF Leaves, Deletes, LeaksAreMishaps, TargetsFit, Running
<1>5. TargetsAreKept'
    BY <1>1, <1>2 DEF Leaves, Deletes, TargetsAreKept, Early
<1> QED
    BY <1>3, <1>4, <1>5 DEF PlacesFit

LEMMA NextPlacesFit ==
    ASSUME ScenarioInv, [Next]_vars PROVE PlacesFit'
<1> USE DEF ScenarioInv, TypeOK, caseVars, placeVars, gitVars, timeVars, Goto, Concludes, CouldNotTest,
            Holding, Early, Running
<1>1. ASSUME NEW r \in Runs, Lease(r) PROVE PlacesFit'
  <2> DEFINE b == <<r, epoch[r] + 1>>
  <2>1. b \in Attempts /\ pc[b] = "waiting"
      BY <1>1 DEF Lease, Attempts, LeasesFit
  <2>2. Stays(b)
      BY <1>1, <2>1 DEF Lease, Stays
  <2> QED
      BY <2>1, <2>2, StaysStep
<1>2. ASSUME NEW a \in Attempts, Cancel(a) \/ Appears(a) \/ WorkflowEnds(a) PROVE PlacesFit'
  <2>1. Stays(a)
      BY <1>2 DEF Cancel, Appears, WorkflowEnds, Stays
  <2> QED
      BY <2>1, StaysStep
<1>3. ASSUME NEW a \in Attempts, Crash(a) PROVE PlacesFit'
  <2>1. CASE Mode(a) = "inmemory"
    <3>1. Drops(a, Name(a))
        BY <1>3, <2>1, NameType DEF Crash, Drops
    <3> QED
        BY <3>1, DropsStep
  <2>2. CASE Mode(a) # "inmemory"
    <3>1. Leaves(a)
        BY <1>3, <2>2 DEF Crash, Leaves
    <3> QED
        BY <3>1, EndsStep
  <2> QED
      BY <2>1, <2>2
<1>4. ASSUME NEW a \in Attempts, Check(a) \/ EnsureSecret(a) \/ Relay(a) PROVE PlacesFit'
  <2>1. Stays(a)
      BY <1>4 DEF Check, EnsureSecret, Relay, Stays
  <2> QED
      BY <2>1, StaysStep
<1>5. ASSUME NEW a \in Attempts, StartContainer(a) \/ CreateGroup(a) \/ Listen(a)
      PROVE  PlacesFit'
  <2>1. Makes(a) \/ Stays(a)
      BY <1>5 DEF StartContainer, CreateGroup, Listen, Created, CreateFails, CreateAnswerLost,
                  NameTaken, Makes, Stays
  <2> QED
      BY <2>1, MakesStep, StaysStep
<1>6. ASSUME NEW a \in Attempts, Provision(a) \/ Ready(a) \/ Forward(a) PROVE PlacesFit'
  <2>1. Stays(a)
      BY <1>6 DEF Provision, Ready, Forward, Stays
  <2> QED
      BY <2>1, StaysStep
<1>7. ASSUME NEW a \in Attempts, Cleanup(a) PROVE PlacesFit'
  <2>1. CASE Mode(a) = "aci" /\ deleting' = deleting \union {Name(a)}
             /\ UNCHANGED <<target, mishap>>
    <3>1. Deletes(a)
        BY <1>7, <2>1 DEF Cleanup, Deletes
    <3> QED
        BY <3>1, EndsStep
  <2>2. CASE mishap' = [mishap EXCEPT ![a] = "delete-failed"] /\ UNCHANGED placeVars
    <3>1. Leaves(a)
        BY <1>7, <2>2 DEF Cleanup, Leaves
    <3> QED
        BY <3>1, EndsStep
  <2>3. CASE Mode(a) # "aci" /\ UNCHANGED <<deleting, mishap>>
             /\ target' = [target EXCEPT ![Name(a)] = IF @ = a THEN None ELSE @]
    <3>1. CASE target[Name(a)] = a
      <4>1. Drops(a, Name(a))
          BY <1>7, <2>3, <3>1, NameType DEF Cleanup, Drops
      <4> QED
          BY <4>1, DropsStep
    <3>2. CASE target[Name(a)] # a
      <4>1. mishap[a] = "exited"
          BY <1>7, <2>3, <3>2 DEF Cleanup, TargetsAreKept
      <4>2. target' = target
          BY <2>3, <3>2, NameType
      <4>3. Leaves(a)
          BY <1>7, <2>3, <4>1, <4>2 DEF Cleanup, Leaves
      <4> QED
          BY <4>3, EndsStep
    <3> QED
        BY <3>1, <3>2
  <2> QED
      BY <1>7, <2>1, <2>2, <2>3 DEF Cleanup
<1>8. ASSUME NEW n \in Names, DeleteLands(n) PROVE PlacesFit'
  <2>1. PICK a \in Attempts : pc[a] = "done"
      BY <1>8 DEF DeleteLands, TargetsFit
  <2>2. Drops(a, n)
      BY <1>8 DEF DeleteLands, Drops
  <2> QED
      BY <2>2, DropsStep
<1>9. ASSUME NEW a \in Attempts, OnGitHub(a) \/ PollFails(a) PROVE PlacesFit'
  <2>1. Stays(a)
      BY <1>9 DEF OnGitHub, Dispatch, FindRun, WaitRun, FetchResult, PollFails, Stays
  <2> QED
      BY <2>1, StaysStep
<1>10. ASSUME NEW a \in Attempts, ContainerExits(a) PROVE PlacesFit'
  <2>1. Drops(a, Name(a))
      BY <1>10, NameType, AttemptShape DEF ContainerExits, Drops
  <2> QED
      BY <2>1, DropsStep
<1>11. ASSUME \/ \E r \in Runs : Ages(r)
              \/ \E i \in Images : OthersRelay(i)
              \/ UNCHANGED vars
       PROVE  PlacesFit'
  <2>1. UNCHANGED <<mode, pc, target, deleting, mishap>>
      BY <1>11 DEF Ages, OthersRelay, vars
  <2> QED
      BY <2>1 DEF PlacesFit, TargetsFit, LeaksAreMishaps, TargetsAreKept, Name, Mode
<1> QED
    BY <1>1, <1>2, <1>3, <1>4, <1>5, <1>6, <1>7, <1>8, <1>9, <1>10, <1>11
    DEF Next, Execute, InContainer, ThroughRegistry, Settled

----------------------------------------------------------------------------
(* Workflows *)

LEMMA NextWorkflowsFit ==
    ASSUME ScenarioInv, [Next]_vars PROVE WorkflowsFit' /\ NoStaleResult'
<1> USE DEF ScenarioInv, TypeOK, caseVars, placeVars, gitVars, timeVars, Goto, Concludes, CouldNotTest,
            WorkflowsFit, NoStaleResult, Undispatched, Running

\* The workflows stay, and only attempt a moves, not to where a workflow matters.
<1> DEFINE Beside(a) ==
      /\ UNCHANGED <<wf, aged, outset, since, found>>
      /\ \A b \in Attempts : b # a => pc'[b] = pc[b]
      /\ pc'[a] = "waiting" => pc[a] = "waiting"
      /\ pc'[a] \in Undispatched => pc[a] \in Undispatched
      /\ pc'[a] = "find" => pc[a] = "find"
      /\ pc'[a] \in {"wait", "fetch"} => pc[a] \in {"wait", "fetch"}
<1>0. ASSUME NEW a \in Attempts, Beside(a) PROVE WorkflowsFit' /\ NoStaleResult'
    BY <1>0
<1>1. ASSUME NEW r \in Runs, Lease(r) PROVE WorkflowsFit' /\ NoStaleResult'
  <2> DEFINE b == <<r, epoch[r] + 1>>
  <2>1. b \in Attempts /\ b[1] = r /\ pc[b] = "waiting" /\ found[b] = None
      BY <1>1 DEF Lease, Attempts, LeasesFit
  <2>2. /\ pc' = [pc EXCEPT ![b] = "check"] /\ outset' = [outset EXCEPT ![b] = aged[r]]
        /\ UNCHANGED <<wf, aged, since, found>>
      BY <1>1 DEF Lease
  <2> HIDE DEF b
  <2>3. /\ outset'[b] = aged[b[1]] /\ pc'[b] = "check"
        /\ \A a \in Attempts : a # b => outset'[a] = outset[a] /\ pc'[a] = pc[a]
      BY <2>1, <2>2
  <2>4. ASSUME NEW a \in Attempts PROVE outset'[a] <= aged[a[1]]
      BY <2>1, <2>3, AttemptShape
  <2> QED
      BY <2>1, <2>2, <2>3, <2>4
<1>2. ASSUME NEW a \in Attempts, Cancel(a) \/ Crash(a) \/ Check(a) PROVE WorkflowsFit' /\ NoStaleResult'
  <2>1. Beside(a)
      BY <1>2 DEF Cancel, Crash, Check
  <2> QED
      BY <2>1, <1>0
<1>3. ASSUME NEW a \in Attempts, InContainer(a) PROVE WorkflowsFit' /\ NoStaleResult'
  <2>1. Beside(a)
      BY <1>3 DEF InContainer, StartContainer, CreateGroup, Listen, Created, CreateFails,
                  CreateAnswerLost, Provision, Ready, Forward, Cleanup
  <2> QED
      BY <2>1, <1>0
<1>4. ASSUME \/ \E n \in Names : DeleteLands(n)
             \/ \E a \in Attempts : ContainerExits(a)
             \/ \E i \in Images : OthersRelay(i)
             \/ UNCHANGED vars
      PROVE  WorkflowsFit' /\ NoStaleResult'
  <2>1. UNCHANGED <<wf, aged, outset, since, found, pc>>
      BY <1>4 DEF DeleteLands, ContainerExits, OthersRelay, vars
  <2> QED
      BY <2>1
<1>5. ASSUME NEW a \in Attempts, ThroughRegistry(a) \/ WaitRun(a) \/ PollFails(a) \/ FetchResult(a)
      PROVE  WorkflowsFit' /\ NoStaleResult'
  <2>1. Beside(a)
      BY <1>5 DEF ThroughRegistry, EnsureSecret, Relay, WaitRun, PollFails, FetchResult
  <2> QED
      BY <2>1, <1>0
<1>6. ASSUME NEW a \in Attempts, Dispatch(a) PROVE WorkflowsFit' /\ NoStaleResult'
  <2>1. outset[a] <= aged[a[1]] /\ pc[a] = "dispatch" /\ wf[a].state = "none"
      BY <1>6 DEF Dispatch
  <2>2. \A b \in Attempts : b # a => wf'[b] = wf[b] /\ since'[b] = since[b] /\ pc'[b] = pc[b]
      BY <1>6 DEF Dispatch
  <2>3. /\ since'[a] = aged[a[1]] /\ pc'[a] \in {"find", "done"}
        /\ UNCHANGED <<found, aged, outset>>
      BY <1>6 DEF Dispatch
  <2>4. \A b \in Attempts : found[b] # None => found[b] # a
      BY <2>1
  <2> QED
      BY <2>1, <2>2, <2>3, <2>4
<1>7. ASSUME NEW a \in Attempts, Appears(a) PROVE WorkflowsFit' /\ NoStaleResult'
  <2>1. \A b \in Attempts : b # a => wf'[b] = wf[b]
      BY <1>7 DEF Appears
  <2>2. wf[a].state = "sent" /\ UNCHANGED <<pc, aged, outset, since, found>>
      BY <1>7 DEF Appears
  <2>3. \A b \in Attempts : found[b] # None => found[b] # a
      BY <2>2
  <2> QED
      BY <2>1, <2>2, <2>3
<1>8. ASSUME NEW a \in Attempts, WorkflowEnds(a) PROVE WorkflowsFit' /\ NoStaleResult'
  <2>1. \A b \in Attempts : b # a => wf'[b] = wf[b]
      BY <1>8 DEF WorkflowEnds
  <2>2. wf'[a].state = "completed" /\ wf'[a].at = wf[a].at
      BY <1>8 DEF WorkflowEnds, Workflow
  <2>3. wf[a].state = "queued" /\ UNCHANGED <<pc, aged, outset, since, found>>
      BY <1>8 DEF WorkflowEnds
  <2> QED
      BY <2>1, <2>2, <2>3
<1>9. ASSUME NEW a \in Attempts, FindRun(a) PROVE WorkflowsFit' /\ NoStaleResult'
  <2>1. UNCHANGED <<wf, aged, outset, since>> /\ pc[a] = "find" /\ since[a] >= outset[a]
      BY <1>9 DEF FindRun
  <2>2. \A b \in Attempts : b # a => pc'[b] = pc[b] /\ found'[b] = found[b]
      BY <1>9 DEF FindRun
  <2>3. CASE found' = found /\ pc'[a] = "done"
      BY <2>1, <2>2, <2>3
  <2>4. CASE \E b \in Attempts : CandidateRun(a, b) /\ found'[a] = b /\ pc'[a] = "wait"
    <3>1. PICK b \in Attempts : CandidateRun(a, b) /\ found'[a] = b /\ pc'[a] = "wait"
        BY <2>4
    <3>2. wf[b].state \in {"queued", "completed"} /\ b[1] = a[1] /\ wf[b].at > outset[a] /\ b # None
      <4>1. wf[b].at \in Nat /\ since[a] \in Nat /\ outset[a] \in Nat
          BY DEF Workflow
      <4> QED
          BY <2>1, <3>1, <4>1, AttemptShape DEF CandidateRun
    <3> QED
        BY <2>1, <2>2, <3>1, <3>2
  <2> QED
      BY <1>9, <2>3, <2>4 DEF FindRun
<1>10. ASSUME NEW r \in Runs, Ages(r) PROVE WorkflowsFit' /\ NoStaleResult'
  <2>1. /\ UNCHANGED <<wf, outset, since, found, pc>>
        /\ aged' = [aged EXCEPT ![r] = aged[r] + 1]
      BY <1>10 DEF Ages
  <2>2. ASSUME NEW a \in Attempts PROVE outset[a] <= aged'[a[1]]
      BY <2>1, AttemptShape
  <2> QED
      BY <2>1, <2>2
<1> QED
    BY <1>1, <1>2, <1>3, <1>4, <1>5, <1>6, <1>7, <1>8, <1>9, <1>10
    DEF Next, Execute, OnGitHub, Settled

----------------------------------------------------------------------------
(* Verdicts *)

\* A verdict v, with an answer of image i, is one the rule and the app gave.
Observed(a, v, i) ==
    /\ v = "blocked" => fires[a[1]]
    /\ v = "not-blocked" => ~fires[a[1]] /\ (Mode(a) = "firewall" \/ AnsweredFor(a, i))

\* The registry has an image under the tag of attempt a.
Relayed(a) == LET t == TagOf[Image(a)] IN pushed[t] \in Images /\ TagOf[pushed[t]] = t

\* Every verdict on its way is observed: by an attempt that still has to ask the
\* app, by a workflow that ended, and by what an attempt concluded.
ObservedInv ==
    \A a \in Attempts :
        /\ Observed(a, verdict[a], answered[a])
        /\ pc[a] = "forward" => ~fires[a[1]]
        /\ Mode(a) = "github-ghcr" /\ (pc[a] = "dispatch" \/ wf[a].state # "none") => Relayed(a)
        /\ wf[a].state = "completed" => Observed(a, wf[a].verdict, wf[a].image)
        /\ pc[a] = "fetch" => wf[found[a]].state = "completed"

LEMMA SameRunSame ==
    ASSUME NEW a \in Attempts, NEW b \in Attempts, b[1] = a[1], NEW v, NEW i,
           Observed(b, v, i)
    PROVE  Observed(a, v, i)
BY DEF Observed, AnsweredFor, Mode, Image

\* A step that gives no attempt a verdict, ends no workflow and relays nothing.
Silent ==
    /\ UNCHANGED <<caseVars, pushed>>
    /\ \A a \in Attempts :
        /\ answered'[a] = answered[a] /\ verdict'[a] \in {verdict[a], "could-not-test"}
        /\ pc'[a] = "forward" => pc[a] = "forward" \/ ~fires[a[1]]
        /\ pc'[a] = "dispatch" => pc[a] = "dispatch" \/ Mode(a) # "github-ghcr"
        /\ pc'[a] = "fetch" =>
             found'[a] = found[a] /\ found[a] \in Attempts /\ wf[found[a]].state = "completed"
        /\ \/ wf'[a] = wf[a]
           \/ /\ wf'[a].state # "completed" /\ wf[a].state # "completed"
              /\ wf[a].state # "none" \/ pc[a] = "dispatch"

LEMMA SilentKeepsObserved ==
    ASSUME ScenarioInv, ObservedInv, Silent PROVE ObservedInv'
<1> SUFFICES ASSUME NEW a \in Attempts
             PROVE  /\ Observed(a, verdict[a], answered[a])'
                    /\ (pc[a] = "forward" => ~fires[a[1]])'
                    /\ (Mode(a) = "github-ghcr" /\ (pc[a] = "dispatch" \/ wf[a].state # "none")
                          => Relayed(a))'
                    /\ (wf[a].state = "completed" => Observed(a, wf[a].verdict, wf[a].image))'
                    /\ (pc[a] = "fetch" => wf[found[a]].state = "completed")'
    BY DEF ObservedInv
<1>1. Mode(a)' = Mode(a) /\ fires' = fires /\ pushed' = pushed
      /\ \A v, i : Observed(a, v, i)' <=> Observed(a, v, i)
    BY DEF Silent, caseVars, Mode, Image, Observed, AnsweredFor
<1>2. Observed(a, verdict[a], answered[a])'
  <2>1. Observed(a, verdict'[a], answered'[a])
      BY DEF Silent, ObservedInv, Observed
  <2> QED
      BY <1>1, <2>1 DEF Observed, AnsweredFor, Mode, Image
<1>3. (pc[a] = "forward" => ~fires[a[1]])'
    BY <1>1 DEF Silent, ObservedInv
<1>4. (Mode(a) = "github-ghcr" /\ (pc[a] = "dispatch" \/ wf[a].state # "none") => Relayed(a))'
  <2> SUFFICES ASSUME Mode(a) = "github-ghcr", pc'[a] = "dispatch" \/ wf'[a].state # "none"
               PROVE  Relayed(a)'
      BY <1>1
  <2>1. pc[a] = "dispatch" \/ wf[a].state # "none"
      BY DEF Silent
  <2>2. Relayed(a)
      BY <2>1 DEF ObservedInv
  <2> QED
      BY <1>1, <2>2 DEF Relayed, Image
<1>5. (wf[a].state = "completed" => Observed(a, wf[a].verdict, wf[a].image))'
  <2> SUFFICES ASSUME wf'[a].state = "completed"
               PROVE  Observed(a, wf'[a].verdict, wf'[a].image)
      BY <1>1 DEF Observed, AnsweredFor, Mode, Image
  <2> QED
      BY DEF Silent, ObservedInv
<1>6. (pc[a] = "fetch" => wf[found[a]].state = "completed")'
  <2> SUFFICES ASSUME pc'[a] = "fetch" PROVE wf'[found'[a]].state = "completed"
      OBVIOUS
  <2> QED
      BY DEF Silent
<1> QED
    BY <1>2, <1>3, <1>4, <1>5, <1>6

\* A step in which attempt a concludes with an observed verdict.
LEMMA ConcludingKeepsObserved ==
    ASSUME ScenarioInv, ObservedInv, NEW a \in Attempts, NEW v, NEW i,
           Observed(a, v, i), UNCHANGED <<caseVars, gitVars>>,
           verdict' = [verdict EXCEPT ![a] = v], answered' = [answered EXCEPT ![a] = i],
           \A b \in Attempts : b # a => pc'[b] = pc[b],
           pc'[a] \in {"cleanup", "done"}
    PROVE  ObservedInv'
<1> SUFFICES ASSUME NEW b \in Attempts
             PROVE  /\ Observed(b, verdict[b], answered[b])'
                    /\ (pc[b] = "forward" => ~fires[b[1]])'
                    /\ (Mode(b) = "github-ghcr" /\ (pc[b] = "dispatch" \/ wf[b].state # "none")
                          => Relayed(b))'
                    /\ (wf[b].state = "completed" => Observed(b, wf[b].verdict, wf[b].image))'
                    /\ (pc[b] = "fetch" => wf[found[b]].state = "completed")'
    BY DEF ObservedInv
<1>1. /\ UNCHANGED <<mode, fires, pushed, wf, found>> /\ Mode(b)' = Mode(b)
      /\ pc'[b] # pc[b] => pc'[b] \in {"cleanup", "done"}
    BY DEF caseVars, gitVars, Mode
<1>2. Observed(b, verdict'[b], answered'[b])
    BY DEF ScenarioInv, TypeOK, ObservedInv
<1>3. Observed(b, verdict[b], answered[b])'
    BY <1>1, <1>2 DEF Observed, AnsweredFor, Mode, Image
<1>4. (wf[b].state = "completed" => Observed(b, wf[b].verdict, wf[b].image))'
    BY <1>1 DEF ObservedInv, Observed, AnsweredFor, Mode, Image
<1>5. (Mode(b) = "github-ghcr" /\ (pc[b] = "dispatch" \/ wf[b].state # "none") => Relayed(b))'
  <2>1. Relayed(b)' <=> Relayed(b)
      BY <1>1 DEF Relayed, Image
  <2> QED
      BY <1>1, <2>1 DEF ObservedInv
<1>6. (pc[b] = "forward" => ~fires[b[1]])' /\ (pc[b] = "fetch" => wf[found[b]].state = "completed")'
    BY <1>1 DEF ObservedInv
<1> QED
    BY <1>3, <1>4, <1>5, <1>6

LEMMA NextObserved ==
    ASSUME ScenarioInv, ObservedInv, [Next]_vars PROVE ObservedInv'
<1> USE DEF ScenarioInv, TypeOK, caseVars, placeVars, gitVars, timeVars, Goto, Concludes, CouldNotTest
<1>1. ASSUME NEW r \in Runs, Lease(r) PROVE ObservedInv'
  <2>1. <<r, epoch[r] + 1>> \in Attempts
      BY <1>1 DEF Lease, Attempts
  <2>2. Silent
      BY <1>1, <2>1 DEF Lease, Silent, ObservedInv, WorkflowsFit
  <2> QED
      BY <2>2, SilentKeepsObserved
<1>2. ASSUME NEW a \in Attempts, Cancel(a) \/ Crash(a) PROVE ObservedInv'
  <2>1. Silent
      BY <1>2 DEF Cancel, Crash, Silent, ObservedInv, WorkflowsFit
  <2> QED
      BY <2>1, SilentKeepsObserved
<1>3. ASSUME NEW a \in Attempts, Check(a) PROVE ObservedInv'
  <2>1. CASE ~Refused(a) /\ Mode(a) = "firewall"
    <3> DEFINE v == IF fires[a[1]] THEN "blocked" ELSE "not-blocked"
    <3>1. Observed(a, v, answered[a])
        BY <2>1, AttemptShape DEF Observed
    <3>2. verdict' = [verdict EXCEPT ![a] = v] /\ answered' = [answered EXCEPT ![a] = answered[a]]
        BY <1>3, <2>1 DEF Check
    <3>3. pc' = [pc EXCEPT ![a] = "done"] /\ UNCHANGED <<caseVars, gitVars>>
        BY <1>3, <2>1 DEF Check
    <3> HIDE DEF v
    <3> QED
        BY <3>1, <3>2, <3>3, ConcludingKeepsObserved
  <2>2. CASE ~(~Refused(a) /\ Mode(a) = "firewall")
    <3>1. Silent
        BY <1>3, <2>2 DEF Check, Silent, ObservedInv, WorkflowsFit
    <3> QED
        BY <3>1, SilentKeepsObserved
  <2> QED
      BY <2>1, <2>2
<1>4. ASSUME NEW a \in Attempts,
             StartContainer(a) \/ CreateGroup(a) \/ Listen(a) \/ Provision(a) \/ Cleanup(a)
      PROVE  ObservedInv'
  <2>1. Silent
      BY <1>4 DEF StartContainer, CreateGroup, Listen, Created, CreateFails, CreateAnswerLost,
                  Provision, Cleanup, Silent, ObservedInv, WorkflowsFit
  <2> QED
      BY <2>1, SilentKeepsObserved
<1>5. ASSUME NEW a \in Attempts, Ready(a) PROVE ObservedInv'
  <2>1. CASE fires[a[1]] /\ Concludes(a, "blocked", "cleanup")
    <3>1. Observed(a, "blocked", answered[a])
        BY <2>1 DEF Observed
    <3>2. answered' = [answered EXCEPT ![a] = answered[a]] /\ UNCHANGED <<caseVars, gitVars>>
        BY <1>5 DEF Ready
    <3> QED
        BY <2>1, <3>1, <3>2, ConcludingKeepsObserved
  <2>2. CASE ~(fires[a[1]] /\ Concludes(a, "blocked", "cleanup"))
    <3>1. Silent
        BY <1>5, <2>2, AttemptShape DEF Ready, Silent, ObservedInv, WorkflowsFit
    <3> QED
        BY <3>1, SilentKeepsObserved
  <2> QED
      BY <2>1, <2>2
<1>6. ASSUME NEW a \in Attempts, Forward(a) PROVE ObservedInv'
  <2>1. CASE /\ target[Name(a)] # None
             /\ answered' = [answered EXCEPT ![a] = ImageOf[target[Name(a)][1]]]
             /\ Concludes(a, "not-blocked", "cleanup")
    <3> DEFINE b == target[Name(a)]
    <3>1. b \in Attempts /\ Name(b) = Name(a)
        BY <2>1, NameType DEF TargetsFit
    <3>2. b[1] = a[1]
        BY <3>1, NamesAreOwn
    <3>3. Observed(a, "not-blocked", ImageOf[b[1]])
        BY <1>6, <3>2 DEF Observed, AnsweredFor, Image, ObservedInv, Forward
    <3>4. UNCHANGED <<caseVars, gitVars>>
        BY <1>6 DEF Forward
    <3> QED
        BY <2>1, <3>3, <3>4, ConcludingKeepsObserved
  <2>2. CASE Concludes(a, "could-not-test", "cleanup") /\ UNCHANGED answered
    <3>1. Silent
        BY <1>6, <2>2 DEF Forward, Silent, ObservedInv, WorkflowsFit
    <3> QED
        BY <3>1, SilentKeepsObserved
  <2> QED
      BY <1>6, <2>1, <2>2 DEF Forward
<1>7. ASSUME NEW n \in Names, DeleteLands(n) PROVE ObservedInv'
  <2>1. Silent
      BY <1>7 DEF DeleteLands, Silent, ObservedInv, WorkflowsFit
  <2> QED
      BY <2>1, SilentKeepsObserved
<1>8. ASSUME NEW a \in Attempts, EnsureSecret(a) \/ PollFails(a) PROVE ObservedInv'
  <2>1. Silent
      BY <1>8 DEF EnsureSecret, PollFails, Silent, ObservedInv, WorkflowsFit
  <2> QED
      BY <2>1, SilentKeepsObserved
<1>9. ASSUME NEW a \in Attempts, Relay(a) PROVE ObservedInv'
  <2>1. CASE CouldNotTest(a) /\ UNCHANGED pushed
    <3>1. Silent
        BY <1>9, <2>1 DEF Relay, Silent, ObservedInv, WorkflowsFit
    <3> QED
        BY <3>1, SilentKeepsObserved
  <2>2. CASE /\ Goto(a, "dispatch") /\ UNCHANGED verdict
             /\ pushed' = [pushed EXCEPT ![TagOf[Image(a)]] = Image(a)]
    <3>1. /\ UNCHANGED <<mode, fires, answered, verdict, wf, found>>
          /\ pc' = [pc EXCEPT ![a] = "dispatch"]
        BY <1>9, <2>2 DEF Relay
    <3>2. Relayed(a)' /\ \A b \in Attempts : Relayed(b) => Relayed(b)'
        BY <2>2, AttemptShape, ImageType DEF Relayed, Image
    <3>3. ASSUME NEW b \in Attempts
          PROVE  /\ Observed(b, verdict[b], answered[b])'
                 /\ (wf[b].state = "completed" => Observed(b, wf[b].verdict, wf[b].image))'
        BY <3>1 DEF ObservedInv, Observed, AnsweredFor, Mode, Image
    <3>4. ASSUME NEW b \in Attempts
          PROVE  /\ (pc[b] = "forward" => ~fires[b[1]])'
                 /\ (pc[b] = "fetch" => wf[found[b]].state = "completed")'
        BY <3>1 DEF ObservedInv
    <3>5. ASSUME NEW b \in Attempts, Mode(b)' = "github-ghcr",
                 pc'[b] = "dispatch" \/ wf'[b].state # "none"
          PROVE  Relayed(b)'
      <4>1. CASE b = a
          BY <3>2, <4>1
      <4>2. CASE b # a
          BY <3>1, <3>2, <3>5, <4>2 DEF ObservedInv, Mode
      <4> QED
          BY <4>1, <4>2
    <3> QED
        BY <3>3, <3>4, <3>5 DEF ObservedInv
  <2> QED
      BY <1>9, <2>1, <2>2 DEF Relay
<1>10. ASSUME NEW a \in Attempts, Dispatch(a) PROVE ObservedInv'
  <2>2. pc[a] = "dispatch" /\ wf[a].state = "none" /\ wf[a] \in Workflow
      BY <1>10 DEF Dispatch, WorkflowsFit, Undispatched
  <2>3. /\ UNCHANGED <<mode, request, fires, pushed, answered, found>>
        /\ pc'[a] \in {"find", "done"} /\ \A b \in Attempts : b # a => pc'[b] = pc[b]
        /\ \A b \in Attempts : verdict'[b] \in {verdict[b], "could-not-test"}
      BY <1>10 DEF Dispatch
  <2>4. \A b \in Attempts : b # a => wf'[b] = wf[b]
      BY <1>10 DEF Dispatch
  <2>5. wf'[a] = wf[a] \/ wf'[a].state = "sent"
      BY <1>10, <2>2 DEF Dispatch, Workflow
  <2>6. ASSUME NEW b \in Attempts
        PROVE  \/ wf'[b] = wf[b]
               \/ /\ wf'[b].state # "completed" /\ wf[b].state # "completed"
                  /\ wf[b].state # "none" \/ pc[b] = "dispatch"
      BY <2>2, <2>4, <2>5
  <2>7. ASSUME NEW b \in Attempts, pc'[b] = "fetch"
        PROVE  found'[b] = found[b] /\ found[b] \in Attempts /\ wf[found[b]].state = "completed"
      BY <2>3, <2>7 DEF ObservedInv, WorkflowsFit
  <2>1. Silent
      BY <2>2, <2>3, <2>6, <2>7 DEF Silent
  <2> QED
      BY <2>1, SilentKeepsObserved
<1>11. ASSUME NEW a \in Attempts, Appears(a) PROVE ObservedInv'
  <2>1. wf[a].state = "sent" /\ wf'[a].state = "queued" /\ \A b \in Attempts : b # a => wf'[b] = wf[b]
      BY <1>11 DEF Appears, Workflow
  <2>2. UNCHANGED <<mode, request, fires, pushed, answered, verdict, pc, found>>
      BY <1>11 DEF Appears
  <2>3. Silent
      BY <2>1, <2>2 DEF Silent, ObservedInv, WorkflowsFit
  <2> QED
      BY <2>3, SilentKeepsObserved
<1>12. ASSUME NEW a \in Attempts, FindRun(a) PROVE ObservedInv'
  <2>1. Silent
      BY <1>12 DEF FindRun, Silent, ObservedInv, WorkflowsFit
  <2> QED
      BY <2>1, SilentKeepsObserved
<1>13. ASSUME NEW a \in Attempts, WaitRun(a) PROVE ObservedInv'
  <2>1. Silent
      BY <1>13 DEF WaitRun, Silent, ObservedInv, WorkflowsFit
  <2> QED
      BY <2>1, SilentKeepsObserved
<1>14. ASSUME NEW a \in Attempts, FetchResult(a) PROVE ObservedInv'
  <2>1. CASE CouldNotTest(a) /\ UNCHANGED answered
    <3>1. Silent
        BY <1>14, <2>1 DEF FetchResult, Silent, ObservedInv, WorkflowsFit
    <3> QED
        BY <3>1, SilentKeepsObserved
  <2>2. CASE /\ Concludes(a, wf[found[a]].verdict, "done")
             /\ answered' = [answered EXCEPT ![a] = wf[found[a]].image]
    <3>1. found[a] \in Attempts /\ found[a][1] = a[1] /\ wf[found[a]].state = "completed"
        BY <1>14 DEF FetchResult, WorkflowsFit, NoStaleResult, ObservedInv
    <3>2. Observed(a, wf[found[a]].verdict, wf[found[a]].image)
        BY <3>1, SameRunSame DEF ObservedInv
    <3>3. UNCHANGED <<caseVars, gitVars>>
        BY <1>14 DEF FetchResult
    <3> QED
        BY <2>2, <3>2, <3>3, ConcludingKeepsObserved
  <2> QED
      BY <1>14, <2>1, <2>2 DEF FetchResult
<1>15. ASSUME NEW a \in Attempts, WorkflowEnds(a) PROVE ObservedInv'
  <2>1. PICK v \in Verdicts :
          /\ v = "blocked" => fires[a[1]]
          /\ v = "not-blocked" => ~fires[a[1]]
          /\ wf' = [wf EXCEPT ![a].state = "completed", ![a].verdict = v,
                      ![a].image = IF v # "not-blocked" THEN None
                                   ELSE IF Mode(a) = "github-ghcr" THEN pushed[TagOf[Image(a)]]
                                   ELSE Image(a)]
      BY <1>15 DEF WorkflowEnds
  <2>2. /\ wf[a].state = "queued" /\ UNCHANGED <<mode, fires, pushed, answered, verdict, pc, found>>
      BY <1>15 DEF WorkflowEnds
  <2>3. /\ \A b \in Attempts : b # a => wf'[b] = wf[b]
        /\ wf'[a].state = "completed" /\ wf'[a].verdict = v
        /\ v = "not-blocked" => wf'[a].image = IF Mode(a) = "github-ghcr" THEN pushed[TagOf[Image(a)]]
                                               ELSE Image(a)
      BY <2>1 DEF Workflow
  <2>4. Observed(a, wf'[a].verdict, wf'[a].image)
    <3>1. Mode(a) = "github-ghcr" => Relayed(a)
        BY <2>2 DEF ObservedInv
    <3> QED
        BY <2>1, <2>3, <3>1 DEF Observed, AnsweredFor, Relayed
  <2>5. ASSUME NEW b \in Attempts
        PROVE  /\ Observed(b, verdict[b], answered[b])'
               /\ (wf[b].state = "completed" => Observed(b, wf[b].verdict, wf[b].image))'
    <3>1. Observed(b, verdict[b], answered[b])'
        BY <2>2 DEF ObservedInv, Observed, AnsweredFor, Mode, Image
    <3>2. wf'[b].state = "completed" => Observed(b, wf'[b].verdict, wf'[b].image)
        BY <2>3, <2>4 DEF ObservedInv
    <3> QED
        BY <2>2, <3>1, <3>2 DEF Observed, AnsweredFor, Mode, Image
  <2>6. ASSUME NEW b \in Attempts
        PROVE  /\ (pc[b] = "forward" => ~fires[b[1]])'
               /\ (Mode(b) = "github-ghcr" /\ (pc[b] = "dispatch" \/ wf[b].state # "none")
                     => Relayed(b))'
    <3>1. wf'[b].state # "none" => wf[b].state # "none"
        BY <2>2, <2>3
    <3>2. Relayed(b)' <=> Relayed(b)
        BY <2>2 DEF Relayed, Image
    <3> QED
        BY <2>2, <3>1, <3>2 DEF ObservedInv, Mode
  <2>7. ASSUME NEW b \in Attempts, pc'[b] = "fetch" PROVE wf'[found'[b]].state = "completed"
    <3>1. found[b] \in Attempts /\ wf[found[b]].state = "completed"
        BY <2>2, <2>7 DEF ObservedInv, WorkflowsFit
    <3> QED
        BY <2>2, <2>3, <3>1
  <2> QED
      BY <2>5, <2>6, <2>7 DEF ObservedInv
<1>16. ASSUME \/ \E r \in Runs : Ages(r)
              \/ \E a \in Attempts : ContainerExits(a)
              \/ UNCHANGED vars
       PROVE  ObservedInv'
  <2>1. Silent
      BY <1>16 DEF Ages, ContainerExits, vars, Silent, ObservedInv, WorkflowsFit
  <2> QED
      BY <2>1, SilentKeepsObserved
<1>17. ASSUME NEW i \in Images, OthersRelay(i) PROVE ObservedInv'
  <2>1. /\ UNCHANGED <<mode, fires, answered, verdict, wf, found, pc>>
        /\ pushed' = [pushed EXCEPT ![TagOf[i]] = i] /\ TagOf[i] \in Tags
      BY <1>17 DEF OthersRelay, Tags
  <2>2. ASSUME NEW b \in Attempts, Relayed(b) PROVE Relayed(b)'
      BY <2>1, <2>2, AttemptShape, ImageType DEF Relayed, Image
  <2>3. ASSUME NEW b \in Attempts
        PROVE  /\ Observed(b, verdict[b], answered[b])'
               /\ (wf[b].state = "completed" => Observed(b, wf[b].verdict, wf[b].image))'
      BY <2>1 DEF ObservedInv, Observed, AnsweredFor, Mode, Image
  <2> QED
      BY <2>1, <2>2, <2>3 DEF ObservedInv, Mode
<1> QED
    BY <1>1, <1>2, <1>3, <1>4, <1>5, <1>6, <1>7, <1>8, <1>9, <1>10, <1>11, <1>12, <1>13,
       <1>14, <1>15, <1>16, <1>17
    DEF Next, Execute, InContainer, OnGitHub, ThroughRegistry, Settled

----------------------------------------------------------------------------
(* The theorems *)

LEMMA InitScenarioInv == Init => ScenarioInv
<1> SUFFICES ASSUME Init PROVE ScenarioInv
    OBVIOUS
<1>1. TypeOK
    BY InitTypeOK
<1>2. LeasesFit
    BY AttemptShape DEF Init, LeasesFit
<1>3. StepsFit /\ TargetsFit
    BY DEF Init, StepsFit, TargetsFit, Holding
<1>4. WorkflowsFit
    BY AttemptShape DEF Init, WorkflowsFit, NoWorkflow
<1>5. LeaksAreMishaps /\ TargetsAreKept /\ NoStaleResult
    BY DEF Init, LeaksAreMishaps, TargetsAreKept, NoStaleResult
<1> QED
    BY <1>1, <1>2, <1>3, <1>4, <1>5 DEF ScenarioInv

LEMMA NextScenarioInv == ScenarioInv /\ [Next]_vars => ScenarioInv'
<1> SUFFICES ASSUME ScenarioInv, [Next]_vars PROVE ScenarioInv'
    OBVIOUS
<1>1. TypeOK'
    BY NextTypeOK DEF ScenarioInv
<1> QED
    BY <1>1, NextStepsFit, NextPlacesFit, NextWorkflowsFit DEF ScenarioInv, PlacesFit

\* The invariant that the properties below rest on: which attempts have begun,
\* which steps a mode has, whose target lives under a name, and what is known
\* of a workflow that an attempt follows.
THEOREM ScenarioInvariance == Spec => []ScenarioInv
BY InitScenarioInv, NextScenarioInv, PTL DEF Spec

\* Attempts, targets and workflows keep their types, whatever the interleaving
\* of leases, crashes, cancels and late answers (executor.go, substrate_*.go).
THEOREM ScenarioTypeCorrect == Spec => []TypeOK
<1>1. ScenarioInv => TypeOK
    BY DEF ScenarioInv
<1> QED
    BY <1>1, ScenarioInvariance, PTL

\* A container, container group or listener that no attempt uses any more was
\* left by a crash, by a create whose answer was lost or by a failed delete: no
\* early return between the bring-up and the test skips the cleanup.
THEOREM TargetsLeakOnlyByMishap == Spec => []LeaksAreMishaps
<1>1. ScenarioInv => LeaksAreMishaps
    BY DEF ScenarioInv
<1> QED
    BY <1>1, ScenarioInvariance, PTL

\* An attempt under test has its own target; only a container group, named
\* after the run (substrate_aci.go:196), can be taken by a later or earlier
\* attempt of the same run.
THEOREM AttemptsKeepTargets == Spec => []TargetsAreKept
<1>1. ScenarioInv => TargetsAreKept
    BY DEF ScenarioInv
<1> QED
    BY <1>1, ScenarioInvariance, PTL

\* findRun follows a workflow of the attempt's own run, and none that was created
\* longer than its slack before the attempt's lease (substrate_github.go:55, 142).
THEOREM ResultsAreFresh == Spec => []NoStaleResult
<1>1. ScenarioInv => NoStaleResult
    BY DEF ScenarioInv
<1> QED
    BY <1>1, ScenarioInvariance, PTL

\* No verdict is made up (README.md:162-164): a rule that matches blocks, and an
\* app answered that has the run's image or, through the registry, one that
\* ghcrTarget gives the same tag (executor.go:430-640,
\* substrate_github_ghcr.go:206-217).  Nothing is assumed of the tags.
THEOREM VerdictsAreObservedHolds == Spec => []VerdictsAreObserved
<1>1. Init => ObservedInv
    BY VerdictAssumption
       DEF Init, ObservedInv, Observed, NoWorkflow, Verdicts
<1>2. ScenarioInv /\ ObservedInv /\ [Next]_vars => ObservedInv'
    BY NextObserved
<1>3. ObservedInv => VerdictsAreObserved
    BY DEF ObservedInv, Observed, VerdictsAreObserved
<1> QED
    BY ScenarioInvariance, <1>1, <1>2, <1>3, PTL DEF Spec
=============================================================================
