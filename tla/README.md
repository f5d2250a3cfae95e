# Verification of the mitigation-check service

TLA+ models, TLC runs and TLAPS proofs about the Go service under `api/`: an
HTTP API that accepts *mitigation checks* (does a candidate rule block an
attack?), runs them in a durable worker, publishes every result exactly once to
a Databricks table and wakes the caller with a callback.

Line references are to the repository: `worker.go:166` is `api/worker.go`, line
166. The code's own words are kept as names wherever TLA+ allows.

## 1. The system

| Component | State it keeps | Operations | Talks to |
|---|---|---|---|
| Run ledger (`lifecycle_store.go`, `store.go`) | one PostgreSQL row per run: status, lease, attempt, staged result, publication and callback columns | `CreateOrGet`, `Cancel`, `LeaseNext`, `Heartbeat`, `StageOutcome`, `MarkPublicationPending`, `CompletePublished`, `Fail`, `FailOutcome`, `FailPublicationConflict`, `RetryVerification`, `MarkCanceled`, `FailExhausted`, `RecoverCanceled`, callback claims, migration | everybody |
| Run worker (`worker.go`) | the leased run, two flags its heartbeat sets | poll, execute, stage, fence, publish, verify, complete | ledger, executor, sink |
| Result sink (`databricks.go`) | an external table, one row per `result_id` | `Publish` (insert-only MERGE and read-back), `Verify` | warehouse |
| Callback dispatcher (`callback.go`) | the claimed event | claim, POST, record | ledger, receiver |
| Lifecycle HTTP API (`lifecycle.go`) | none | submit, status, result, cancel | ledger |
| Producer inputs (`executor_locator.go`, `executor_upstream.go`, `stimulus.go`) | none; producers' tables outside | choose the executor, read rule and test by digest-checked locators or by upstream references | Databricks reads |
| Scenario executor (`executor.go`, `substrate_aci.go`, `substrate_github*.go`) | per run: a container, a group, a workflow and its secret | bring up, wait, WAF, forward, clean up | Docker, Azure, GitHub, GHCR |
| Firewall evaluator (`substrate_firewall.go`) | none | compile a rule, match a connection | scenario executor |
| Shared contract (`shared_contract_v2.go`, `shared_contract_catalog.go`) | none | check semantics and bundle, prepare the WAF, run every case, account | producers' results |
| Synchronous compatibility API (`main.go`) | one finished row per call | run within the request | executor, table |
| Start and shutdown (`main.go`, `store.go`) | schema | migrate, backfill, drain | ledger |

Several replicas run the same binary over one table. Each replica has one
worker goroutine, one heartbeat goroutine while it executes, one dispatcher
goroutine and any number of HTTP handlers. They share nothing but the table:
every coordination is a WHERE clause of one SQL statement.

What is hard here, and so what the properties are about: a worker that outlives
its lease; a cancel that races a publication; a MERGE that lands after its
client gave up; a crash between any two statements; recovery split over three
statements that must complement each other; events delivered at least once by
dispatchers that may lose their claim. `PROJECT.json` lists every such hazard at
its line, with the properties that would notice.

What makes each component correct:

* ledger: terminal rows do not change; staged bytes never change; every
  unfinished run is recovered in exactly one way; a starting replica is never
  refused;
* worker and sink: completed means stored, byte for byte; canceled means never
  offered; one MERGE per run; a bounded number of executions; every run ends;
* dispatcher: no wakeup before the outcome; `delivered` only when accepted;
  duplicates only after a fault; every event is settled;
* API: one row per idempotency key over all retries, equivalent bodies accepted,
  others refused, nothing accepted that is not committed, and the run is the
  client's (which a firewall's connection is not, see 6);
* dispatcher's clock: no retry before the schedule or the receiver's pause;
* producer inputs: what is executed is what the locators digest, whatever is
  rewritten between the reads; no sound result is refused; no verdict without
  what was read;
* scenario executor: no made-up verdict; a target is there while it is needed
  and removed afterwards; no result from before the attempt, but for a slack;
  every attempt ends;
* WAF and firewall: a rule means what it says, and where it cannot, the result
  says so;
* shared contract: what is accepted is complete, every disposition is what the
  control says, and the accounting omits nothing.

## 2. Modules

| Module | Models |
|---|---|
| `RunIds` | the run ids every component shares |
| `RunLedger` | the table and its statements, one action each |
| `ResultSink` | Publish, Verify and the warehouse behind them |
| `RunWorker` | extends both: polling loop, `executeOne`, heartbeat, clients, clocks, faults |
| `RunSafety` | the properties of the worker system |
| `RunInvariant` | the inductive invariant `IInv` and `Advances` |
| `RunProofs` | the proofs about ledger, worker and sink, the refinement's among them |
| `RunContract` | what a client may rely on, with no lease, worker or MERGE in sight |
| `RunRefinement` | the mapping under which `RunWorker` implements `RunContract` |
| `CallbackDispatcher` | claims, POSTs and settlement of events |
| `Service` | workers and dispatchers over one ledger, with their joint properties |
| `ServiceInvariant`, `ServiceProofs` | the inductive invariant `ServiceInv`, and the proofs |
| `CallbackBackoff`, `BackoffProofs` | the clock of one event: schedule, jitter, `Retry-After`, due times |
| `RunSubmission`, `SubmissionProofs` | `handleAsyncSubmit` and `CreateOrGet` for racing and retried calls |
| `ProducerInputs`, `ProducerProofs` | submission checks, choice of the executor, locator and upstream reads |
| `ScenarioExecution`, `ScenarioProofs` | `executeScenario` in all its modes, with attempts that overlap |
| `WafRule` | the SecRule: quantifier clamping, targets, evaluation |
| `Firewall` | both rule syntaxes, matching, verdict |
| `Evaluators` | the choice between the two by the execution mode |
| `EvaluatorProofs` | the proofs about them |
| `SharedWaf`, `SharedSemantics`, `SharedBundle`, `SharedExecution` | the shared contract: one request, the documents of Check Generation, those of Defense Generation, and the execution that joins them |
| `SharedProofs` | the proofs about it |
| `MCRun`, `MCService`, `MCSubmission`, `MCBackoff`, `MCEvaluators`, `MCScenario`, `MCProducerInputs`, `MCSharedContract` (which joins `MCSharedDocuments` and `MCSharedControl` over `MCShared`) | instances for TLC |

The modules meet where the components do. `Service` composes ledger, worker, sink
and dispatcher. The others look into one step of that composition: `RunSubmission`
into the creation of a row, `CallbackBackoff` into the flag "due", and
`ProducerInputs`, `ScenarioExecution` with `WafRule` or `Firewall`, and
`SharedExecution` into the worker's `Execute`, which sees of all of them a
verdict, a malfunction or an error.

### How the state corresponds

* `row[r]` is a row's lifecycle columns. A comparison of a time column with
  `now()` is a Boolean (`leaseLive`, `retryDue`, `outbox[r].due`, `claim[r].live`)
  that a clock action turns; the durations themselves (10 minute lease, 5 second
  to 5 minute back-off) are abstracted, so every timing is covered.
* Result bytes are named by the lease token of the execution that produced
  them, and a lease token by the attempt it starts. Two executions never yield
  the same bytes (`CreatedAt` is in them), so comparing names compares bytes.
* `pc[w]` is the statement worker `w` issues next, `job[w]` its local copy of
  the leased run, its outcome and the flags `cancelSeen` and `leaseLost`.
* `sink[r]` is the warehouse row under the run's `result_id`; `orphan[r]` holds
  MERGEs whose client gave up and that may still be executed; `merges[r]`
  counts MERGEs issued (a history variable, as are `accepts` and `seen`).

### How the actions correspond

Each SQL statement is one transaction in the code and one action here. A fenced
statement takes effect when its WHERE clause selects the row; when it does not,
the worker's step says what the code does then (`LastStatement`, `StageStep`,
`MarkPendingStep`). Between two statements anything may happen.

* `LeaseNext` may take any leasable row: `ORDER BY created_at` with
  `SKIP LOCKED` makes no promise about which one a replica gets.
* `Heartbeat` is a step only where its flags can still be read, before
  `worker.go:166-178` reads them. What else it does, keeping a lease alive, is
  that `LeaseExpires` counts as a fault while somebody works under the lease.
* `Abandon(w)` is every way `executeOne` ends with the row as it stands: crash,
  shutdown, a statement that reports a database error (having taken effect or
  not), an outcome `canonicalResultPayload` refuses.
* `Publishers` are the replicas with a Databricks destination. In the wired
  program `w.publisher` is never the nil interface (a nil `*DatabricksSink` is
  stored in it), so `worker.go:224` decides on the result_ref alone, and a
  replica without the destination that recovers somebody else's result gets an
  error from `Publish` or `Verify` and re-queues it.
* `ForeignWrite` is another writer of the result table, for the runs in
  `ForeignRuns`; it is the only way a conflict can arise.
* `ProcessStarts` is the payload migration of a starting replica, which
  completes failed rows while other replicas work. It is the reason an ended
  row may still gain a `result_payload`.
* In the dispatcher a claim's fresh token is "the holder is d", since a
  dispatcher holds one claim at a time. `callback_attempt` only picks the next
  delay, which `CallbackBackoff` models. A dispatcher without token settles the event as
  `configuration_failed`.

* `RunSubmission` stands beside the other modules: where `RunWorker`'s
  `CreateRow` says "a new key gets a queued row", it looks into that step. A
  *call* is one execution of the handler, a retry is one more call. `CreateOrGet`
  is BEGIN with INSERT, SELECT and COMMIT, three actions, since replicas
  interleave there; a row that is not committed yet holds its key in the unique
  index, so that a second INSERT waits (PostgreSQL, READ COMMITTED, which the
  code leaves at its default). A run id is named by the call that drew it and a
  digest by the request it digests. Of the defaults `normalizeRequestDefaults`
  fills in, `execution_mode` stands for all; of the fields of `test_basis` that it
  drops, since `TestBasisSpec` does not have them (`lifecycle.go:176-190`), the
  `connection` of a firewall test does. `ProducerInputs` stores tests in the same
  way (`Normalized`). Workers appear as `RunMoves`.

* `CallbackBackoff` follows one event of `CallbackDispatcher`. Durations are
  integers of a fixed width and wrap as Go's do; `Second` of their units make a
  second. One clock serves database, dispatchers and receiver; it counts the
  times that matter, and `Spent[n]` is the least the schedule lets pass before
  delivery n.
* `ProducerInputs` has one action per read of an executor, beside the submission,
  the choice of the executor, the selection of the test and the execution; the
  polling of a statement is its latency against the deadline.
  The digest of a content is the content itself; a stored result is a content
  and a form (inline, normalised, manifest, with either time zone suffix).
  `Rewrite` replaces the tables between any two actions and may happen while a
  statement runs.
* `ScenarioExecution` names an attempt `<<r, k>>`, the k-th lease of run r. A new
  attempt starts when the last one crashed or lost its lease; one that lost its
  lease goes on until its context ends, so two attempts of a run share a
  container name, as they do in the code (`executor.go:546`). `Prompt(a)` are
  the steps the program takes by itself; Docker, Azure, GitHub and the registry
  answer, refuse, lose the answer or stay silent. A container may exit and is then
  removed by Docker, which was told so with `--rm` (`ContainerExits`).
* `findRun` takes a workflow of the run's name that was created after the time of
  the dispatch less five seconds (`substrate_github.go:55` and `:142`). There is no clock in the
  model: a run's workflows are numbered as GitHub creates them (`listed`), those up
  to `aged` were created longer than the slack ago, and `since` is what `aged` was when
  the attempt dispatched. Nothing relates the slack to leases or to each other's
  steps, so that any number of workflows may be younger than it at any time.
* Images reach the registry under the tag `ghcrTarget` makes of their name.
  `OthersRelay` is another run, replica or deployment of the repository's owner
  that relays an image to its tag before a runner has pulled.
* `WafRule` reduces a pattern to two marks with a quantified gap, a text to that
  gap and how often the marks are encoded; values are sets, since their order
  only decides which text the log names. `Firewall` reduces a network to the
  set of its addresses and a port text to its interval; each iptables option is
  one action, so repetitions and every order are covered. In `Evaluators`, one
  works and the other rests. What `Firewall` says of connections, it says of all of
  them, although the service only ever evaluates an empty one (see 6).
* The four shared modules read documents whose arrays are sequences, so ids may
  be missing or repeated; a typed reference is a pair of kind and id. Texts are
  model values; `Decode` and `Select` say what a transformation and a JSON pointer
  make of them. The coverage of a group is a recursive function of the groups on
  the path to it, as the closure `walk` is. `SharedExecution` takes one action per case, and its context may be
  cancelled, or its sources and its substrate fail, at any of them.

`UpdateProgress`, failure texts and progress columns are left out: no WHERE
clause and no property reads them. Operators commented "Wrong on purpose" are
faulty variants of the operator below them, one per property, kept to show that
the property notices.

## 3. Runs

| Run | Instance | Question | Result |
|---|---|---|---|
| `run_worker` | 1 run with callback, workers w1 (with sink) and w2 (without), MaxAttempts 2, MaxVerifications 2, MaxFaults 2, a foreign writer; `FairSpec` | are ledger, worker and sink safe, does every run end, is the contract implemented? | holds, 60,124 states |
| `run_republish` | the same with both workers having the sink, no foreign writer | does recovery republish, as README.md:95-96 says? | violated, see 6 |
| `service` | 1 run with callback, 2 workers, 2 dispatchers, MaxAttempts 1, MaxVerifications 1, 1 worker and 2 delivery faults; `ServiceLiveSpec` | are wakeups ordered, recorded and repeated as promised, and is every caller woken? | holds, 241,090 states |
| `submission_safety` | 3 calls, 8 submissions on 2 keys (terse, spelled out, two firewall tests of different connections, with callback, other key, wrong identity, half a callback) | does a key name one run, and the client's own? | holds, 782,473 states up to symmetry |
| `submission_connection` | the same | does a firewall run test the connection that was supplied, as README.md:198 says? | violated, see 6 |
| `submission_liveness` | 3 calls, 2 submissions on 1 key | does every call return? | holds, 145,515 states |
| `callback_backoff` | 1 event, 2 dispatchers, 4 claims, durations of seven bits (six and a sign), `Retry-After` of 6, 13 (wraps to a negative), 26 (wraps to a tiny one) and 64 (no integer of that width) | do schedule and pause survive overflow and a second dispatcher? | holds, 493,360 states up to symmetry |
| `evaluators` | firewall: every compact rule and every iptables rule of up to 3 options, 2 hosts, ports 0 to 2, reversed and garbled port lists; WAF: quantifiers around a limit of 2, 1 or 2 targets, texts of every length and encoding, forms and URIs that do not parse | does a rule mean what its text says, and is a WAF verdict as written or announced as limited? | holds, 804,464 states |
| `scenario` | 1 run, 2 attempts, all 8 modes, 2 images that share a tag; `FairSpec` | are verdicts observed, targets kept and removed, results young enough, and does every attempt end? | holds, 211,205 states |
| `shared_contract` | every coverage graph of 2 groups over 2 components, each document also altered in one place; rule sets of 1 to 3 alternatives, with and without routes, against requests of every body state | is what is accepted complete, is every disposition just, does the accounting notice an omission? | holds, 245,272 states |
| `shared_ancestry` | the documents of the former | is complete ancestry verified, as README.md:65-66 says? | violated, see 6 |
| `producer_inputs` | submissions of every shape, 10 requests by locator and 10 others, results in every stored form, 1 rewrite, 2 attempts, statements faster and slower than the deadline | is what runs what was named, is nothing sound refused, and does nothing else run? | holds, 37,639 states |

### The properties

* `run_worker`: a completed run is stored byte for byte (`CompletedIsPublished`);
  a canceled one was never offered (`CanceledNeverPublished`); one MERGE per run
  (`AtMostOneMerge`); each unfinished run is found by exactly one recovery
  (`ExactlyOneRecovery`); executions are bounded (`ExecutionBudget`); concurrent
  publishers hold the same bytes (`PublishersAgree`); no migration fails
  (`StartNeverRefused`); ended rows stay (`TerminalIsFinal`); `EveryRunEnds`; and
  `ImplementsContract`, the refinement of `RunContract`.
* `service`: `WakeupSeesOutcome`, `DeliveredWasAccepted`, `DuplicatesAreFaults`,
  `EventFollowsLedger`, `SettledIsFinal`, `CallerIsWoken`.
* `submission_*`: `OneRunPerKey`, `AcceptedRunsRequest`, `RetriesAgree`,
  `RowsHaveOwners`, `HandlersReturn`. `AcceptedRunsRequest` compares the stored run
  with the client's ids, mode, content and callback one by one, not through the
  code's normalization, and leaves the connection to `SuppliedConnectionIsTested`,
  which is violated.
* `callback_backoff`: `ScheduleIsKept`, `QuietIsKept`.
* `evaluators`: `VerdictFollowsText` (a plain iptables rule blocks exactly the
  connections every one of its options fits, each read by itself; of the odd forms,
  such as negation, port 0 or reversed ranges, nothing is said) and
  `VerdictAsWritten`.
* `scenario`: `VerdictsAreObserved` (the answer came from the run's image or,
  through the registry, from one with its tag), `LeaksAreMishaps`,
  `TargetsAreKept`, `NoStaleResult`, `AttemptsReturn`. `NoStaleResult` bounds the age
  of a result, not its origin: an attempt may take the result of a predecessor's
  workflow that was created after its own lease, because the dispatch showed
  late or the predecessor outlived its lease, or within the slack before it.
* `shared_contract`: `AcceptedIsComplete` (obligations reached, source
  partitioned, bundle answering the semantics), `BlockedIsEarned`,
  `DispositionsAreJust`, `RoutesAreAncestral`, `AccountingIsExact`.
* `producer_inputs`: `HydratedIsNamed`, `SoundIsNotRefused`,
  `VerdictsStandOnReads`, `NothingInlineRuns`. A test that came with the request
  counts as read in the form it was stored in.

Some facts are only proved and not repeated by a run, because they are parts of a
proof or follow from a property above: `IInv`, `StagedBytesFixed`,
`CutoffIsFinal`, `AcceptedIsDurable`, `SyntaxesAgree`, the inductive invariants of the other modules, and the type
invariants of `RunSubmission`, `ScenarioExecution`, `WafRule` and
`CallbackBackoff`.

### Why the bounds are enough

Rows never refer to each other, so one run shows every interleaving of one run;
that two statements write several rows at once and a worker moves from one run to
the next is covered by the proofs, the refinement's among them, which hold for
any number. Two workers are the least in which one outlives its lease while
another works. Two attempts
distinguish "the last attempt" from "not the last"; two verifications likewise.
Two faults allow a lost lease followed by a crash of the second owner. Attempts
need no cap: leases are granted only below MaxAttempts, after a re-queue (at
most MaxVerifications) or after a fault (at most MaxFaults). `service` has the
smallest worker part that can end in every way, since `run_worker` covers the
rest. Three calls are a creator, one that waits for it and one that comes
after; their failures need no bound, since each call ends once. Calls are
interchangeable, so `submission_safety` uses symmetry; so are dispatchers in
`callback_backoff`; runs with a liveness property use none. Seven bits hold a
pause, one that wraps to a negative and one that wraps to a small positive
duration, the three cases of 64. Three options allow an option to be repeated
around another. A limit of two has quantifiers below, at and above it. Two
attempts of a run are the least that overlap, and container names of different
runs differ; of what other runs do, only their images in the registry matter, and
two that share a tag are the least that replace each other. Two groups are the least that form a cycle, and three alternatives
allow one that fails, one that cannot be evaluated and one that matches. One
rewrite may fall between any two reads.

`CHECK_DEADLOCK FALSE` stands where the system stops by itself: a submission whose
calls have ended, an event that is settled, a shared outcome and a run that have
been handed back.

### Fairness

* Weak fairness of each worker's own steps and of the heartbeat: goroutines are
  scheduled and tickers fire.
* An executor whose context was cancelled returns (weak fairness of `Execute`
  under a flag). `AttemptsReturn` shows it of `executeScenario`; it remains an
  assumption about the readers of `ProducerInputs` and the shared contract, whose
  calls carry the context. That every executor returns (`ExecutorsReturn`) is assumed
  only for `service` and in the second half of `EveryRunEnds`, which states it as
  a condition: without `MC_EXECUTION_TIMEOUT` the code sets no deadline
  (`lifecycle.go:311-322`) and the GitHub runner polls for ever. The first half,
  `CancelEnds`, does without it.
* Leases nobody works under expire and retry times come: the database clock.
* Dispatchers: weak fairness of their steps, expiry of unused claims, due times;
  strong fairness of a final answer, since a receiver that refuses for ever is
  retried for ever (`callback.go:220-228`), by design.
  In `service` both dispatchers have a token: one without settles an event as
  `configuration_failed` at the step where the others might see it rejected
  for good.
* `scenario`: weak fairness of the steps an attempt takes by itself and of the
  end of its context, which `MC_EXECUTION_TIMEOUT` brings where it is set.
  Docker, GitHub, Azure and the apps owe nothing.
* Submission: weak fairness of each handler's next statement. The wait for the
  index entry ends because each of finitely many calls takes it once.
* Clients, faults, the warehouse and restarts have no fairness.

## 4. Proofs

`RunProofs` proves, for every number of runs, workers, attempts, verifications
and faults, each safety property of `run_worker`: `TypeOK`,
`CompletedIsPublished`, `CanceledNeverPublished`, `AtMostOneMerge`,
`PublishersAgree`, `ExecutionBudget`, `StartNeverRefused`, `ExactlyOneRecovery`
and the action properties `TerminalIsFinal`, `StagedBytesFixed`,
`CutoffIsFinal`. The assumptions are those on the constants, which the runs
evaluate.

None of these is inductive: that a completed run is in the sink needs what the
worker knew one statement earlier, which needs what another worker cannot have
done meanwhile. The inductive invariant has five parts:

* `TypeOK`;
* `RowInv(row[r])`, how the columns of a row hang together (a queued run that
  was canceled is being published; a staged run's response is its payload);
* `SinkInv(r)`, the row against the sink (a MERGE was issued only past the
  cutoff; none issued means nothing stored and nothing on its way);
* `WorkerInv(w)`, what a worker may rely on at its next statement. Most
  of it is conditional on `Holds`, the token fence: a worker that lost its
  lease knows only what can never change again (the staged bytes);
* `OnePublisher`, at most one worker is about to send the MERGE of a run.

The argument. `Advances(o, n, w)` says what one step of `w` may do to a row:
keep the cutoff, the staged bytes and the end, and leave the leases of others
alone. Every statement is shown to keep `RowInv` and to advance
(`RowsKept`); from that alone the knowledge of every *other* worker survives
(`OthersKeep`), and the sink keeps up (`SinkKeeps`). What is left per action is
the acting worker's own knowledge (`StepKeeps` and one lemma per group of
actions). The action properties follow from `Advances` directly.

`SubmissionProofs` proves the safety properties of `submission_safety` for any
calls, keys and submissions. `SubmissionInv` adds to `TypeOK` that rows are what
their creators submitted (`RowsFit`), that keys are unique among uncommitted rows
too (`KeysUnique`), and that the row a call read stays as read: it is committed
or the call's own, and only uncommitted rows are ever taken back. `TypeOK` alone
is not inductive here: a COMMIT keeps it only because a creator's row is still
there. That the digest compares meanings is the lemma `NormalizedMeansEquivalent`:
after normalization, acceptable bodies are equal exactly when they are
`Equivalent`, which is defined without it and, as the code has it, does not look at
the connection.

`RunProofs` also proves the refinement, `Spec => ImplementsContract`, for any runs,
workers, attempts, verifications and faults. A run as the contract sees it
(`View`) is its status, response and cutoff with what the sink holds. `Alike` rows
have equal views; `Lawful` lists the changes of columns that are a step of the
contract while the sink stays; what changes only in the sink is
`StoringIsAllowed`. Every statement and every step of a worker is shown to be one
of them, run by run, from `IInv`. One fact had to be added: the MERGEs still on
their way carry the staged bytes (`OrphansAreStaged`), without which a late MERGE
could store what the contract does not allow.

`ServiceProofs` proves every safety property of `service`, for any runs, workers,
dispatchers and faults: `WakeupSeesOutcome`, `DeliveredWasAccepted`,
`DuplicatesAreFaults`, `EventFollowsLedger`, the action property `SettledIsFinal`,
and that dispatchers leave the contract implemented. `ServiceInv` joins `IInv` to
the events: the state of an event fits the status of its row (`EventFits`), a live
claim is on an event being delivered, and a dispatcher past its poll has an ended
run before it. The counting in `DuplicatesAreFaults` needs more than it says: a
dispatcher whose claim expired may still post, so that the copies it may yet add
are counted with those accepted (`CopiesPaid`: accepted copies and lost claims
together are paid for by the faults, and by the one copy that settles the event).
What statements of workers and clients do to an event is one lemma shape
(`EventKept`), what a dispatcher does to it another.

`ScenarioProofs` proves every safety property of `scenario` for any runs, attempts
and modes. `ScenarioInv` says which lease an attempt has
(`LeasesFit`: it waits exactly until the lease of its number), what holds at each step
(`StepsFit`), that a target belongs to an attempt that has created it
(`TargetsFit`) and that a workflow is dispatched once and found only after it
appeared and counted as younger than the slack at the dispatch (`WorkflowsFit`).
For the verdicts `ObservedInv` follows each one on its way from where it was
observed, through the registry and the workflow that carries it, to the attempt
that fetches it. `VerdictsAreObserved` follows without a condition on images or
tags.

`EvaluatorProofs` proves `VerdictAsWritten` for any limit: clamping changes only which
gaps of at least the limit are admitted (lemmas on `Clamp`), so that rule and
clamped rule agree on every shorter text. Of the firewall it proves
`VerdictFollowsText` and `SyntaxesAgree` for any hosts and ports and rules of any
length: its invariant says that the rule being compiled is what the options read
so far say, the last one of each kind deciding (`ReadSoFar`), and that a compiled
compact rule is its text (`CompactMeaning`).

`ProducerProofs` proves every safety property of `producer_inputs` and
`NothingInlineRuns`, for any tables and rewrites: what an attempt holds after each
verified read is a part of what its locator digests, which no later rewrite can
change. For `SoundIsNotRefused` the converse is followed: each form a producer
publishes passes each comparison, whichever read met which form. Two assumptions
say what the constants are: the locators digest results that pass for results of
their producer (`LocatorAssumption`), and the published tables hold one row of each
under these digests (`PublishedAssumption`).

`BackoffProofs` proves `QuietIsKept` and `ScheduleIsKept` for any width, schedule and
number of dispatchers. The invariant of the first is that the due time in the row
is never before the pause the receiver asked for, and its arithmetic that a
wrapped duration is still a duration. The second sums the schedule: the due time
is never before what the schedule has spent, and a dispatcher under the claim in the
row records the attempt the row counts (`ScheduleInv`). `Spent` is a recursive
function; that its equation has a solution, and so that `Spent` satisfies it, is
the lemma `SpentUnfolds`.

`SharedProofs` proves every property of `shared_contract`, for any documents, texts,
transformations and profiles. `ExecutionInv` says that what is executed was
checked and prepared, that the results answer their obligations one by one and
in order, each case within what the control allows (`Answers`), and that an
outcome is what the results add up to. On it rest five theorems, each with a
theory of its own operators:

* `DispositionsAreJust`: what `Evaluate` finds by trying values, components and
  alternatives in order is what the disjunction of conjunctions says without order
  (the first place that stops decides: `Min1` of a set of places);
* `RoutesAreAncestral`: a bound alternative that applies is among those that apply
  without routes;
* `AcceptedIsComplete`: `Coverage` walks the graph with the path it came by, the
  property speaks of the least set closed under references. `Coverage` is sound
  for graphs of any shape: where the walk reports no error, it found exactly
  what is reached (`WalkFindsReached`). A counterexample would have one with a
  largest path, and its references would be counterexamples with larger ones. That
  the recursion defines a function at all is proved before (`WalkExists`,
  `WalkUnfolds`);
* `BlockedIsEarned`: the two together;
* `AccountingIsExact`: comparing sets, counts and totals (`AccountingHolds`) accepts
  exactly the outcomes with one disposed case per required pair, for the outcome
  reached and each of its alterations (`Altered`). Hence no accepted document ends
  as a malfunction.

The assumption is `DocumentAssumption`, which the schemas of the results justify:
arrays are arrays, an obligation requires an input, a route has its five texts.

No theorem uses induction over data as a rule. Where an argument is inductive, the
proof takes a least number (`LeastNat`) or a largest subset (`LargestSubset`) of
a set defined in place, whose existence follows from the well-founded order of
finite sets.

Every safety invariant and action property that a passing run checks is proved.
Only model-checked are the liveness properties (`EveryRunEnds`, `CallerIsWoken`,
`HandlersReturn`, `AttemptsReturn`), which are outside the prover's reach, and the
two violated ones, which are false.

Run `tlapm` on `RunProofs.tla`, `ServiceProofs.tla`, `SubmissionProofs.tla`,
`ProducerProofs.tla`, `ScenarioProofs.tla`, `EvaluatorProofs.tla`, `BackoffProofs.tla`
and `SharedProofs.tla`; each takes a few minutes at most from nothing.

## 5. Not modelled

* The synchronous compatibility API: it executes within the request and writes
  one finished row that is never updated. Its input checks are those of
  `ProducerInputs`, its execution is that of `ScenarioExecution`.
* Field validation (a flag of the submission), status and result views and the
  list, which only read; the host allowlist (a set of allowed URLs).
* The column migration and the draining HTTP server at start and shutdown: DDL
  before any handler runs, and a wait with a deadline.
* Languages: regular expressions beyond the quantifier and two marks, JSON and
  JSON schemas, CIDR arithmetic. They enter as sets of texts, flags of a
  document and sets of addresses. Digests are the digested contents, so no
  collision is considered.
* The web UI (static pages over the API), the vendored JSON Schema validator,
  deployment and CI files, logging: no state of the service's own.

## 6. Findings

Three statements of the README are refuted by runs.

README.md:95-96 says "Recovery republishes the same staged bytes and never
reruns the check". The second half holds (`ExecutionBudget`). The first does
not: a lease that finds `publication_pending` set only verifies
(`worker.go:239`, `worker.go:262-269`). If the process stops after
`MarkPublicationPending` and before the MERGE, no later lease sends it,
`RetryVerification` spends its attempts, and a run with a perfectly good staged
result fails. `run_republish` shows the shortest such behaviour. The choice
not to republish is what makes `AtMostOneMerge` hold; the README describes
another design.

README.md:65-66 says the shared path "also verifies RFC 8785 digests, CG source
projection and complete ancestry". The members that an obligation's coverage
reaches are computed and then discarded (`shared_contract_v2.go:565`,
`_ = expectedMembers`), and no other check compares the members of a component
with those of the source. `shared_ancestry` shows accepted semantics whose
component names a member the source does not have.

README.md:197-199 says of firewall mode that it "parses the candidate firewall rule
and a supplied **network-connection** test (5-tuple) and decides block/pass
in-process". `normalizeRequestDefaults` (`lifecycle.go:169-192`) decodes `test_basis` into
a `TestBasisSpec` and stores that struct encoded again. It has no `connection`, so
that of a firewall test is gone before the request is digested and stored: every
such run evaluates an empty connection, and two submissions of one key whose
connections differ are both accepted, with one run. `submission_connection` shows
an accepted firewall run without its connection.

Noticed while modelling, without a run of their own:

* `substrate_github.go:52-59` looks for "the run whose display name matches" and
  takes one created up to five seconds before the dispatch. A workflow
  that an earlier attempt of the run dispatched has the same name: if it
  was created in that time, or later, its result may be taken instead.

* `substrate_firewall.go:117` says the port set "takes precedence". A `--dports`
  list of reversed ranges gives an empty set, which `matches` takes for no set:
  the rule then applies to every port. `VerdictFollowsText` leaves reversed
  ranges out.
* README.md:171-172 says the WAF enforces the rule's "deny/status". `evaluate`
  does not look at the action: a matching rule with `pass` blocks.
* `executor.go:546` calls the container name "unique per submit". It is the
  run's, so after a crash the container of the first attempt holds the name a
  second attempt asks for.
* README.md:219-221 says the ACI adapter creates a group, tests and deletes it. When
  `BeginCreateOrUpdate` reports an error although Azure accepted the request,
  the function returns before its cleanup exists (`substrate_aci.go:151`); this
  is one of the mishaps of `LeaksAreMishaps`.
* README.md:275-276 says the workflow runs "against the relayed image". `ghcrTarget`
  keeps the last path element and the tag, so images of two registries may share
  one tag and replace each other.
* README.md:73 says absent and empty bodies are not converted into one another. A
  shared rule on the whole body sees the empty text for both
  (`shared_contract_v2.go:1680`).
* `stimulus.go:66-67` builds "the vulnerable/attack request" with its query;
  the registered route then replaces the path and drops the query
  (`executor_locator.go:840`).
* README.md:54-55 says "a fixed 60-second deadline" for locator queries. The
  constant is 30 seconds (`executor_locator.go:36`) and `DATABRICKS_TIMEOUT`
  changes it.

## 7. What is left

1. An abstract specification of the shared contract (a set of required pairs, each
   disposed once) that `SharedExecution` is shown to implement.
2. Safety parts of the liveness arguments as theorems: measures that every step
   of a worker, a handler or an attempt decreases.
3. The synchronous path beside the durable one, over one table, and the column
   migration of a rolling upgrade.
4. `ScenarioExecution` in the place of `Execute`, with the worker's lease instead
   of a nondeterministic loss: the combined state space is beyond TLC today, but
   the proof of each half carries over once `Execute` is shown to be implemented.
