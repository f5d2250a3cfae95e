---------------------------- MODULE RunSubmission ----------------------------
(***************************************************************************)
(* POST /v1/mitigation-check-runs: handleAsyncSubmit (api/lifecycle.go)    *)
(* and CreateOrGet (api/lifecycle_store.go), for any number of handlers in *)
(* any number of replicas.  A call is one execution of the handler; a      *)
(* client's retry is a further call with the same, or an equivalent,       *)
(* submission, and may overlap the call whose answer was lost.             *)
(*                                                                         *)
(* CreateOrGet is a READ COMMITTED transaction of two statements, so       *)
(* BEGIN + INSERT, SELECT and COMMIT are actions of their own.  An         *)
(* uncommitted row holds its entry in the unique index on request_id: a    *)
(* second INSERT with that key waits for the first transaction to end.     *)
(*                                                                         *)
(* normalizeRequestDefaults runs before anything is compared or stored.    *)
(* It decodes test_basis into a TestBasisSpec and encodes that again, so   *)
(* that fields TestBasisSpec does not have are gone from the run.  The     *)
(* connection of a firewall's test is one of them.                         *)
(*                                                                         *)
(* Abstractions.  newID is random: a call's run id is named by the call.   *)
(* A digest is named by the normalized request it is the SHA-256 of.  The  *)
(* fields of the body no property tells apart are its content; whether     *)
(* they decode and validate is the flag wellFormed.  The three defaults    *)
(* of the test basis (method, path, headers) are treated as execution_mode *)
(* is, the one default that is modelled.                                   *)
(***************************************************************************)
CONSTANTS
    Calls,         \* executions of handleAsyncSubmit
    Keys,          \* Idempotency-Key and request_id values
    Correlations,  \* X-Correlation-ID and correlation_id values
    Modes,         \* execution_mode values
    DefaultMode,   \* execInMemory
    FirewallMode,  \* execFirewall, the mode whose test is a connection
    Connections,   \* test_basis.connection, which TestBasisSpec does not have
    Contents,      \* everything else in the body
    Urls,          \* X-Janus-Callback-URL values
    AllowedUrls,   \* HTTPS, no user or fragment, host allowlisted
    Workflows,     \* X-Janus-Callback-Workflow-ID values
    Signals,       \* X-Janus-Callback-Signal values
    CompletionSignal,  \* the one signal that is accepted
    Missing,       \* an absent or blank header or field
    Submissions,   \* the submissions clients send
    NoSubmission,
    NoCall

\* The three X-Janus-Callback-* headers.
Callback ==
    [url: Urls \union {Missing}, workflow: Workflows \union {Missing},
     signal: Signals \union {Missing}]

NoCallback == [url |-> Missing, workflow |-> Missing, signal |-> Missing]

Body ==
    [request_id: Keys \union {Missing}, correlation_id: Correlations \union {Missing},
     execution_mode: Modes \union {Missing},
     connection: Connections \union {Missing}, content: Contents]

Submission ==
    [key: Keys \union {Missing}, correlation: Correlations \union {Missing},
     callback: Callback, body: Body, wellFormed: BOOLEAN]

ASSUME SubmissionAssumption ==
    /\ Submissions \subseteq Submission
    /\ DefaultMode \in Modes /\ FirewallMode \in Modes
    /\ AllowedUrls \subseteq Urls
    /\ CompletionSignal \in Signals
    /\ NoSubmission \notin Submissions
    /\ NoCall \notin Calls
    /\ Missing \notin Keys \union Correlations \union Modes \union Connections
                        \union Urls \union Workflows \union Signals

VARIABLES
    table,  \* table[c]: the row inserted with the run id of call c
    call    \* call[c]: where call c stands, what it read and answered

submissionVars == <<table, call>>

Unfinished == {"queued", "running"}
Terminal   == {"completed", "failed", "canceled"}

Row == [key: Keys, request: Body, callback: Callback,
        status: Unfinished \union Terminal, committed: BOOLEAN]

\* No row with this run id.
Vacant == [committed |-> FALSE]

Phase == {"new", "received", "inserted", "read", "committed", "done", "dead"}

Code == {"none", "rejected", "accepted", "finished", "idempotency_conflict",
         "idempotency_callback_conflict", "ledger_unavailable"}

\* run and stored are the row the SELECT returned, created the INSERT's
\* RowsAffected = 1, code the answer (accepted is 202, finished 200).
Call == [phase: Phase, sub: Submissions \union {NoSubmission}, created: BOOLEAN,
         run: Calls \union {NoCall}, stored: Row \union {Vacant}, code: Code]

NewCall == [phase |-> "new", sub |-> NoSubmission, created |-> FALSE,
            run |-> NoCall, stored |-> Vacant, code |-> "none"]

TypeOK ==
    /\ table \in [Calls -> Row \union {Vacant}]
    /\ call \in [Calls -> Call]
    /\ \A c \in Calls : call[c].phase # "new" => call[c].sub \in Submissions

Init ==
    /\ table = [c \in Calls |-> Vacant]
    /\ call = [c \in Calls |-> NewCall]

-----------------------------------------------------------------------------
(* The request. *)

OrElse(value, default) == IF value = Missing THEN default ELSE value

\* Wrong on purpose: the digest is taken before the defaults are filled in.
NormalizedLate(s) ==
    [s.body EXCEPT !.request_id     = OrElse(@, s.key),
                   !.correlation_id = OrElse(@, s.correlation),
                   !.connection     = Missing]

\* The body after the headers and normalizeRequestDefaults filled its gaps, and
\* after test_basis went through TestBasisSpec.
Normalized(s) ==
    [s.body EXCEPT !.request_id     = OrElse(@, s.key),
                   !.correlation_id = OrElse(@, s.correlation),
                   !.execution_mode = OrElse(@, DefaultMode),
                   !.connection     = Missing]

\* callbackMetadataFromHeaders: none of the three headers, or three good ones.
CallbackAllowed(h) ==
    \/ h = NoCallback
    \/ /\ h.url \in AllowedUrls
       /\ h.workflow # Missing
       /\ h.signal = CompletionSignal

\* What gets past the early returns of handleAsyncSubmit.
Acceptable(s) ==
    /\ s.key # Missing /\ s.correlation # Missing
    /\ CallbackAllowed(s.callback)
    /\ s.wellFormed
    /\ Normalized(s).request_id = s.key
    /\ Normalized(s).correlation_id = s.correlation

-----------------------------------------------------------------------------
(* The handler. *)

Sub(c) == call[c].sub

\* The rows the SELECT of c sees: committed ones and its own.
Visible(c, d) == table[d].committed \/ (d = c /\ table[d] # Vacant)

HasKey(d, k) == table[d] # Vacant /\ table[d].key = k

NewRow(s) == [key |-> s.key, request |-> Normalized(s), callback |-> s.callback,
              status |-> "queued", committed |-> FALSE]

Rollback(c) == table' = [table EXCEPT ![c] = IF @.committed THEN @ ELSE Vacant]

Finish(c, code) ==
    call' = [call EXCEPT ![c].phase = "done", ![c].stored = Vacant, ![c].code = code]

Receive(c) ==
    /\ call[c].phase = "new"
    /\ \E s \in Submissions :
          call' = [call EXCEPT ![c].phase = "received", ![c].sub = s]
    /\ UNCHANGED table

\* 400 or 415: the store is not touched.
Reject(c) ==
    /\ call[c].phase = "received" /\ ~Acceptable(Sub(c))
    /\ Finish(c, "rejected")
    /\ UNCHANGED table

\* Wrong on purpose: looks for a committed row first, and has no unique index.
InsertUnchecked(c) ==
    /\ call[c].phase = "received" /\ Acceptable(Sub(c))
    /\ LET free == \A d \in Calls : HasKey(d, Sub(c).key) => ~table[d].committed IN
         /\ table' = IF free THEN [table EXCEPT ![c] = NewRow(Sub(c))] ELSE table
         /\ call' = [call EXCEPT ![c].phase = "inserted", ![c].created = free]

\* BEGIN; INSERT ... ON CONFLICT (request_id) DO NOTHING, after any other
\* transaction that inserted the key has ended.
Insert(c) ==
    /\ call[c].phase = "received" /\ Acceptable(Sub(c))
    /\ \A d \in Calls : HasKey(d, Sub(c).key) => table[d].committed
    /\ LET free == \A d \in Calls : ~HasKey(d, Sub(c).key) IN
         /\ table' = IF free THEN [table EXCEPT ![c] = NewRow(Sub(c))] ELSE table
         /\ call' = [call EXCEPT ![c].phase = "inserted", ![c].created = free]

\* SELECT ... WHERE request_id = key.
Select(c) ==
    /\ call[c].phase = "inserted"
    /\ \E d \in Calls :
          /\ Visible(c, d) /\ table[d].key = Sub(c).key
          /\ call' = [call EXCEPT ![c].phase = "read", ![c].run = d,
                                  ![c].stored = table[d]]
    /\ UNCHANGED table

Committed(c) ==
    table' = IF call[c].created THEN [table EXCEPT ![c].committed = TRUE] ELSE table

Commit(c) ==
    /\ call[c].phase = "read"
    /\ Committed(c)
    /\ call' = [call EXCEPT ![c].phase = "committed"]

\* The COMMIT took effect but its answer was lost: 500 for a run that exists.
CommitUnknown(c) ==
    /\ call[c].phase = "read"
    /\ Committed(c)
    /\ Finish(c, "ledger_unavailable")

\* Wrong on purpose: a failed handler leaves its transaction open.
FailLeavingOpen(c) ==
    /\ \/ call[c].phase \in {"inserted", "read"}
       \/ call[c].phase = "received" /\ Acceptable(Sub(c))
    /\ Finish(c, "ledger_unavailable")
    /\ UNCHANGED table

\* A statement or the COMMIT failed, or the client hung up and canceled the
\* request's context: 500, with the transaction rolled back.
Fail(c) ==
    /\ \/ call[c].phase \in {"inserted", "read"}
       \/ call[c].phase = "received" /\ Acceptable(Sub(c))
    /\ Rollback(c)
    /\ Finish(c, "ledger_unavailable")

\* Wrong on purpose: callback metadata is not part of the comparison.
VerdictByDigest(c) ==
    LET o == call[c] IN
    IF o.stored.request # Normalized(o.sub) THEN "idempotency_conflict"
    ELSE IF ~o.created /\ o.stored.status \in Terminal THEN "finished" ELSE "accepted"

\* What the handler answers from the stored run.
Verdict(c) ==
    LET o == call[c] IN
    CASE o.stored.request # Normalized(o.sub) -> "idempotency_conflict"
      [] o.stored.request = Normalized(o.sub) /\ o.stored.callback # o.sub.callback
           -> "idempotency_callback_conflict"
      [] OTHER -> IF ~o.created /\ o.stored.status \in Terminal
                  THEN "finished" ELSE "accepted"

Reply(c) ==
    /\ call[c].phase = "committed"
    /\ Finish(c, Verdict(c))
    /\ UNCHANGED table

\* The process stops in the middle of the call; PostgreSQL rolls back.
Crash(c) ==
    /\ call[c].phase \in {"received", "inserted", "read", "committed"}
    /\ Rollback(c)
    /\ call' = [call EXCEPT ![c].phase = "dead", ![c].stored = Vacant]

\* Workers and cancel requests move a committed run on, in the meantime.
Moves ==
    {<<"queued", "running">>, <<"queued", "canceled">>, <<"running", "queued">>,
     <<"running", "completed">>, <<"running", "failed">>, <<"running", "canceled">>}

RunMoves(d) ==
    /\ table[d].committed
    /\ \E to \in Unfinished \union Terminal :
          /\ <<table[d].status, to>> \in Moves
          /\ table' = [table EXCEPT ![d].status = to]
    /\ UNCHANGED call

Handler(c) == Reject(c) \/ Insert(c) \/ Select(c) \/ Commit(c) \/ Reply(c)

Next ==
    \E c \in Calls : \/ Receive(c) \/ Handler(c)
                     \/ CommitUnknown(c) \/ Fail(c) \/ Crash(c)
                     \/ RunMoves(c)

Spec == Init /\ [][Next]_submissionVars

\* Go runs every handler; the database answers or the handler fails.
LiveSpec == Spec /\ \A c \in Calls : WF_submissionVars(Handler(c))

-----------------------------------------------------------------------------

Accepted(c) == call[c].code \in {"accepted", "finished"}
Conflict(c) == call[c].code \in {"idempotency_conflict", "idempotency_callback_conflict"}

\* Two submissions that the code takes for the same (README.md:17-22, 34-36),
\* defined without normalization: a default left out is the default spelled out,
\* and the connection of a firewall's test is not looked at.
SameMode(a, b) == a = b \/ {a, b} = {Missing, DefaultMode}

Equivalent(s, t) ==
    /\ s.key = t.key
    /\ s.correlation = t.correlation
    /\ s.callback = t.callback
    /\ s.body.content = t.body.content
    /\ SameMode(s.body.execution_mode, t.body.execution_mode)

\* An Idempotency-Key names one run for ever: calls that raced, were retried or
\* lost their answer are never told two run ids, and no second row is committed.
OneRunPerKey ==
    /\ \A c, d \in Calls :
          Accepted(c) /\ Accepted(d) /\ Sub(c).key = Sub(d).key
             => call[c].run = call[d].run
    /\ \A c, d \in Calls :
          table[c].committed /\ table[d].committed /\ table[c].key = table[d].key
             => c = d

\* "persists a queued PostgreSQL ledger row before returning 202" (README.md:9):
\* whatever was accepted is committed, though commits fail and processes stop.
AcceptedIsDurable == \A c \in Calls : Accepted(c) => table[call[c].run].committed

\* The run a client is given has the client's ids, mode and content and wakes
\* the client's callback, never those of whoever used the key first.  Stated
\* field by field: it says nothing of the connection, which is lost.
AcceptedRunsRequest ==
    \A c \in Calls : Accepted(c) =>
        LET run == table[call[c].run] IN
        /\ run # Vacant
        /\ run.request.request_id = Sub(c).key
        /\ run.request.correlation_id = Sub(c).correlation
        /\ SameMode(run.request.execution_mode, Sub(c).body.execution_mode)
        /\ run.request.execution_mode # Missing
        /\ run.request.content = Sub(c).body.content
        /\ run.callback = Sub(c).callback

\* "a supplied **network-connection** test (5-tuple)" (README.md:198): an
\* accepted firewall run tests the connection its client supplied.  The code
\* violates it: normalizeRequestDefaults (lifecycle.go:176-190) drops it.
SuppliedConnectionIsTested ==
    \A c \in Calls :
        Accepted(c) /\ table[call[c].run].request.execution_mode = FirewallMode =>
            table[call[c].run].request.connection = Sub(c).body.connection

\* Once a key was accepted, every later or concurrent call that gets past the
\* ledger is accepted exactly when the code takes it for the same submission:
\* one that differs in more than defaults and the connection never is.
RetriesAgree ==
    \A c, d \in Calls :
        Accepted(c) /\ (Accepted(d) \/ Conflict(d)) /\ Sub(c).key = Sub(d).key
            => (Accepted(d) <=> Equivalent(Sub(c), Sub(d)))

\* No call leaves behind an open transaction that blocks its key, and no refused
\* call leaves a run that a worker would execute.
RowsHaveOwners ==
    \A c \in Calls : table[c] # Vacant =>
        /\ ~table[c].committed => call[c].phase \in {"inserted", "read"}
        /\ call[c].code # "rejected" /\ ~Conflict(c)

\* What makes these inductive.  A row is its creator's, as submitted ...
RowFits(c) ==
    table[c] # Vacant =>
        /\ call[c].created /\ call[c].phase \notin {"new", "received"}
        /\ table[c].key = Sub(c).key
        /\ table[c].request = Normalized(Sub(c))
        /\ table[c].callback = Sub(c).callback
        /\ ~table[c].committed => call[c].phase \in {"inserted", "read"}

\* ... only an INSERT creates, and a creator keeps its row until it answers ...
CreatorHasRow(c) ==
    /\ call[c].created /\ call[c].phase \in {"inserted", "read", "committed"}
         => table[c] # Vacant
    /\ call[c].phase \in {"new", "received"} => ~call[c].created
    /\ call[c].code = "rejected" \/ Conflict(c) => ~call[c].created
    /\ call[c].code # "none" => call[c].phase = "done"

\* (the row c read is that of its key, and what c remembers of it is true)
ReadFits(c) ==
    /\ call[c].run \in Calls
    /\ HasKey(call[c].run, Sub(c).key)
    /\ call[c].stored.request = table[call[c].run].request
    /\ call[c].stored.callback = table[call[c].run].callback

\* ... and what a call read stays true until it answers ...
ReadHolds(c) ==
    /\ call[c].phase \in {"inserted", "read", "committed"} => Acceptable(Sub(c))
    /\ call[c].phase = "read" => ReadFits(c) /\ Visible(c, call[c].run)
    /\ call[c].phase = "committed" => ReadFits(c) /\ table[call[c].run].committed

\* ... and ever after.
AnswerHolds(c) ==
    Accepted(c) \/ Conflict(c) =>
        /\ Acceptable(Sub(c))
        /\ call[c].run \in Calls
        /\ table[call[c].run].committed
        /\ HasKey(call[c].run, Sub(c).key)
        /\ Accepted(c) <=> /\ table[call[c].run].request = Normalized(Sub(c))
                           /\ table[call[c].run].callback = Sub(c).callback

CallHolds(c) == RowFits(c) /\ CreatorHasRow(c) /\ ReadHolds(c) /\ AnswerHolds(c)

\* The unique index holds for uncommitted rows too.
KeysUnique ==
    \A c, d \in Calls :
        table[c] # Vacant /\ HasKey(d, table[c].key) => c = d

\* The inductive invariant.
SubmissionInv ==
    /\ TypeOK
    /\ KeysUnique
    /\ \A c \in Calls : CallHolds(c)

\* A handler that waits for another transaction with its key gets its turn.
HandlersReturn ==
    \A c \in Calls : call[c].phase = "received" ~> call[c].phase \in {"done", "dead"}
=============================================================================
