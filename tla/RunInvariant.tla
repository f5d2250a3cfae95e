----------------------------- MODULE RunInvariant -----------------------------
(***************************************************************************)
(* The inductive invariant behind the safety properties of RunSafety, and  *)
(* Advances, what any one step may do to a row: the two notions the proofs *)
(* of RunProofs are built from.                                            *)
(***************************************************************************)
EXTENDS RunSafety

\* A row past the publication cutoff: it can only end completed or failed.
Passed(o) == o.pending \/ o.status \in {"completed", "failed"}

\* How the columns of one row o hang together.
RowInv(o) ==
    /\ o.status = "absent" =>
          ~o.cancel /\ ~o.pending /\ o.attempt = 0 /\ o.response = NoBytes
    /\ o.status = "queued" =>
          (o.cancel => o.pending) /\ (o.attempt = 0 \/ o.response # NoBytes)
    /\ o.pending => o.status \in Unfinished /\ o.response # NoBytes
    /\ o.payload # NoBytes => o.response = o.payload
    /\ o.status \in Unfinished => o.payload = o.response
    /\ ~o.retryDue => o.status = "queued" /\ o.pending

\* How the row of a run and what the sink holds for it hang together.
SinkInv(r) ==
    /\ merges[r] <= 1
    /\ merges[r] > 0 => Passed(row[r])
    /\ merges[r] = 0 => orphan[r] = {} /\ sink[r] \in {NoRow, Foreign}
    /\ row[r].status = "completed" =>
          row[r].payload # NoBytes /\ sink[r] = row[r].payload

Staged == {"store", "fence", "mark", "publish", "readback", "verify", "complete",
           "conflict", "retry"}

\* What worker w may rely on at its next statement.
WorkerInv(w) ==
    LET o == row[R(w)]
        mine == Holds(R(w), w, T(w))
    IN
    /\ pc[w] \notin Polling => T(w) > 0 /\ (mine => o.pending = job[w].pending)
    /\ pc[w] \notin Polling \union {"execute"} => job[w].bytes # NoBytes
    /\ pc[w] = "execute" =>
          /\ T(w) <= MaxAttempts
          /\ ~job[w].recovered /\ ~job[w].pending
          /\ mine => o.response = NoBytes
    /\ pc[w] = "decide" =>
          IF job[w].recovered
          THEN job[w].kind = "verdict" /\ o.payload = job[w].bytes
          ELSE ~job[w].pending /\ (mine => o.response = NoBytes)
    /\ pc[w] \in {"stage", "fail"} => (mine => o.response = NoBytes)
    /\ pc[w] = "failOutcome" =>
          ~job[w].pending /\ (mine => o.payload \in {NoBytes, job[w].bytes})
    /\ pc[w] \in Staged => o.payload = job[w].bytes
    /\ pc[w] = "publish" => Passed(o) /\ merges[R(w)] = 0
    /\ pc[w] = "complete" => sink[R(w)] = job[w].bytes

\* At most one worker is about to publish a run.
OnePublisher ==
    \A v, w \in Workers :
        At(v, "publish") /\ At(w, "publish") /\ R(v) = R(w) => v = w

\* The inductive invariant: every step of Spec preserves it, and every safety
\* property of the worker system follows from it.
IInv ==
    /\ TypeOK
    /\ \A r \in Runs : RowInv(row[r])
    /\ \A r \in Runs : SinkInv(r)
    /\ \A w \in Workers : WorkerInv(w)
    /\ OnePublisher

-----------------------------------------------------------------------------

\* What a step of w may turn a row o into: it keeps the cutoff, the staged
\* bytes and the end of the run, and every lease but the ones of w.
Advances(o, n, w) ==
    /\ Passed(o) => Passed(n)
    /\ o.pending => n.status # "canceled"
    /\ o.status \in Terminal => n \in {o, [o EXCEPT !.payload = o.response]}
    /\ o.payload # NoBytes => n.payload = o.payload /\ n.response = o.response
    /\ n.status = "running" /\ n.owner # w =>
          /\ o.status = "running"
          /\ n.owner = o.owner /\ n.token = o.token
          /\ n.response = o.response /\ n.payload = o.payload /\ n.pending = o.pending
=============================================================================
