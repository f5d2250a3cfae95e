--------------------------- MODULE SubmissionProofs ---------------------------
(***************************************************************************)
(* Theorems about RunSubmission, for any calls, submissions and keys.      *)
(***************************************************************************)
EXTENDS RunSubmission, TLAPS

USE SubmissionAssumption

\* An inserted row is a row of the table, and none is Vacant.
LEMMA RowShape ==
    ASSUME NEW o \in Row PROVE o # Vacant
<1>1. "key" \in DOMAIN o
    BY DEF Row
<1>2. "key" \notin DOMAIN Vacant
    BY DEF Vacant
<1> QED
    BY <1>1, <1>2

\* Normalization fills gaps with keys, correlations and modes.
LEMMA NormalizedType ==
    ASSUME NEW s \in Submissions, Acceptable(s)
    PROVE  /\ Normalized(s) \in Body
           /\ s.key \in Keys
           /\ s.callback \in Callback
BY DEF Submission, Acceptable, Normalized, OrElse, Body

LEMMA NewRowType ==
    ASSUME NEW s \in Submissions, Acceptable(s)
    PROVE  NewRow(s) \in Row
BY NormalizedType DEF NewRow, Row, Unfinished

LEMMA InitTypeOK == Init => TypeOK
BY DEF Init, TypeOK, NewCall, Call, Phase, Code, Vacant

-----------------------------------------------------------------------------
(* Effects on the table.  A step of call c keeps every row that another      *)
(* call may rely on: the committed ones, and those of other calls.           *)

Keeps(c) ==
    /\ table' \in [Calls -> Row \union {Vacant}]
    /\ \A e \in Calls : e # c /\ table[e] = Vacant => table'[e] = Vacant
    /\ \A e \in Calls : table[e] # Vacant /\ (e # c \/ table[e].committed) =>
         /\ table'[e] # Vacant
         /\ table'[e].key = table[e].key
         /\ table'[e].request = table[e].request
         /\ table'[e].callback = table[e].callback
         /\ table[e].committed => table'[e].committed

\* Only a creator commits, and it commits the row it inserted.
LEMMA CommittedRow ==
    ASSUME SubmissionInv, NEW c \in Calls, call[c].phase = "read", Committed(c)
    PROVE  /\ Keeps(c)
           /\ table'[c] = Vacant <=> table[c] = Vacant
           /\ table[c] # Vacant =>
                /\ table'[c].committed
                /\ table'[c].key = table[c].key
                /\ table'[c].request = table[c].request
                /\ table'[c].callback = table[c].callback
<1>0. table[c] # Vacant <=> call[c].created
    BY DEF SubmissionInv, CallHolds, RowFits, CreatorHasRow
<1>1. CASE ~call[c].created
    BY <1>0, <1>1 DEF Committed, SubmissionInv, TypeOK, Keeps
<1>2. CASE call[c].created
  <2>1. table[c] \in Row
    BY <1>0, <1>2 DEF SubmissionInv, TypeOK
  <2>2. /\ table' = [table EXCEPT ![c] = [table[c] EXCEPT !.committed = TRUE]]
        /\ [table[c] EXCEPT !.committed = TRUE] \in Row
    BY <1>2, <2>1 DEF Committed, Row
  <2>3. [table[c] EXCEPT !.committed = TRUE] # Vacant
    BY <2>2, RowShape
  <2> QED
    BY <2>1, <2>2, <2>3, RowShape DEF SubmissionInv, TypeOK, Row, Keeps
<1> QED
    BY <1>1, <1>2

\* A rollback takes away the caller's uncommitted row and nothing else.
LEMMA RolledBackRow ==
    ASSUME TypeOK, NEW c \in Calls, Rollback(c)
    PROVE  /\ Keeps(c)
           /\ table'[c] = IF table[c].committed THEN table[c] ELSE Vacant
<1>1. Vacant.committed = FALSE
    BY DEF Vacant
<1> QED
    BY <1>1 DEF TypeOK, Rollback, Keeps

\* Workers move a run on and leave its request alone.
LEMMA MovedRow ==
    ASSUME TypeOK, NEW c \in Calls, RunMoves(c)
    PROVE  /\ table' \in [Calls -> Row \union {Vacant}]
           /\ \A d \in Calls : table'[d] = Vacant <=> table[d] = Vacant
           /\ \A d \in Calls : table[d] # Vacant =>
                /\ table'[d].key = table[d].key
                /\ table'[d].request = table[d].request
                /\ table'[d].callback = table[d].callback
                /\ table'[d].committed = table[d].committed
<1>1. PICK to \in Unfinished \union Terminal : table' = [table EXCEPT ![c].status = to]
    BY DEF RunMoves
<1>2. table[c] \in Row
    BY DEF TypeOK, RunMoves, Vacant
<1>3. /\ table' = [table EXCEPT ![c] = [table[c] EXCEPT !.status = to]]
      /\ [table[c] EXCEPT !.status = to] \in Row
    BY <1>1, <1>2 DEF Row
<1>4. [table[c] EXCEPT !.status = to] # Vacant
    BY <1>3, RowShape
<1> QED
    BY <1>2, <1>3, <1>4, RowShape DEF TypeOK, Row

-----------------------------------------------------------------------------
(* Effects on the calls. *)

\* The record of one call is replaced by another well-typed one.
LEMMA CallReplaced ==
    ASSUME TypeOK, NEW c \in Calls, NEW o \in Call, o.sub \in Submissions,
           call' = [call EXCEPT ![c] = o],
           table' \in [Calls -> Row \union {Vacant}]
    PROVE  TypeOK' /\ call'[c] = o /\ \A d \in Calls : d # c => call'[d] = call[d]
BY DEF TypeOK

\* The record of a call that answers.
LEMMA AnswerType ==
    ASSUME TypeOK, NEW c \in Calls, NEW k \in Code, call[c].phase # "new"
    PROVE  LET o == [call[c] EXCEPT !.phase = "done", !.stored = Vacant, !.code = k] IN
           /\ o \in Call /\ o.sub \in Submissions /\ o.sub = Sub(c)
           /\ o.phase = "done" /\ o.code = k
           /\ o.created = call[c].created /\ o.run = call[c].run
<1> call[c] \in Call /\ call[c].sub \in Submissions
    BY DEF TypeOK
<1> QED
    BY DEF Call, Phase, Sub

\* What the other calls know survives a step of c.
LEMMA OthersKeep ==
    ASSUME SubmissionInv, NEW c \in Calls, Keeps(c),
           NEW d \in Calls, d # c, call'[d] = call[d]
    PROVE  CallHolds(d)'
<1>1. CallHolds(d)
    BY DEF SubmissionInv
<1>2. RowFits(d)'
    BY <1>1 DEF CallHolds, RowFits, Keeps, Sub
<1>3. CreatorHasRow(d)'
    BY <1>1 DEF CallHolds, CreatorHasRow, Keeps, Conflict
<1>4. ReadHolds(d)'
    BY <1>1 DEF CallHolds, ReadHolds, ReadFits, HasKey, Visible, Keeps, Sub
<1>5. AnswerHolds(d)'
    BY <1>1 DEF CallHolds, AnswerHolds, Accepted, Conflict, HasKey, Keeps, Sub
<1> QED
    BY <1>2, <1>3, <1>4, <1>5 DEF CallHolds

\* Rows that keep their keys, without a new one, keep the index unique.
LEMMA KeysStayUnique ==
    ASSUME SubmissionInv,
           \A e \in Calls : table'[e] # Vacant =>
               table[e] # Vacant /\ table'[e].key = table[e].key
    PROVE  KeysUnique'
BY DEF SubmissionInv, KeysUnique, HasKey

LEMMA InitInv == Init => SubmissionInv
<1> SUFFICES ASSUME Init PROVE SubmissionInv
    OBVIOUS
<1>1. /\ \A c \in Calls : table[c] = Vacant
      /\ \A c \in Calls : call[c] = NewCall
    BY DEF Init
<1> QED
    BY <1>1, InitTypeOK
    DEF SubmissionInv, CallHolds, RowFits, KeysUnique, CreatorHasRow, ReadHolds,
        AnswerHolds, NewCall, HasKey, Accepted, Conflict

-----------------------------------------------------------------------------
(* One lemma per action: the record of c becomes o, every other call keeps   *)
(* what it knows, and c itself knows what the statement told it.             *)

LEMMA ReceivePreserves ==
    ASSUME SubmissionInv, NEW c \in Calls, Receive(c) PROVE SubmissionInv'
<1>1. PICK s \in Submissions :
         call' = [call EXCEPT ![c] = [call[c] EXCEPT !.phase = "received", !.sub = s]]
    BY DEF Receive, SubmissionInv, TypeOK
<1>2. table' = table /\ call[c].phase = "new"
    BY DEF Receive
<1> DEFINE o == [call[c] EXCEPT !.phase = "received", !.sub = s]
<1>3. o \in Call /\ o.sub \in Submissions
    BY DEF SubmissionInv, TypeOK, Call, Phase
<1>4. TypeOK' /\ call'[c] = o /\ \A d \in Calls : d # c => call'[d] = call[d]
    BY <1>1, <1>2, <1>3, CallReplaced DEF SubmissionInv, TypeOK
<1>5. Keeps(c) /\ KeysUnique'
    BY <1>2, KeysStayUnique DEF Keeps, SubmissionInv, TypeOK
<1>6. CallHolds(c)'
  <2>1. /\ table[c] = Vacant /\ ~call[c].created
        /\ call[c].code = "none"
    BY <1>2 DEF SubmissionInv, CallHolds, RowFits, CreatorHasRow
  <2>2. /\ o.phase = "received" /\ ~o.created /\ o.code = "none"
    BY <2>1 DEF SubmissionInv, TypeOK, Call
  <2> QED
    BY <1>2, <1>4, <2>1, <2>2
    DEF CallHolds, RowFits, CreatorHasRow, ReadHolds, AnswerHolds, Accepted, Conflict
<1> QED
    BY <1>4, <1>5, <1>6, OthersKeep DEF SubmissionInv

LEMMA RejectPreserves ==
    ASSUME SubmissionInv, NEW c \in Calls, Reject(c) PROVE SubmissionInv'
<1> DEFINE o == [call[c] EXCEPT !.phase = "done", !.stored = Vacant, !.code = "rejected"]
<1>1. call' = [call EXCEPT ![c] = o] /\ table' = table /\ call[c].phase = "received"
    BY DEF Reject, Finish, SubmissionInv, TypeOK
<1>2. o \in Call /\ o.sub \in Submissions
    BY <1>1, AnswerType DEF SubmissionInv, Code
<1>3. TypeOK' /\ call'[c] = o /\ \A d \in Calls : d # c => call'[d] = call[d]
    BY <1>1, <1>2, CallReplaced DEF SubmissionInv, TypeOK
<1>4. Keeps(c) /\ KeysUnique'
    BY <1>1, KeysStayUnique DEF Keeps, SubmissionInv, TypeOK
<1>5. CallHolds(c)'
  <2>1. table[c] = Vacant /\ ~call[c].created
    BY <1>1 DEF SubmissionInv, CallHolds, RowFits, CreatorHasRow
  <2>2. o.phase = "done" /\ ~o.created /\ o.code = "rejected"
    BY <2>1 DEF SubmissionInv, TypeOK, Call
  <2> QED
    BY <1>1, <1>3, <2>1, <2>2
    DEF CallHolds, RowFits, CreatorHasRow, ReadHolds, AnswerHolds, Accepted, Conflict
<1> QED
    BY <1>3, <1>4, <1>5, OthersKeep DEF SubmissionInv

LEMMA InsertPreserves ==
    ASSUME SubmissionInv, NEW c \in Calls, Insert(c) PROVE SubmissionInv'
<1> DEFINE free == \A d \in Calls : ~HasKey(d, Sub(c).key)
           o == [call[c] EXCEPT !.phase = "inserted", !.created = free]
<1>1. /\ call' = [call EXCEPT ![c] = o]
      /\ table' = IF free THEN [table EXCEPT ![c] = NewRow(Sub(c))] ELSE table
      /\ call[c].phase = "received" /\ Acceptable(Sub(c))
    BY DEF Insert, SubmissionInv, TypeOK
<1>2. /\ o \in Call /\ o.sub \in Submissions
      /\ o.sub = Sub(c)
    BY <1>1 DEF SubmissionInv, TypeOK, Call, Phase, Sub
<1>3. /\ NewRow(Sub(c)) \in Row /\ NewRow(Sub(c)) # Vacant
      /\ table[c] = Vacant /\ ~call[c].created /\ call[c].code = "none"
    BY <1>1, <1>2, NewRowType, RowShape
    DEF SubmissionInv, CallHolds, RowFits, CreatorHasRow, Sub
<1>4. Keeps(c)
    BY <1>1, <1>3 DEF Keeps, SubmissionInv, TypeOK
<1>5. TypeOK' /\ call'[c] = o /\ \A d \in Calls : d # c => call'[d] = call[d]
    BY <1>1, <1>2, <1>4, CallReplaced DEF SubmissionInv, Keeps
<1>6. KeysUnique'
  <2>1. CASE ~free
    BY <1>1, <2>1, KeysStayUnique
  <2>2. CASE free
    BY <1>1, <1>3, <2>2 DEF SubmissionInv, TypeOK, KeysUnique, HasKey, NewRow
  <2> QED
    BY <2>1, <2>2
<1>7. CallHolds(c)'
  <2>1. /\ o.phase = "inserted" /\ o.created = free /\ o.code = "none"
    BY <1>3 DEF SubmissionInv, TypeOK, Call
  <2>2. /\ free => table'[c] = NewRow(Sub(c))
        /\ ~free => table'[c] = Vacant
    BY <1>1, <1>3 DEF SubmissionInv, TypeOK
  <2>3. RowFits(c)'
    BY <1>2, <1>5, <2>1, <2>2 DEF RowFits, NewRow, Sub
  <2>4. CreatorHasRow(c)'
    BY <1>3, <1>5, <2>1, <2>2 DEF CreatorHasRow, Conflict
  <2>5. ReadHolds(c)' /\ AnswerHolds(c)'
    BY <1>1, <1>2, <1>5, <2>1 DEF ReadHolds, AnswerHolds, Accepted, Conflict, Sub
  <2> QED
    BY <2>3, <2>4, <2>5 DEF CallHolds
<1> QED
    BY <1>4, <1>5, <1>6, <1>7, OthersKeep DEF SubmissionInv

LEMMA SelectPreserves ==
    ASSUME SubmissionInv, NEW c \in Calls, Select(c) PROVE SubmissionInv'
<1>1. PICK d \in Calls :
         /\ Visible(c, d) /\ table[d].key = Sub(c).key
         /\ call' = [call EXCEPT ![c] = [call[c] EXCEPT !.phase = "read", !.run = d,
                                                        !.stored = table[d]]]
    BY DEF Select, SubmissionInv, TypeOK
<1>2. table' = table /\ call[c].phase = "inserted"
    BY DEF Select
<1> DEFINE o == [call[c] EXCEPT !.phase = "read", !.run = d, !.stored = table[d]]
<1>3. o \in Call /\ o.sub \in Submissions
    BY <1>2 DEF SubmissionInv, TypeOK, Call, Phase
<1>4. TypeOK' /\ call'[c] = o /\ \A e \in Calls : e # c => call'[e] = call[e]
    BY <1>1, <1>2, <1>3, CallReplaced DEF SubmissionInv, TypeOK
<1>5. Keeps(c) /\ KeysUnique'
    BY <1>2, KeysStayUnique DEF Keeps, SubmissionInv, TypeOK
<1>6. CallHolds(c)'
  <2>1. /\ o.phase = "read" /\ o.run = d /\ o.stored = table[d]
        /\ o.created = call[c].created /\ o.code = call[c].code /\ o.sub = Sub(c)
    BY DEF SubmissionInv, TypeOK, Call, Sub
  <2>2. CallHolds(c) /\ call[c].code = "none"
    BY <1>2 DEF SubmissionInv, CallHolds, CreatorHasRow
  <2>3. HasKey(d, Sub(c).key)
    BY <1>1 DEF Visible, HasKey, Vacant
  <2>4. RowFits(c)'
    BY <1>2, <1>4, <2>1, <2>2 DEF CallHolds, RowFits, Sub
  <2>5. CreatorHasRow(c)'
    BY <1>2, <1>4, <2>1, <2>2 DEF CallHolds, CreatorHasRow, Conflict
  <2>6. ReadHolds(c)'
    BY <1>1, <1>2, <1>4, <2>1, <2>2, <2>3
    DEF CallHolds, ReadHolds, ReadFits, HasKey, Visible, Sub
  <2>7. AnswerHolds(c)'
    BY <1>4, <2>1, <2>2 DEF AnswerHolds, Accepted, Conflict
  <2> QED
    BY <2>4, <2>5, <2>6, <2>7 DEF CallHolds
<1> QED
    BY <1>4, <1>5, <1>6, OthersKeep DEF SubmissionInv

\* A COMMIT makes the read row permanent: the caller's own, or one that was.
LEMMA CommitReads ==
    ASSUME SubmissionInv, NEW c \in Calls, call[c].phase = "read", Committed(c)
    PROVE  /\ Keeps(c) /\ KeysUnique'
           /\ call[c].run \in Calls
           /\ table'[call[c].run].committed
           /\ table'[call[c].run] # Vacant
           /\ table'[call[c].run].key = Sub(c).key
           /\ call[c].stored.request = table'[call[c].run].request
           /\ call[c].stored.callback = table'[call[c].run].callback
           /\ call[c].created => call[c].run = c
<1> DEFINE d == call[c].run
<1>1. ReadFits(c) /\ Visible(c, d)
    BY DEF SubmissionInv, CallHolds, ReadHolds
<1>2. call[c].created <=> table[c] # Vacant
    BY DEF SubmissionInv, CallHolds, RowFits, CreatorHasRow
<1>3. call[c].created => d = c
    BY <1>1, <1>2 DEF SubmissionInv, CallHolds, RowFits, ReadFits, KeysUnique, HasKey
<1>4. Keeps(c) /\ (table'[c] = Vacant <=> table[c] = Vacant)
    BY CommittedRow
<1>5. /\ table'[d] # Vacant /\ table'[d].committed
      /\ table'[d].key = table[d].key
      /\ table'[d].request = table[d].request
      /\ table'[d].callback = table[d].callback
    BY <1>1, CommittedRow DEF ReadFits, HasKey, Visible, Keeps
<1>6. KeysUnique'
  <2>1. \A e \in Calls : table'[e] # Vacant =>
            table[e] # Vacant /\ table'[e].key = table[e].key
    BY CommittedRow DEF Keeps
  <2> QED
    BY <2>1, KeysStayUnique
<1> QED
    BY <1>1, <1>3, <1>4, <1>5, <1>6 DEF ReadFits, HasKey

LEMMA CommitPreserves ==
    ASSUME SubmissionInv, NEW c \in Calls, Commit(c) PROVE SubmissionInv'
<1> DEFINE o == [call[c] EXCEPT !.phase = "committed"]
<1>1. /\ call' = [call EXCEPT ![c] = o]
      /\ Committed(c) /\ call[c].phase = "read"
    BY DEF Commit, SubmissionInv, TypeOK
<1>2. o \in Call /\ o.sub \in Submissions
    BY <1>1 DEF SubmissionInv, TypeOK, Call, Phase
<1>3. Keeps(c) /\ KeysUnique'
    BY <1>1, CommitReads
<1>4. TypeOK' /\ call'[c] = o /\ \A d \in Calls : d # c => call'[d] = call[d]
    BY <1>1, <1>2, <1>3, CallReplaced DEF SubmissionInv, Keeps
<1>5. CallHolds(c)'
  <2>1. /\ o.phase = "committed" /\ o.run = call[c].run /\ o.stored = call[c].stored
        /\ o.created = call[c].created /\ o.code = call[c].code /\ o.sub = Sub(c)
    BY DEF SubmissionInv, TypeOK, Call, Sub
  <2>2. CallHolds(c) /\ call[c].code = "none"
    BY <1>1 DEF SubmissionInv, CallHolds, CreatorHasRow
  <2>3. RowFits(c)' /\ CreatorHasRow(c)'
    BY <1>1, <1>4, <2>1, <2>2, CommittedRow
    DEF CallHolds, RowFits, CreatorHasRow, Conflict, Sub
  <2>4. ReadHolds(c)'
    <3> DEFINE d == call[c].run
    <3>1. Acceptable(Sub(c))
      BY <1>1, <2>2 DEF CallHolds, ReadHolds
    <3>2. /\ d \in Calls /\ table'[d].committed
          /\ table'[d] # Vacant /\ table'[d].key = Sub(c).key
          /\ o.stored.request = table'[d].request
          /\ o.stored.callback = table'[d].callback
      BY <1>1, <2>1, CommitReads
    <3> QED
      BY <1>4, <2>1, <3>1, <3>2 DEF ReadHolds, ReadFits, HasKey, Sub
  <2>5. AnswerHolds(c)'
    BY <1>4, <2>1, <2>2 DEF AnswerHolds, Accepted, Conflict
  <2> QED
    BY <2>3, <2>4, <2>5 DEF CallHolds
<1> QED
    BY <1>3, <1>4, <1>5, OthersKeep DEF SubmissionInv

LEMMA CommitUnknownPreserves ==
    ASSUME SubmissionInv, NEW c \in Calls, CommitUnknown(c) PROVE SubmissionInv'
<1> DEFINE o == [call[c] EXCEPT !.phase = "done", !.stored = Vacant,
                                !.code = "ledger_unavailable"]
<1>1. /\ call' = [call EXCEPT ![c] = o]
      /\ Committed(c) /\ call[c].phase = "read"
    BY DEF CommitUnknown, Finish, SubmissionInv, TypeOK
<1>2. o \in Call /\ o.sub \in Submissions
    BY <1>1, AnswerType DEF SubmissionInv, Code
<1>3. Keeps(c) /\ KeysUnique'
    BY <1>1, CommitReads
<1>4. TypeOK' /\ call'[c] = o /\ \A d \in Calls : d # c => call'[d] = call[d]
    BY <1>1, <1>2, <1>3, CallReplaced DEF SubmissionInv, Keeps
<1>5. CallHolds(c)'
  <2>1. /\ o.phase = "done" /\ o.created = call[c].created
        /\ o.code = "ledger_unavailable" /\ o.sub = Sub(c)
    BY DEF SubmissionInv, TypeOK, Call, Sub
  <2>2. CallHolds(c)
    BY DEF SubmissionInv
  <2>3. RowFits(c)' /\ CreatorHasRow(c)'
    BY <1>1, <1>4, <2>1, <2>2, CommittedRow
    DEF CallHolds, RowFits, CreatorHasRow, Conflict, Sub
  <2>4. ReadHolds(c)' /\ AnswerHolds(c)'
    BY <1>4, <2>1 DEF ReadHolds, AnswerHolds, Accepted, Conflict
  <2> QED
    BY <2>3, <2>4 DEF CallHolds
<1> QED
    BY <1>3, <1>4, <1>5, OthersKeep DEF SubmissionInv

\* A rollback leaves the caller either without a row or with one it committed.
LEMMA RollbackKeeps ==
    ASSUME SubmissionInv, NEW c \in Calls, Rollback(c)
    PROVE  /\ Keeps(c) /\ KeysUnique'
           /\ table'[c] # Vacant => table'[c] = table[c] /\ table[c].committed
<1>1. /\ Keeps(c)
      /\ table'[c] = IF table[c].committed THEN table[c] ELSE Vacant
    BY RolledBackRow DEF SubmissionInv
<1>2. \A e \in Calls : table'[e] # Vacant =>
          table[e] # Vacant /\ table'[e].key = table[e].key
    BY <1>1 DEF Keeps
<1> QED
    BY <1>1, <1>2, KeysStayUnique

LEMMA FailPreserves ==
    ASSUME SubmissionInv, NEW c \in Calls, Fail(c) PROVE SubmissionInv'
<1> DEFINE o == [call[c] EXCEPT !.phase = "done", !.stored = Vacant,
                                !.code = "ledger_unavailable"]
<1>1. /\ call' = [call EXCEPT ![c] = o]
      /\ Rollback(c) /\ call[c].phase \in {"received", "inserted", "read"}
    BY DEF Fail, Finish, SubmissionInv, TypeOK
<1>2. o \in Call /\ o.sub \in Submissions
    BY <1>1, AnswerType DEF SubmissionInv, Code
<1>3. /\ Keeps(c) /\ KeysUnique'
      /\ table'[c] # Vacant => table'[c] = table[c] /\ table[c].committed
    BY <1>1, RollbackKeeps
<1>4. TypeOK' /\ call'[c] = o /\ \A d \in Calls : d # c => call'[d] = call[d]
    BY <1>1, <1>2, <1>3, CallReplaced DEF SubmissionInv, Keeps
<1>5. CallHolds(c)'
  <2>1. /\ o.phase = "done" /\ o.created = call[c].created
        /\ o.code = "ledger_unavailable" /\ o.sub = Sub(c)
    BY DEF SubmissionInv, TypeOK, Call, Sub
  <2>2. RowFits(c) /\ Vacant.committed = FALSE
    BY DEF SubmissionInv, CallHolds, Vacant
  <2>3. RowFits(c)' /\ CreatorHasRow(c)'
    BY <1>3, <1>4, <2>1, <2>2 DEF RowFits, CreatorHasRow, Conflict, Sub
  <2>4. ReadHolds(c)' /\ AnswerHolds(c)'
    BY <1>4, <2>1 DEF ReadHolds, AnswerHolds, Accepted, Conflict
  <2> QED
    BY <2>3, <2>4 DEF CallHolds
<1> QED
    BY <1>3, <1>4, <1>5, OthersKeep DEF SubmissionInv

LEMMA CrashPreserves ==
    ASSUME SubmissionInv, NEW c \in Calls, Crash(c) PROVE SubmissionInv'
<1> DEFINE o == [call[c] EXCEPT !.phase = "dead", !.stored = Vacant]
<1>1. /\ call' = [call EXCEPT ![c] = o]
      /\ Rollback(c) /\ call[c].phase \in {"received", "inserted", "read", "committed"}
    BY DEF Crash, SubmissionInv, TypeOK
<1>2. o \in Call /\ o.sub \in Submissions
    BY <1>1 DEF SubmissionInv, TypeOK, Call, Phase
<1>3. /\ Keeps(c) /\ KeysUnique'
      /\ table'[c] # Vacant => table'[c] = table[c] /\ table[c].committed
    BY <1>1, RollbackKeeps
<1>4. TypeOK' /\ call'[c] = o /\ \A d \in Calls : d # c => call'[d] = call[d]
    BY <1>1, <1>2, <1>3, CallReplaced DEF SubmissionInv, Keeps
<1>5. CallHolds(c)'
  <2>1. RowFits(c) /\ Vacant.committed = FALSE /\ call[c].code = "none"
    BY <1>1 DEF SubmissionInv, CallHolds, CreatorHasRow, Vacant
  <2>2. /\ o.phase = "dead" /\ o.created = call[c].created
        /\ o.code = "none" /\ o.sub = Sub(c)
    BY <2>1 DEF SubmissionInv, TypeOK, Call, Sub
  <2>3. RowFits(c)' /\ CreatorHasRow(c)'
    BY <1>3, <1>4, <2>1, <2>2 DEF RowFits, CreatorHasRow, Conflict, Sub
  <2>4. ReadHolds(c)' /\ AnswerHolds(c)'
    BY <1>4, <2>2 DEF ReadHolds, AnswerHolds, Accepted, Conflict
  <2> QED
    BY <2>3, <2>4 DEF CallHolds
<1> QED
    BY <1>3, <1>4, <1>5, OthersKeep DEF SubmissionInv

LEMMA ReplyPreserves ==
    ASSUME SubmissionInv, NEW c \in Calls, Reply(c) PROVE SubmissionInv'
<1> DEFINE k == Verdict(c)
           o == [call[c] EXCEPT !.phase = "done", !.stored = Vacant, !.code = k]
           d == call[c].run
<1>1. /\ call' = [call EXCEPT ![c] = o]
      /\ table' = table /\ call[c].phase = "committed"
    BY DEF Reply, Finish, SubmissionInv, TypeOK
<1>2. /\ k \in {"accepted", "finished", "idempotency_conflict",
                "idempotency_callback_conflict"}
      /\ k \in {"accepted", "finished"}
           <=> /\ call[c].stored.request = Normalized(Sub(c))
               /\ call[c].stored.callback = Sub(c).callback
    BY DEF Verdict, Sub
<1> HIDE DEF k
<1>3. /\ o \in Call /\ o.sub \in Submissions /\ o.sub = Sub(c)
      /\ o.phase = "done" /\ o.code = k
      /\ o.created = call[c].created /\ o.run = d
  <2>1. k \in Code
    BY <1>2 DEF Code
  <2>2. TypeOK /\ call[c].phase # "new"
    BY <1>1 DEF SubmissionInv
  <2> QED
    BY <2>1, <2>2, AnswerType
<1>4. Keeps(c) /\ KeysUnique'
    BY <1>1, KeysStayUnique DEF Keeps, SubmissionInv, TypeOK
<1>5. TypeOK' /\ call'[c] = o /\ \A e \in Calls : e # c => call'[e] = call[e]
    BY <1>1, <1>3, CallReplaced DEF SubmissionInv, TypeOK
<1>6. CallHolds(c)'
  <2>1. CallHolds(c) /\ ReadFits(c) /\ table[d].committed
    BY <1>1 DEF SubmissionInv, CallHolds, ReadHolds
  <2>2. /\ d \in Calls /\ HasKey(d, Sub(c).key)
        /\ k \in {"accepted", "finished"}
             <=> /\ table[d].request = Normalized(Sub(c))
                 /\ table[d].callback = Sub(c).callback
    BY <1>2, <2>1 DEF ReadFits
  <2>3. call[c].created => k \in {"accepted", "finished"}
    \* The creator's key leads to its own row, which is what it submitted.
    <3> SUFFICES ASSUME call[c].created PROVE k \in {"accepted", "finished"}
      OBVIOUS
    <3>1. table[c] # Vacant
      BY <1>1, <2>1 DEF CallHolds, CreatorHasRow
    <3>2. /\ table[c].key = Sub(c).key
          /\ table[c].request = Normalized(Sub(c))
          /\ table[c].callback = Sub(c).callback
      BY <2>1, <3>1 DEF CallHolds, RowFits
    <3>3. d = c
      BY <2>2, <3>1, <3>2 DEF SubmissionInv, KeysUnique
    <3> QED
      BY <2>2, <3>2, <3>3
  <2>4. Acceptable(Sub(c))
    BY <1>1, <2>1 DEF CallHolds, ReadHolds
  <2>5. RowFits(c)'
    BY <1>1, <1>3, <1>5, <2>1 DEF CallHolds, RowFits, Sub
  <2>6. CreatorHasRow(c)'
    BY <1>2, <1>3, <1>5, <2>3 DEF CreatorHasRow, Conflict
  <2>7. ReadHolds(c)'
    BY <1>3, <1>5 DEF ReadHolds
  <2>8. AnswerHolds(c)'
    <3>1. /\ Sub(c)' = Sub(c) /\ call'[c].run = d
          /\ Accepted(c)' <=> k \in {"accepted", "finished"}
      BY <1>3, <1>5 DEF Accepted, Sub
    <3> QED
      BY <1>1, <2>1, <2>2, <2>4, <3>1 DEF AnswerHolds, HasKey
  <2> QED
    BY <2>5, <2>6, <2>7, <2>8 DEF CallHolds
<1> QED
    BY <1>4, <1>5, <1>6, OthersKeep DEF SubmissionInv

LEMMA RunMovesPreserves ==
    ASSUME SubmissionInv, NEW c \in Calls, RunMoves(c) PROVE SubmissionInv'
<1>1. call' = call
    BY DEF RunMoves
<1>2. /\ table' \in [Calls -> Row \union {Vacant}]
      /\ \A d \in Calls : table'[d] = Vacant <=> table[d] = Vacant
      /\ \A d \in Calls : table[d] # Vacant =>
           /\ table'[d].key = table[d].key
           /\ table'[d].request = table[d].request
           /\ table'[d].callback = table[d].callback
           /\ table'[d].committed = table[d].committed
    BY MovedRow DEF SubmissionInv
<1>3. TypeOK' /\ KeysUnique'
    BY <1>1, <1>2, KeysStayUnique DEF SubmissionInv, TypeOK
<1>4. ASSUME NEW d \in Calls PROVE CallHolds(d)'
  <2>1. CallHolds(d)
    BY DEF SubmissionInv
  <2>2. RowFits(d)' /\ CreatorHasRow(d)'
    BY <1>1, <1>2, <2>1 DEF CallHolds, RowFits, CreatorHasRow, Conflict, Sub
  <2>3. ReadHolds(d)'
    BY <1>1, <1>2, <2>1 DEF CallHolds, ReadHolds, ReadFits, HasKey, Visible, Sub
  <2>4. AnswerHolds(d)'
    BY <1>1, <1>2, <2>1 DEF CallHolds, AnswerHolds, Accepted, Conflict, HasKey, Sub
  <2> QED
    BY <2>2, <2>3, <2>4 DEF CallHolds
<1> QED
    BY <1>3, <1>4 DEF SubmissionInv

LEMMA StutterPreserves ==
    ASSUME SubmissionInv, UNCHANGED submissionVars PROVE SubmissionInv'
BY DEF submissionVars, SubmissionInv, TypeOK, KeysUnique, CallHolds, RowFits, CreatorHasRow,
       ReadHolds, ReadFits, AnswerHolds, Accepted, Conflict, HasKey, Visible, Sub

-----------------------------------------------------------------------------

\* The inductive invariant: rows are what their creators submitted, one per key
\* even before the commit, and what a call read of a row stays true.
THEOREM SubmissionInductive == Spec => []SubmissionInv
<1>1. Init => SubmissionInv
    BY InitInv
<1>2. SubmissionInv /\ [Next]_submissionVars => SubmissionInv'
  <2> SUFFICES ASSUME SubmissionInv, [Next]_submissionVars PROVE SubmissionInv'
    OBVIOUS
  <2>1. ASSUME NEW c \in Calls,
               Receive(c) \/ Handler(c) \/ CommitUnknown(c) \/ Fail(c) \/ Crash(c)
                 \/ RunMoves(c)
        PROVE SubmissionInv'
    BY <2>1, ReceivePreserves, RejectPreserves, InsertPreserves, SelectPreserves,
       CommitPreserves, ReplyPreserves, CommitUnknownPreserves, FailPreserves,
       CrashPreserves, RunMovesPreserves DEF Handler
  <2> QED
    BY <2>1, StutterPreserves DEF Next
<1> QED
    BY <1>1, <1>2, PTL DEF Spec

\* An Idempotency-Key names one run, whatever races, is retried or is lost.
THEOREM OneRunPerKeyHolds == Spec => []OneRunPerKey
<1>1. SubmissionInv => OneRunPerKey
  <2> SUFFICES ASSUME SubmissionInv PROVE OneRunPerKey
    OBVIOUS
  <2>1. ASSUME NEW c \in Calls, NEW d \in Calls, Accepted(c), Accepted(d),
               Sub(c).key = Sub(d).key
        PROVE  call[c].run = call[d].run
    BY <2>1 DEF SubmissionInv, CallHolds, AnswerHolds, KeysUnique, HasKey
  <2>2. ASSUME NEW c \in Calls, NEW d \in Calls, table[c].committed, table[d].committed,
               table[c].key = table[d].key
        PROVE  c = d
    BY <2>2 DEF SubmissionInv, KeysUnique, HasKey, Vacant
  <2> QED
    BY <2>1, <2>2 DEF OneRunPerKey
<1> QED
    BY <1>1, SubmissionInductive, PTL

\* What was answered 202 or 200 is in the ledger, and stays there.
THEOREM AcceptedIsDurableHolds == Spec => []AcceptedIsDurable
<1>1. SubmissionInv => AcceptedIsDurable
    BY DEF SubmissionInv, CallHolds, AnswerHolds, AcceptedIsDurable
<1> QED
    BY <1>1, SubmissionInductive, PTL

\* What the normalized request keeps of the body, and what it does not.
LEMMA NormalizedFields ==
    ASSUME NEW s \in Submissions, Acceptable(s)
    PROVE  /\ Normalized(s).request_id = s.key
           /\ Normalized(s).correlation_id = s.correlation
           /\ Normalized(s).execution_mode = OrElse(s.body.execution_mode, DefaultMode)
           /\ Normalized(s).content = s.body.content
           /\ Normalized(s).connection = Missing
<1>1. s.body \in Body
    BY DEF Submission
<1> QED
    BY <1>1 DEF Acceptable, Normalized, Body

\* The run a client is given has the client's ids, mode, content and callback,
\* whoever used the key before; of the connection it says nothing.
THEOREM AcceptedRunsRequestHolds == Spec => []AcceptedRunsRequest
<1>1. SubmissionInv => AcceptedRunsRequest
  <2> SUFFICES ASSUME SubmissionInv, NEW c \in Calls, Accepted(c)
               PROVE  LET run == table[call[c].run] IN
                      /\ run # Vacant
                      /\ run.request.request_id = Sub(c).key
                      /\ run.request.correlation_id = Sub(c).correlation
                      /\ SameMode(run.request.execution_mode, Sub(c).body.execution_mode)
                      /\ run.request.execution_mode # Missing
                      /\ run.request.content = Sub(c).body.content
                      /\ run.callback = Sub(c).callback
    BY DEF AcceptedRunsRequest
  <2> DEFINE s == Sub(c)
             run == table[call[c].run]
  <2>1. /\ run # Vacant /\ run.request = Normalized(s) /\ run.callback = s.callback
        /\ Acceptable(s)
    BY DEF SubmissionInv, CallHolds, AnswerHolds, HasKey
  <2>2. s \in Submissions
    BY DEF SubmissionInv, TypeOK, CallHolds, CreatorHasRow, Accepted, Sub
  <2>3. LET m == OrElse(s.body.execution_mode, DefaultMode) IN
        SameMode(m, s.body.execution_mode) /\ m # Missing
    BY DEF OrElse, SameMode
  <2> HIDE DEF s, run
  <2>4. /\ run.request.request_id = s.key /\ run.request.correlation_id = s.correlation
        /\ run.request.execution_mode = OrElse(s.body.execution_mode, DefaultMode)
        /\ run.request.content = s.body.content
    BY <2>1, <2>2, NormalizedFields
  <2>5. /\ SameMode(run.request.execution_mode, s.body.execution_mode)
        /\ run.request.execution_mode # Missing
    BY <2>3, <2>4
  <2> QED
    BY <2>1, <2>4, <2>5 DEF s, run
<1> QED
    BY <1>1, SubmissionInductive, PTL

\* Acceptable submissions of one key have one digest and one callback exactly
\* when they agree in all but defaults and the connection.
LEMMA NormalizedMeansEquivalent ==
    ASSUME NEW s \in Submissions, NEW t \in Submissions,
           Acceptable(s), Acceptable(t), s.key = t.key
    PROVE  (Normalized(s) = Normalized(t) /\ s.callback = t.callback) <=> Equivalent(s, t)
<1>1. /\ Normalized(s) \in Body /\ Normalized(t) \in Body
    BY NormalizedType
<1>2. OrElse(s.body.execution_mode, DefaultMode) = OrElse(t.body.execution_mode, DefaultMode)
        <=> SameMode(s.body.execution_mode, t.body.execution_mode)
    BY DEF OrElse, SameMode
<1>3. Normalized(s) = Normalized(t)
        <=> /\ Normalized(s).request_id = Normalized(t).request_id
            /\ Normalized(s).correlation_id = Normalized(t).correlation_id
            /\ Normalized(s).execution_mode = Normalized(t).execution_mode
            /\ Normalized(s).connection = Normalized(t).connection
            /\ Normalized(s).content = Normalized(t).content
    BY <1>1 DEF Body
<1> QED
    BY <1>2, <1>3, NormalizedFields DEF Equivalent

\* Once accepted, a key is answered by content: a submission that agrees in all
\* but defaults and the connection is accepted again, any other is a conflict.
THEOREM RetriesAgreeHolds == Spec => []RetriesAgree
<1>1. SubmissionInv => RetriesAgree
  <2> SUFFICES ASSUME SubmissionInv, NEW c \in Calls, NEW d \in Calls,
                      Accepted(c), Accepted(d) \/ Conflict(d), Sub(c).key = Sub(d).key
               PROVE  Accepted(d) <=> Equivalent(Sub(c), Sub(d))
    BY DEF RetriesAgree
  <2>1. AnswerHolds(c) /\ AnswerHolds(d)
    BY DEF SubmissionInv, CallHolds
  <2>2. call[c].run = call[d].run
    BY <2>1 DEF SubmissionInv, AnswerHolds, KeysUnique, HasKey
  <2>3. Accepted(d) <=> /\ Normalized(Sub(c)) = Normalized(Sub(d))
                        /\ Sub(c).callback = Sub(d).callback
    BY <2>1, <2>2 DEF AnswerHolds
  <2>4. Sub(c) \in Submissions /\ Sub(d) \in Submissions
    \* A call that answered is done, and so has received its submission.
    BY DEF SubmissionInv, TypeOK, CallHolds, CreatorHasRow, Accepted, Conflict, Sub
  <2>5. Acceptable(Sub(c)) /\ Acceptable(Sub(d))
    BY <2>1 DEF AnswerHolds
  <2> QED
    BY <2>3, <2>4, <2>5, NormalizedMeansEquivalent
<1> QED
    BY <1>1, SubmissionInductive, PTL

\* No open transaction without a live call, no run of a refused submission.
THEOREM RowsHaveOwnersHolds == Spec => []RowsHaveOwners
<1>1. SubmissionInv => RowsHaveOwners
    BY DEF SubmissionInv, CallHolds, RowFits, CreatorHasRow, RowsHaveOwners
<1> QED
    BY <1>1, SubmissionInductive, PTL
=============================================================================
