-------------------------- MODULE OutreachLifecycle --------------------------
(***************************************************************************)
(* The outreach case of a student and the two request handlers that move   *)
(* it: the GHL webhook (app/routers/webhook.py) and the operator's manual  *)
(* action (app/services/outreach.py, execute_manual_action).               *)
(*                                                                         *)
(* Committed PostgreSQL state is in the variables state, processed, history*)
(* and log.  A request is a session that runs one transaction: what it has *)
(* flushed lives in its req record until the commit makes it visible, and  *)
(* is forgotten when the request fails (get_db closes the session without  *)
(* a commit).  READ COMMITTED is the isolation level: a SELECT sees the    *)
(* committed variables, an UPDATE waits for the row lock and then writes   *)
(* whatever it carries, an INSERT of a unique key waits for the transaction*)
(* that holds the same key.                                                *)
(***************************************************************************)
EXTENDS Naturals, Sequences, FiniteSets, PersistenceGate

CONSTANTS
    Handlers,           \* requests that can be in flight at the same time
    Rows,               \* student_outreach_tracking rows
    Users,              \* students
    RowUser,            \* the student of a row
    Messages,           \* what GHL sends; one message may be delivered often
    Hash,               \* sha256 of the JSON body of a message
    Body,               \* the body behind a hash: event type, outcome, user
    Actions,            \* action types the operators use
    InitialStates,      \* states in which rows are found or loaded
    ExecutionModeText,  \* str(settings.EXECUTION_MODE)
    NoMessage, NoRow, NoUser

States == {"ELIGIBLE", "QUEUED", "CONTACTED", "NO_RESPONSE", "RETRY",
           "RESPONDED", "ANALYZED", "INTERVENTION_REQUIRED", "RESOLVED", "CLOSED"}

Absent == "ABSENT"   \* the row has not been loaded yet

Hashes == {Hash[m] : m \in Messages}

ResponseEvents == {"CALL_COMPLETED", "SMS_RESPONSE", "EMAIL_RESPONSE"}
ValidEvents    == ResponseEvents \cup {"TRANSCRIPT_READY"}

Bodies == [type : ValidEvents \cup {"OTHER"}, positive : BOOLEAN,
           user : Users \cup {NoUser}]

-----------------------------------------------------------------------------
(* app/state_machine.py *)

TRANSITIONS ==
    [ELIGIBLE              |-> {"QUEUED", "CLOSED"},
     QUEUED                |-> {"CONTACTED", "CLOSED"},
     CONTACTED             |-> {"NO_RESPONSE", "RESPONDED", "CLOSED", "INTERVENTION_REQUIRED"},
     NO_RESPONSE           |-> {"RETRY", "CLOSED", "INTERVENTION_REQUIRED"},
     RETRY                 |-> {"CONTACTED", "CLOSED", "INTERVENTION_REQUIRED"},
     RESPONDED             |-> {"ANALYZED", "RESOLVED", "CLOSED", "INTERVENTION_REQUIRED"},
     ANALYZED              |-> {"INTERVENTION_REQUIRED", "RESOLVED", "CLOSED"},
     INTERVENTION_REQUIRED |-> {"RESOLVED", "CLOSED"},
     RESOLVED              |-> {"CLOSED"},
     CLOSED                |-> {}]

CanTransition(from, to) == to \in TRANSITIONS[from]

\* _ACTION_TYPE_TO_STATE
ActionTarget == [CLOSE_CASE   |-> "CLOSED",
                 FORCE_RETRY  |-> "RETRY",
                 ESCALATE     |-> "INTERVENTION_REQUIRED",
                 BOOK_MEETING |-> "RESOLVED"]

ASSUME ConstantsAssumption ==
    /\ RowUser \in [Rows -> Users]
    /\ DOMAIN Hash = Messages
    /\ Body \in [Hashes -> Bodies]
    /\ Actions \subseteq DOMAIN ActionTarget
    /\ InitialStates \subseteq States
    /\ NoMessage \notin Messages
    /\ NoRow \notin Rows
    /\ NoUser \notin Users

\* The state a webhook asks for.
WebhookTarget(body) ==
    IF body.type = "TRANSCRIPT_READY" THEN "ANALYZED"
    ELSE IF body.positive THEN "RESPONDED" ELSE "NO_RESPONSE"

\* Faulty variants: can_transition is not asked; the event type becomes the state.
WebhookMoveUnchecked(seen, body) == WebhookTarget(body)
WebhookMoveToEvent(seen, body) == body.type

\* The state a webhook moves a case to: the one it asks for when the state it
\* READ allows that, and otherwise the state it read.
WebhookMove(seen, body) ==
    LET to == WebhookTarget(body)
    IN  IF to # seen /\ CanTransition(seen, to) THEN to ELSE seen

-----------------------------------------------------------------------------
VARIABLES
    state,      \* student_outreach_tracking.state, per row
    processed,  \* event_hash values in processed_events
    history,    \* outreach_history rows appended for a hash, oldest first
    log,        \* state_transition_log rows of a tracking row, oldest first
    req,        \* the transaction of each handler
    reply       \* what the last request of a handler told GHL, if it did

vars == <<state, processed, history, log, req, reply>>

Idle == [pc |-> "idle", msg |-> NoMessage, row |-> NoRow,
         seen |-> Absent, target |-> Absent]

WebhookPc == {"insert", "recorded", "read", "flushed"}
OperatorPc == {"op_read", "op_flushed"}

Requests == [pc     : {"idle"} \cup WebhookPc \cup OperatorPc,
             msg    : Messages \cup {NoMessage},
             row    : Rows \cup {NoRow},
             seen   : States \cup {Absent},
             target : States \cup {Absent}]

NoReply == [status |-> "none", msg |-> NoMessage]

\* The two answers after which GHL need not send the message again.
Replies == {NoReply} \cup [status : {"deduplicated", "processed"}, msg : Messages]

HistoryRows == [msg : Messages, before : States, after : States]
LogRows == [from : States, to : States, actor : {"webhook", "operator"},
            msg : Messages \cup {NoMessage}]

TypeOK ==
    /\ state \in [Rows -> States \cup {Absent}]
    /\ processed \subseteq Hashes
    /\ history \in [Hashes -> Seq(HistoryRows)]
    /\ log \in [Rows -> Seq(LogRows)]
    /\ req \in [Handlers -> Requests]
    /\ reply \in [Handlers -> Replies]

Init ==
    /\ state \in [Rows -> InitialStates \cup {Absent}]
    /\ processed = {}
    /\ history = [e \in Hashes |-> <<>>]
    /\ log = [r \in Rows |-> <<>>]
    /\ req = [h \in Handlers |-> Idle]
    /\ reply = [h \in Handlers |-> NoReply]

RowsOf(u) == {r \in Rows : RowUser[r] = u /\ state[r] # Absent}

\* Faulty variant: the hash is inserted with the history row, not before the work.
HoldsEntryWhenFlushed(h, e) == req[h].pc = "flushed" /\ Hash[req[h].msg] = e

\* The uncommitted processed_events row of a transaction.
HoldsEntry(h, e) ==
    req[h].pc \in {"recorded", "read", "flushed"} /\ Hash[req[h].msg] = e

\* Faulty variant: the SELECT of the case takes a shared lock, kept to the end, that
\* the UPDATE has to upgrade.
HoldsRowFromRead(h, r) ==
    /\ req[h].pc \in {"read", "flushed", "op_read", "op_flushed"}
    /\ req[h].row = r

\* The row lock of a flushed, uncommitted UPDATE of the tracking row.
HoldsRow(h, r) ==
    /\ req[h].pc \in {"flushed", "op_flushed"}
    /\ req[h].row = r
    /\ req[h].target # req[h].seen

\* The state column after the UPDATE of request q, which carries the state q decided
\* on and names no condition but the primary key.  Faulty variant: ... AND state =
\* :seen, the row count ignored.
MovedIfCurrent(q) == IF state[q.row] = q.seen THEN [state EXCEPT ![q.row] = q.target] ELSE state
Moved(q) == [state EXCEPT ![q.row] = q.target]

\* The state_transition_log row of q.  Faulty variant: the state is read again.
AuditRowReread(q) ==
    [from |-> state[q.row], to |-> q.target,
     actor |-> IF q.pc = "flushed" THEN "webhook" ELSE "operator", msg |-> q.msg]
AuditRow(q) ==
    [from |-> q.seen, to |-> q.target,
     actor |-> IF q.pc = "flushed" THEN "webhook" ELSE "operator", msg |-> q.msg]

\* append_state_transition: nothing is appended when RULE 0 blocks it, and neither
\* caller looks at the result.  Faulty variants: RULE 0 is not asked; a move that
\* another request has overtaken is not recorded.
AuditedUngated(q) == [log EXCEPT ![q.row] = Append(@, AuditRow(q))]
AuditedIfCurrent(q) ==
    IF state[q.row] = q.seen THEN [log EXCEPT ![q.row] = Append(@, AuditRow(q))] ELSE log
Audited(q) ==
    IF GatePasses(ExecutionModeText)
    THEN [log EXCEPT ![q.row] = Append(@, AuditRow(q))] ELSE log

Acknowledge(h, status, m) ==
    reply' = [reply EXCEPT ![h] = [status |-> status, msg |-> m]]

NoAnswer(h) == reply' = [reply EXCEPT ![h] = NoReply]

\* The transaction of h is over; nothing it flushed survives unless the same
\* step commits it.
Close(h) == req' = [req EXCEPT ![h] = Idle]

\* An error answer, or none: the request is over and the sender was told nothing
\* it could rely on.
Fail(h) == Close(h) /\ NoAnswer(h)

-----------------------------------------------------------------------------
(* POST /webhook/ghl-update *)

\* RULE 0 of record_processed_event has a code other than IDEMPOTENCY_DUPLICATE:
\* it returns (False, ...) and the handler answers "deduplicated".
WebhookBlocked(h, m) ==
    /\ req[h].pc = "idle"
    /\ ~ GatePasses(ExecutionModeText)
    /\ Acknowledge(h, "deduplicated", m)
    /\ UNCHANGED <<state, processed, history, log, req>>

\* Faulty variant: an entry another request has not committed yet counts as seen.
WebhookDuplicateOfUncommitted(h, m) ==
    /\ req[h].pc = "idle"
    /\ GatePasses(ExecutionModeText)
    /\ Hash[m] \in processed \/ \E g \in Handlers : HoldsEntry(g, Hash[m])
    /\ Acknowledge(h, "deduplicated", m)
    /\ UNCHANGED <<state, processed, history, log, req>>

\* SELECT ... WHERE event_hash = :hash finds a committed row.
WebhookDuplicate(h, m) ==
    /\ req[h].pc = "idle"
    /\ GatePasses(ExecutionModeText)
    /\ Hash[m] \in processed
    /\ Acknowledge(h, "deduplicated", m)
    /\ UNCHANGED <<state, processed, history, log, req>>

\* ... or finds none, and the handler goes on to the INSERT.
WebhookLookup(h, m) ==
    /\ req[h].pc = "idle"
    /\ GatePasses(ExecutionModeText)
    /\ Hash[m] \notin processed
    /\ req' = [req EXCEPT ![h] = [Idle EXCEPT !.pc = "insert", !.msg = m]]
    /\ NoAnswer(h)
    /\ UNCHANGED <<state, processed, history, log>>

\* The unique index makes the INSERT wait for a transaction that has inserted
\* the same hash.  If that one was rolled back the INSERT succeeds ...
WebhookInsert(h) ==
    LET e == Hash[req[h].msg] IN
    /\ req[h].pc = "insert"
    /\ \A g \in Handlers \ {h} : ~ HoldsEntry(g, e)
    /\ e \notin processed
    /\ req' = [req EXCEPT ![h].pc = "recorded"]
    /\ UNCHANGED <<state, processed, history, log, reply>>

\* ... and if it was committed the flush raises IntegrityError.
WebhookConflict(h) ==
    /\ req[h].pc = "insert"
    /\ Hash[req[h].msg] \in processed
    /\ Fail(h)
    /\ UNCHANGED <<state, processed, history, log>>

\* Faulty variant: record_processed_event commits, so a refused event is remembered.
WebhookRejectRemembered(h) ==
    LET e == Hash[req[h].msg] IN
    /\ req[h].pc = "recorded"
    /\ \/ Body[e].type \notin ValidEvents
       \/ Body[e].user = NoUser \/ RowsOf(Body[e].user) = {}
    /\ processed' = processed \cup {e}
    /\ Fail(h)
    /\ UNCHANGED <<state, history, log>>

\* The error answers after the INSERT: unknown event type, no user id, no row
\* for the user.  None of them commits, so the hash is forgotten again.
WebhookReject(h) ==
    LET body == Body[Hash[req[h].msg]] IN
    /\ req[h].pc = "recorded"
    /\ \/ body.type \notin ValidEvents
       \/ body.user = NoUser
       \/ body.user # NoUser /\ RowsOf(body.user) = {}
    /\ Fail(h)
    /\ UNCHANGED <<state, processed, history, log>>

\* scalar_one_or_none raises when the user has rows for several checkpoints.
WebhookAmbiguous(h) ==
    LET body == Body[Hash[req[h].msg]] IN
    /\ req[h].pc = "recorded"
    /\ body.type \in ValidEvents
    /\ body.user # NoUser
    /\ Cardinality(RowsOf(body.user)) > 1
    /\ Fail(h)
    /\ UNCHANGED <<state, processed, history, log>>

\* The SELECT of the tracking row.  The transcript analysis that may follow
\* works on this copy.
WebhookRead(h) ==
    LET body == Body[Hash[req[h].msg]] IN
    /\ req[h].pc = "recorded"
    /\ body.type \in ValidEvents
    /\ body.user # NoUser
    /\ \E r \in Rows :
         /\ RowsOf(body.user) = {r}
         /\ req' = [req EXCEPT ![h].pc = "read", ![h].row = r, ![h].seen = state[r]]
    /\ UNCHANGED <<state, processed, history, log, reply>>

\* tracking.state = to_state, _log_transition and append_outreach_history are
\* flushed.  The UPDATE, when there is one, waits for the row lock.
WebhookFlush(h) ==
    LET seen == req[h].seen
        to   == WebhookMove(seen, Body[Hash[req[h].msg]]) IN
    /\ req[h].pc = "read"
    /\ to = seen \/ \A g \in Handlers \ {h} : ~ HoldsRow(g, req[h].row)
    /\ req' = [req EXCEPT ![h].pc = "flushed", ![h].target = to]
    /\ UNCHANGED <<state, processed, history, log, reply>>

\* db.commit(): the hash, the move with its audit row and the history row
\* become visible together.
WebhookCommit(h) ==
    LET q == req[h]
        e == Hash[q.msg] IN
    /\ q.pc = "flushed"
    /\ processed' = processed \cup {e}
    /\ history' = [history EXCEPT ![e] = Append(@,
                      [msg |-> q.msg, before |-> q.seen, after |-> q.target])]
    /\ IF q.target = q.seen
       THEN UNCHANGED <<state, log>>
       ELSE state' = Moved(q) /\ log' = Audited(q)
    /\ Close(h)
    /\ Acknowledge(h, "processed", q.msg)

-----------------------------------------------------------------------------
(* POST /actions/manual *)

\* The answers that change nothing: no tracking row, or a move the state read
\* does not allow.
ManualRefused(h, u, a) ==
    /\ req[h].pc = "idle"
    /\ \/ RowsOf(u) = {}
       \/ \E r \in RowsOf(u) : ~ CanTransition(state[r], ActionTarget[a])
    /\ Fail(h)
    /\ UNCHANGED <<state, processed, history, log>>

\* SELECT ... ORDER BY updated_at DESC LIMIT 1 and the can_transition check.
\* Which of several rows is the newest depends on timestamps that are not
\* modelled: any of them may be.
ManualRead(h, u, a) ==
    /\ req[h].pc = "idle"
    /\ \E r \in RowsOf(u) :
         /\ CanTransition(state[r], ActionTarget[a])
         /\ req' = [req EXCEPT ![h] = [pc |-> "op_read", msg |-> NoMessage, row |-> r,
                                       seen |-> state[r], target |-> ActionTarget[a]]]
    /\ NoAnswer(h)
    /\ UNCHANGED <<state, processed, history, log>>

\* db.flush(): UPDATE by primary key, with no check of the state read.
ManualFlush(h) ==
    /\ req[h].pc = "op_read"
    /\ \A g \in Handlers \ {h} : ~ HoldsRow(g, req[h].row)
    /\ req' = [req EXCEPT ![h].pc = "op_flushed"]
    /\ UNCHANGED <<state, processed, history, log, reply>>

\* append_state_transition and db.commit(): when RULE 0 blocks the append the move
\* is committed without an audit row.
ManualCommit(h) ==
    LET q == req[h] IN
    /\ q.pc = "op_flushed"
    /\ state' = Moved(q) /\ log' = Audited(q)
    /\ Close(h)
    /\ NoAnswer(h)
    /\ UNCHANGED <<processed, history>>

-----------------------------------------------------------------------------
\* An exception, a closed connection, a deadlock victim or the end of the
\* process: the session is closed, the transaction rolled back.
Abort(h) ==
    /\ req[h].pc # "idle"
    /\ Fail(h)
    /\ UNCHANGED <<state, processed, history, log>>

\* External: nothing under src/ creates tracking rows, they are loaded from
\* outside while the application runs.
LoadRow(r) ==
    /\ state[r] = Absent
    /\ \E s \in InitialStates : state' = [state EXCEPT ![r] = s]
    /\ UNCHANGED <<processed, history, log, req, reply>>

\* The steps a request takes once it has started.
Proceed(h) ==
    \/ WebhookInsert(h) \/ WebhookConflict(h) \/ WebhookReject(h)
    \/ WebhookAmbiguous(h) \/ WebhookRead(h) \/ WebhookFlush(h) \/ WebhookCommit(h)
    \/ ManualFlush(h) \/ ManualCommit(h)

Webhook(h) ==
    \E m \in Messages : WebhookBlocked(h, m) \/ WebhookDuplicate(h, m) \/ WebhookLookup(h, m)

Manual(h) ==
    \E u \in Users, a \in Actions : ManualRefused(h, u, a) \/ ManualRead(h, u, a)

Next ==
    \/ \E h \in Handlers : Webhook(h) \/ Manual(h) \/ Proceed(h) \/ Abort(h)
    \/ \E r \in Rows : LoadRow(r)

Spec == Init /\ [][Next]_vars

\* The event loop resumes every coroutine whose database call has returned, and
\* PostgreSQL grants a lock to its waiters in the order they came; a waiter is
\* passed over only finitely often.  Nothing obliges a client to send.
Fairness == \A h \in Handlers : SF_vars(Proceed(h))

FairSpec == Spec /\ Fairness

-----------------------------------------------------------------------------
(* Properties *)

\* An event is in processed_events exactly when one history row was appended
\* for it, whatever was redelivered, retried after an error, raced with itself
\* or rolled back half-way (webhook.py: insert, history row and commit are one
\* transaction; processed_events.event_hash is unique).
ExactlyOnce ==
    \A e \in Hashes : Len(history[e]) = IF e \in processed THEN 1 ELSE 0

\* An answer that lets the sender forget the message is true of the database:
\* "deduplicated" only for a hash that is committed, "processed" only when the
\* history holds a row of that very message (webhook.py lines 67-75, 163-175).
AcksTruthful ==
    \A h \in Handlers :
      LET m == reply[h].msg IN
      /\ reply[h].status = "deduplicated" => Hash[m] \in processed
      /\ reply[h].status = "processed" =>
            \E i \in DOMAIN history[Hash[m]] : history[Hash[m]][i].msg = m

\* An audit row is a webhook's, for message m and move x; those among all rows that are.
Cites(row, m, x) == row.actor = "webhook" /\ row.msg = m /\ <<row.from, row.to>> = x
Auditors(rows, m, x) ==
    UNION {{<<r, i>> : i \in {k \in DOMAIN rows[r] : Cites(rows[r][k], m, x)}} : r \in Rows}

\* The two records of a webhook agree: a history row whose state changed has
\* exactly one audit row, with the same two states, and a webhook's audit row
\* has a history row (webhook.py lines 133-161 append to both).
LedgersAgree ==
    /\ \A e \in Hashes : \A i \in DOMAIN history[e] :
         LET x == history[e][i] IN
         x.before # x.after => Cardinality(Auditors(log, x.msg, <<x.before, x.after>>)) = 1
    /\ \A r \in Rows : \A i \in DOMAIN log[r] :
         log[r][i].actor = "webhook" =>
           \E j \in DOMAIN history[Hash[log[r][i].msg]] :
              LET x == history[Hash[log[r][i].msg]][j] IN
              x.msg = log[r][i].msg /\ Cites(log[r][i], x.msg, <<x.before, x.after>>)

\* However two requests overlap, the newest audit row of a case names the state
\* the case is in, and no audit row records a move outside the transition table
\* (the move and its audit row are flushed under the same row lock).
AuditTrail ==
    \A r \in Rows :
      /\ log[r] # <<>> => state[r] = log[r][Len(log[r])].to
      /\ \A i \in DOMAIN log[r] : CanTransition(log[r][i].from, log[r][i].to)

\* No step changes the state of a case without appending an audit row, and no
\* step touches the rows that are there (repository.py line 186: "Every state
\* change persisted with full attribution lineage"; models.py, StateTransitionLog).
EveryMoveAudited ==
    [][\A r \in Rows :
         /\ state[r] # Absent /\ state'[r] # state[r] => Len(log'[r]) > Len(log[r])
         /\ SubSeq(log'[r], 1, Len(log[r])) = log[r]]_vars

\* RULE 0 fails closed: while the execution mode is not one the vocabulary knows,
\* none of the three governed tables gains a row, by whatever path
\* (_repository_helpers.py lines 178-201; INV-5).
GateFailsClosed ==
    ~ GatePasses(ExecutionModeText) =>
      /\ processed = {}
      /\ \A e \in Hashes : history[e] = <<>>
      /\ \A r \in Rows : log[r] = <<>>

\* A closed case stays closed (spec/03, 5.1: CLOSED -> ANY_STATE is forbidden;
\* state_machine.py TERMINAL).
ClosedIsTerminal == [][\A r \in Rows : state[r] = "CLOSED" => state'[r] = "CLOSED"]_vars

\* What is left of that: only the commit of a request that had read the case before it
\* was closed takes it out of CLOSED, and to a state that could follow the one it read
\* (state_machine.py line 13; webhook.py line 133 and outreach.py line 422 ask the table
\* about their copy).
ReopensAreStale ==
    [][\A r \in Rows :
         state[r] = "CLOSED" /\ state'[r] # "CLOSED" =>
           \E h \in Handlers :
             /\ req[h].pc \in {"flushed", "op_flushed"} /\ req'[h] = Idle
             /\ req[h].row = r /\ req[h].seen \notin {"CLOSED", Absent}
             /\ CanTransition(req[h].seen, state'[r])]_vars

\* A request that was started is answered: no cycle of row locks and unique-index
\* waits keeps it open for ever.
EventuallyAnswered == \A h \in Handlers : req[h].pc # "idle" ~> req[h].pc = "idle"

\* A request waits for another one's uncommitted processed_events row with its hash,
\* or for the row lock of another one's UPDATE.
WaitsFor(h, g) ==
    /\ g # h
    /\ \/ req[h].pc = "insert" /\ HoldsEntry(g, Hash[req[h].msg])
       \/ /\ req[h].pc = "read"
          /\ WebhookMove(req[h].seen, Body[Hash[req[h].msg]]) # req[h].seen
          /\ HoldsRow(g, req[h].row)
       \/ req[h].pc = "op_read" /\ HoldsRow(g, req[h].row)

\* Of whatever requests are open, one waits for no other: a webhook takes its index entry
\* before its row, an operator's request takes one row, and neither locks what it only
\* reads (webhook.py lines 59 and 134, outreach.py line 439).
NoCircularWait ==
    \A S \in SUBSET Handlers : S # {} => \E h \in S : \A g \in S : ~ WaitsFor(h, g)

Inbox == INSTANCE WebhookInbox
             WITH Events <- Hashes, remembered <- processed,
                  effects <- [e \in Hashes |-> Len(history[e])]

\* The webhook implements the exactly-once inbox.
InboxSpec == Inbox!Spec

Case == INSTANCE OutreachCase
            WITH Table <- TRANSITIONS, FirstStates <- InitialStates,
                 trail <- [r \in Rows |->
                             [i \in DOMAIN log[r] |-> <<log[r][i].from, log[r][i].to>>]]

\* Requests that do not overlap implement the case of spec/03.
CaseSpec == Case!Spec
=============================================================================
