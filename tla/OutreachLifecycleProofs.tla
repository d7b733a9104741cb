----------------------- MODULE OutreachLifecycleProofs -----------------------
(***************************************************************************)
(* Machine-checked proofs about OutreachLifecycle for any number of        *)
(* requests, rows, users and messages, any bodies and any execution mode.  *)
(***************************************************************************)
EXTENDS OutreachLifecycle, FiniteSetTheorems, TLAPS

(***************************************************************************)
(* What a request record holds in each phase.                              *)
(***************************************************************************)
WellFormed(q, st) ==
    /\ q.pc \in WebhookPc => q.msg \in Messages /\ GatePasses(ExecutionModeText)
    /\ q.pc \in {"read", "flushed"} \cup OperatorPc =>
         q.row \in Rows /\ q.seen \in States /\ st[q.row] # Absent
    /\ q.pc = "flushed" =>
         q.target \in States /\ (q.target = q.seen \/ CanTransition(q.seen, q.target))
    /\ q.pc \in OperatorPc =>
         q.target \in States /\ CanTransition(q.seen, q.target)

RequestShape == \A h \in Handlers : WellFormed(req[h], state)

\* A transaction that has inserted its hash is the only one, and the hash is not
\* committed: the unique index on processed_events.event_hash.
EntryFresh ==
    \A h \in Handlers : \A e \in Hashes :
      HoldsEntry(h, e) =>
        /\ e \notin processed
        /\ \A g \in Handlers \ {h} : ~ HoldsEntry(g, e)

\* A row that was never loaded has no audit rows.
AbsentUnlogged == \A r \in Rows : state[r] = Absent => log[r] = <<>>

TypeInv == TypeOK /\ RequestShape

-----------------------------------------------------------------------------
(* The transition table *)

\* Every target the table names is a state, and no state is its own target.
LEMMA TableType ==
    /\ TRANSITIONS \in [States -> SUBSET States]
    /\ \A s \in States : ~ CanTransition(s, s)
    /\ Absent \notin States
  BY DEF TRANSITIONS, CanTransition, States, Absent

\* A webhook leaves the state it read alone or moves it along the table.
LEMMA MoveType ==
    ASSUME NEW seen \in States, NEW body \in Bodies
    PROVE  /\ WebhookMove(seen, body) \in States
           /\ \/ WebhookMove(seen, body) = seen
              \/ CanTransition(seen, WebhookMove(seen, body))
  <1>1. WebhookTarget(body) \in States
    BY DEF WebhookTarget, States
  <1>2. QED
    BY <1>1 DEF WebhookMove

\* The states an operator can ask for.
LEMMA ActionTargetType == \A a \in Actions : ActionTarget[a] \in States
  BY ConstantsAssumption DEF ActionTarget, States

\* A message GHL sends has a hash, and a hash a body the handler can read.
LEMMA BodyType == \A m \in Messages : Hash[m] \in Hashes /\ Body[Hash[m]] \in Bodies
  BY ConstantsAssumption DEF Hashes

-----------------------------------------------------------------------------
(* Type correctness *)

\* A step that replaces the record of one request keeps the others in shape, as
\* rows are never unloaded.
LEMMA ShapeFrame ==
    ASSUME TypeInv, NEW h \in Handlers, NEW q \in Requests,
           req' = [req EXCEPT ![h] = q],
           \A r \in Rows : state[r] # Absent => state'[r] # Absent,
           WellFormed(q, state')
    PROVE  req' \in [Handlers -> Requests] /\ RequestShape'
  <1>1. req' \in [Handlers -> Requests]
    BY DEF TypeInv, TypeOK
  <1>2. ASSUME NEW g \in Handlers
        PROVE  WellFormed(req'[g], state')
    <2>1. CASE g = h
      BY <2>1 DEF TypeInv, TypeOK
    <2>2. CASE g # h
      <3>1. req'[g] = req[g] /\ WellFormed(req[g], state)
        BY <2>2 DEF TypeInv, TypeOK, RequestShape
      <3>2. QED
        BY <3>1 DEF WellFormed
    <2>3. QED
      BY <2>1, <2>2
  <1>3. QED
    BY <1>1, <1>2 DEF RequestShape

\* A closed request promises nothing.
LEMMA IdleShape == Idle \in Requests /\ WellFormed(Idle, state')
  BY DEF Idle, Requests, WellFormed, WebhookPc, OperatorPc

\* The process starts with no request open.
LEMMA TypeInit == Init => TypeInv
  <1>1. Init => TypeOK
    BY ConstantsAssumption DEF Init, TypeOK, Idle, Requests, NoReply, Replies
  <1>2. Init => RequestShape
    BY DEF Init, RequestShape, WellFormed, Idle, WebhookPc, OperatorPc
  <1>3. QED
    BY <1>1, <1>2 DEF TypeInv

\* Each step of a webhook, a manual action or the loader keeps types and shapes.
LEMMA TypeStep == TypeInv /\ [Next]_vars => TypeInv'
  <1> SUFFICES ASSUME TypeInv, [Next]_vars
               PROVE  TypeInv'
    OBVIOUS
  <1> USE DEF TypeInv, TypeOK
  <1>1. ASSUME NEW h \in Handlers, NEW m \in Messages, WebhookBlocked(h, m)
        PROVE  TypeInv'
    BY <1>1 DEF WebhookBlocked, Acknowledge, Replies, RequestShape
  <1>2. ASSUME NEW h \in Handlers, NEW m \in Messages, WebhookDuplicate(h, m)
        PROVE  TypeInv'
    BY <1>2 DEF WebhookDuplicate, Acknowledge, Replies, RequestShape
  <1>3. ASSUME NEW h \in Handlers, NEW m \in Messages, WebhookLookup(h, m)
        PROVE  TypeInv'
    <2> DEFINE q == [Idle EXCEPT !.pc = "insert", !.msg = m]
    <2>1. q \in Requests /\ WellFormed(q, state')
      BY <1>3 DEF WebhookLookup, Idle, Requests, WellFormed, WebhookPc, OperatorPc
    <2>2. req' \in [Handlers -> Requests] /\ RequestShape'
      BY <1>3, <2>1, ShapeFrame DEF WebhookLookup
    <2>3. QED
      BY <1>3, <2>2 DEF WebhookLookup, NoAnswer, Replies
  <1>4. ASSUME NEW h \in Handlers, WebhookInsert(h)
        PROVE  TypeInv'
    <2> DEFINE q == [req[h] EXCEPT !.pc = "recorded"]
    <2>1. q \in Requests /\ WellFormed(q, state')
      BY <1>4 DEF WebhookInsert, RequestShape, Requests, WellFormed, WebhookPc, OperatorPc
    <2>2. req' = [req EXCEPT ![h] = q]
      BY <1>4 DEF WebhookInsert
    <2>3. req' \in [Handlers -> Requests] /\ RequestShape'
      BY <1>4, <2>1, <2>2, ShapeFrame DEF WebhookInsert
    <2>4. QED
      BY <1>4, <2>3 DEF WebhookInsert
  <1>5. ASSUME NEW h \in Handlers, Fail(h),
               UNCHANGED <<state, processed, history, log>>
        PROVE  TypeInv'
    <2>1. req' \in [Handlers -> Requests] /\ RequestShape'
      BY <1>5, IdleShape, ShapeFrame DEF Fail, Close
    <2>2. QED
      BY <1>5, <2>1 DEF Fail, NoAnswer, Replies
  <1>6. ASSUME NEW h \in Handlers, WebhookRead(h)
        PROVE  TypeInv'
    <2>1. PICK r \in Rows :
             /\ RowsOf(Body[Hash[req[h].msg]].user) = {r}
             /\ req' = [req EXCEPT ![h].pc = "read", ![h].row = r, ![h].seen = state[r]]
      BY <1>6 DEF WebhookRead
    <2> DEFINE q == [req[h] EXCEPT !.pc = "read", !.row = r, !.seen = state[r]]
    <2>2. state[r] \in States /\ state[r] # Absent /\ state' = state
      BY <1>6, <2>1 DEF RowsOf, WebhookRead
    <2>3. /\ req[h].msg \in Messages /\ GatePasses(ExecutionModeText)
          /\ req[h] \in Requests
      BY <1>6 DEF WebhookRead, RequestShape, WellFormed, WebhookPc
    <2>4. q \in Requests /\ WellFormed(q, state')
      BY <2>2, <2>3 DEF Requests, WellFormed, WebhookPc, OperatorPc
    <2>5. req' = [req EXCEPT ![h] = q]
      BY <2>1
    <2>6. req' \in [Handlers -> Requests] /\ RequestShape'
      BY <1>6, <2>5, <2>4, ShapeFrame DEF WebhookRead
    <2>7. QED
      BY <1>6, <2>6 DEF WebhookRead
  <1>7. ASSUME NEW h \in Handlers, WebhookFlush(h)
        PROVE  TypeInv'
    <2> DEFINE to == WebhookMove(req[h].seen, Body[Hash[req[h].msg]])
               q  == [req[h] EXCEPT !.pc = "flushed", !.target = to]
    <2>1. /\ req[h] \in Requests /\ req[h].pc = "read"
          /\ req[h].msg \in Messages /\ req[h].seen \in States
          /\ GatePasses(ExecutionModeText)
          /\ req[h].row \in Rows /\ state[req[h].row] # Absent
      BY <1>7 DEF WebhookFlush, RequestShape, WellFormed, WebhookPc
    <2>2. to \in States /\ (to = req[h].seen \/ CanTransition(req[h].seen, to))
      BY <2>1, MoveType, BodyType
    <2> HIDE DEF to
    <2>3. q \in Requests /\ WellFormed(q, state')
      BY <1>7, <2>1, <2>2
         DEF WebhookFlush, Requests, WellFormed, WebhookPc, OperatorPc
    <2>4. req' = [req EXCEPT ![h] = q]
      BY <1>7 DEF WebhookFlush, to
    <2>5. req' \in [Handlers -> Requests] /\ RequestShape'
      BY <1>7, <2>3, <2>4, ShapeFrame DEF WebhookFlush
    <2>6. QED
      BY <1>7, <2>5 DEF WebhookFlush
  <1>8. ASSUME NEW h \in Handlers, WebhookCommit(h)
        PROVE  TypeInv'
    <2> DEFINE e == Hash[req[h].msg]
               x == [msg |-> req[h].msg, before |-> req[h].seen, after |-> req[h].target]
               y == AuditRow(req[h])
    <2>1. /\ req[h].msg \in Messages /\ req[h].row \in Rows
          /\ req[h].seen \in States /\ req[h].target \in States
      BY <1>8 DEF WebhookCommit, RequestShape, WellFormed, WebhookPc
    <2>2. e \in Hashes /\ x \in HistoryRows /\ y \in LogRows
      BY <2>1, BodyType DEF HistoryRows, LogRows, AuditRow
    <2>3. processed' \subseteq Hashes
      BY <1>8, <2>2 DEF WebhookCommit
    <2>4. history' \in [Hashes -> Seq(HistoryRows)]
      <3>1. history' = [history EXCEPT ![e] = Append(@, x)]
        BY <1>8 DEF WebhookCommit
      <3>2. Append(history[e], x) \in Seq(HistoryRows)
        BY <2>2
      <3>3. QED
        BY <3>1, <3>2
    <2>5. /\ state' \in [Rows -> States \cup {Absent}]
          /\ log' \in [Rows -> Seq(LogRows)]
          /\ \A r \in Rows : state[r] # Absent => state'[r] # Absent
      <3>1. CASE req[h].target = req[h].seen
        BY <1>8, <3>1 DEF WebhookCommit
      <3>2. CASE req[h].target # req[h].seen
        <4>1. /\ state' = [state EXCEPT ![req[h].row] = req[h].target]
              /\ log' = [log EXCEPT ![req[h].row] = Append(@, y)] \/ log' = log
          BY <1>8, <3>2 DEF WebhookCommit, Moved, Audited
        <4>2. Append(log[req[h].row], y) \in Seq(LogRows)
          BY <2>1, <2>2
        <4>3. QED
          BY <2>1, <4>1, <4>2, TableType
      <3>3. QED
        BY <3>1, <3>2
    <2>6. req' \in [Handlers -> Requests] /\ RequestShape'
      BY <1>8, <2>5, IdleShape, ShapeFrame DEF WebhookCommit, Close
    <2>7. reply' \in [Handlers -> Replies]
      BY <1>8, <2>1 DEF WebhookCommit, Acknowledge, Replies
    <2>8. QED
      BY <2>3, <2>4, <2>5, <2>6, <2>7
  <1>9. ASSUME NEW h \in Handlers, NEW u \in Users, NEW a \in Actions, ManualRead(h, u, a)
        PROVE  TypeInv'
    <2>1. PICK r \in RowsOf(u) :
             /\ CanTransition(state[r], ActionTarget[a])
             /\ req' = [req EXCEPT ![h] = [pc |-> "op_read", msg |-> NoMessage, row |-> r,
                                       seen |-> state[r], target |-> ActionTarget[a]]]
      BY <1>9 DEF ManualRead
    <2> DEFINE q == [pc |-> "op_read", msg |-> NoMessage, row |-> r,
                     seen |-> state[r], target |-> ActionTarget[a]]
    <2>2. r \in Rows /\ state[r] \in States /\ state[r] # Absent
      BY <2>1 DEF RowsOf
    <2>3. q \in Requests /\ WellFormed(q, state')
      BY <1>9, <2>1, <2>2, ActionTargetType
         DEF ManualRead, Requests, WellFormed, WebhookPc, OperatorPc
    <2>4. req' \in [Handlers -> Requests] /\ RequestShape'
      BY <1>9, <2>1, <2>3, ShapeFrame DEF ManualRead
    <2>5. QED
      BY <1>9, <2>4 DEF ManualRead, NoAnswer, Replies
  <1>10. ASSUME NEW h \in Handlers, ManualFlush(h)
         PROVE  TypeInv'
    <2> DEFINE q == [req[h] EXCEPT !.pc = "op_flushed"]
    <2>1. q \in Requests /\ WellFormed(q, state')
      BY <1>10 DEF ManualFlush, RequestShape, Requests, WellFormed, WebhookPc, OperatorPc
    <2>2. req' = [req EXCEPT ![h] = q]
      BY <1>10 DEF ManualFlush
    <2>3. req' \in [Handlers -> Requests] /\ RequestShape'
      BY <1>10, <2>1, <2>2, ShapeFrame DEF ManualFlush
    <2>4. QED
      BY <1>10, <2>3 DEF ManualFlush
  <1>11. ASSUME NEW h \in Handlers, ManualCommit(h)
         PROVE  TypeInv'
    <2> DEFINE y == AuditRow(req[h])
    <2>1. req[h].row \in Rows /\ req[h].seen \in States /\ req[h].target \in States
      BY <1>11 DEF ManualCommit, RequestShape, WellFormed, OperatorPc
    <2>2. /\ state' \in [Rows -> States \cup {Absent}]
          /\ \A r \in Rows : state[r] # Absent => state'[r] # Absent
      BY <1>11, <2>1, TableType DEF ManualCommit, Moved
    <2>3. log' \in [Rows -> Seq(LogRows)]
      <3>1. y \in LogRows
        BY <2>1 DEF LogRows, AuditRow, Requests
      <3>2. Append(log[req[h].row], y) \in Seq(LogRows)
        BY <2>1, <3>1
      <3>3. \/ log' = log
            \/ log' = [log EXCEPT ![req[h].row] = Append(@, y)]
        BY <1>11 DEF ManualCommit, Audited
      <3>4. QED
        BY <3>2, <3>3
    <2>4. req' \in [Handlers -> Requests] /\ RequestShape'
      BY <1>11, <2>2, IdleShape, ShapeFrame DEF ManualCommit, Close
    <2>5. QED
      BY <1>11, <2>2, <2>3, <2>4 DEF ManualCommit, NoAnswer, Replies
  <1>12. ASSUME NEW r \in Rows, LoadRow(r)
         PROVE  TypeInv'
    <2>1. /\ state' \in [Rows -> States \cup {Absent}]
          /\ \A s \in Rows : state[s] # Absent => state'[s] # Absent
      BY <1>12, ConstantsAssumption DEF LoadRow
    <2>2. RequestShape'
      BY <1>12, <2>1 DEF LoadRow, RequestShape, WellFormed
    <2>3. QED
      BY <1>12, <2>1, <2>2 DEF LoadRow
  <1>13. CASE UNCHANGED vars
    BY <1>13 DEF vars, RequestShape
  <1>14. ASSUME NEW h \in Handlers, Proceed(h) \/ Abort(h)
         PROVE  TypeInv'
    BY <1>4, <1>5, <1>6, <1>7, <1>8, <1>10, <1>11, <1>14
       DEF Proceed, Abort, WebhookConflict, WebhookReject, WebhookAmbiguous
  <1>15. ASSUME NEW h \in Handlers, Webhook(h) \/ Manual(h)
         PROVE  TypeInv'
    BY <1>1, <1>2, <1>3, <1>5, <1>9, <1>15 DEF Webhook, Manual, ManualRefused
  <1>16. QED
    BY <1>12, <1>13, <1>14, <1>15 DEF Next

\* Every reachable state is well typed, and every request record is in the shape
\* its phase promises, for any interleaving of webhook and manual requests.
THEOREM TypeCorrect == Spec => []TypeOK
  <1>1. TypeInv => TypeOK
    BY DEF TypeInv
  <1>2. QED
    BY TypeInit, TypeStep, <1>1, PTL DEF Spec

\* The inductive form of type correctness, for the theorems below.
LEMMA TypeInvariant == Spec => []TypeInv
  BY TypeInit, TypeStep, PTL DEF Spec

-----------------------------------------------------------------------------
(* Exactly once *)

\* Which steps can make a transaction hold an entry: only its own INSERT, when
\* nobody else holds that hash and it is not committed.
LEMMA HoldsFrame ==
    ASSUME TypeInv, NEW h \in Handlers, NEW q, req' = [req EXCEPT ![h] = q],
           q.pc \in {"recorded", "read", "flushed"} =>
             /\ req[h].pc \in {"recorded", "read", "flushed"}
             /\ q.msg = req[h].msg,
           NEW g \in Handlers, NEW e \in Hashes
    PROVE  HoldsEntry(g, e)' => HoldsEntry(g, e)
  <1>1. CASE g = h
    BY <1>1 DEF TypeInv, TypeOK, HoldsEntry
  <1>2. CASE g # h
    BY <1>2 DEF TypeInv, TypeOK, HoldsEntry
  <1>3. QED
    BY <1>1, <1>2

OnceInv == ExactlyOnce /\ EntryFresh

\* The tables start empty.
LEMMA OnceInit == Init => OnceInv
  BY DEF Init, OnceInv, ExactlyOnce, EntryFresh, HoldsEntry, Idle

\* The INSERT takes a free hash, the commit uses it up, nothing else touches either.
LEMMA OnceStep == TypeInv /\ OnceInv /\ [Next]_vars => OnceInv'
  <1> SUFFICES ASSUME TypeInv, OnceInv, [Next]_vars
               PROVE  OnceInv'
    OBVIOUS
  <1>0. ASSUME UNCHANGED <<processed, history>>,
               \A g \in Handlers, e \in Hashes : HoldsEntry(g, e)' => HoldsEntry(g, e)
        PROVE  OnceInv'
    <2>1. ExactlyOnce'
      BY <1>0 DEF OnceInv, ExactlyOnce
    <2>2. EntryFresh'
      BY <1>0 DEF OnceInv, EntryFresh
    <2>3. QED
      BY <2>1, <2>2 DEF OnceInv
  <1>1. ASSUME UNCHANGED <<processed, history, req>>
        PROVE  OnceInv'
    BY <1>0, <1>1 DEF HoldsEntry
  <1>2. ASSUME NEW h \in Handlers, Close(h), UNCHANGED <<processed, history>>
        PROVE  OnceInv'
    <2>1. Idle.pc = "idle"
      BY DEF Idle
    <2>2. \A g \in Handlers, e \in Hashes : HoldsEntry(g, e)' => HoldsEntry(g, e)
      BY <1>2, <2>1, HoldsFrame DEF Close
    <2>3. QED
      BY <1>0, <1>2, <2>2
  <1>3. ASSUME NEW h \in Handlers, NEW m \in Messages, WebhookLookup(h, m)
        PROVE  OnceInv'
    <2> DEFINE q == [Idle EXCEPT !.pc = "insert", !.msg = m]
    <2>1. q.pc = "insert" /\ req' = [req EXCEPT ![h] = q]
      BY <1>3 DEF WebhookLookup, Idle
    <2> HIDE DEF q
    <2>2. \A g \in Handlers, e \in Hashes : HoldsEntry(g, e)' => HoldsEntry(g, e)
      BY <2>1, HoldsFrame
    <2>3. QED
      BY <1>0, <1>3, <2>2 DEF WebhookLookup
  <1>4. ASSUME NEW h \in Handlers, WebhookInsert(h)
        PROVE  OnceInv'
    <2> DEFINE e0 == Hash[req[h].msg]
    <2>1. /\ e0 \notin processed
          /\ \A g \in Handlers \ {h} : ~ HoldsEntry(g, e0)
          /\ UNCHANGED <<processed, history>>
      BY <1>4 DEF WebhookInsert
    <2>2. \A g \in Handlers \ {h}, e \in Hashes : HoldsEntry(g, e)' <=> HoldsEntry(g, e)
      BY <1>4 DEF WebhookInsert, HoldsEntry, TypeInv, TypeOK
    <2>3. \A e \in Hashes : HoldsEntry(h, e)' <=> e = e0
      BY <1>4 DEF WebhookInsert, HoldsEntry, TypeInv, TypeOK, Requests
    <2> HIDE DEF e0
    <2>4. EntryFresh'
      BY <2>1, <2>2, <2>3 DEF OnceInv, EntryFresh
    <2>5. ExactlyOnce'
      BY <2>1 DEF OnceInv, ExactlyOnce
    <2>6. QED
      BY <2>4, <2>5 DEF OnceInv
  <1>5. ASSUME NEW h \in Handlers, WebhookRead(h) \/ WebhookFlush(h)
        PROVE  OnceInv'
    <2>1. /\ req[h].pc \in {"recorded", "read"}
          /\ \E q : req' = [req EXCEPT ![h] = q] /\ q.msg = req[h].msg
          /\ UNCHANGED <<processed, history>>
      <3>1. CASE WebhookRead(h)
        <4>1. PICK r \in Rows :
                 req' = [req EXCEPT ![h].pc = "read", ![h].row = r, ![h].seen = state[r]]
          BY <3>1 DEF WebhookRead
        <4> DEFINE q == [req[h] EXCEPT !.pc = "read", !.row = r, !.seen = state[r]]
        <4>2. req' = [req EXCEPT ![h] = q]
          BY <4>1
        <4>3. q.msg = req[h].msg
          BY DEF TypeInv, TypeOK, Requests
        <4>4. QED
          BY <3>1, <4>2, <4>3 DEF WebhookRead
      <3>2. CASE WebhookFlush(h)
        <4> DEFINE q == [req[h] EXCEPT !.pc = "flushed",
                           !.target = WebhookMove(req[h].seen, Body[Hash[req[h].msg]])]
        <4>1. req' = [req EXCEPT ![h] = q]
          BY <3>2 DEF WebhookFlush
        <4>2. q.msg = req[h].msg
          BY DEF TypeInv, TypeOK, Requests
        <4>3. QED
          BY <3>2, <4>1, <4>2 DEF WebhookFlush
      <3>3. QED
        BY <1>5, <3>1, <3>2
    <2>2. PICK q : req' = [req EXCEPT ![h] = q] /\ q.msg = req[h].msg
      BY <2>1
    <2>3. \A g \in Handlers, e \in Hashes : HoldsEntry(g, e)' => HoldsEntry(g, e)
      BY <2>1, <2>2, HoldsFrame
    <2>4. QED
      BY <1>0, <2>1, <2>3
  <1>6. ASSUME NEW h \in Handlers, WebhookCommit(h)
        PROVE  OnceInv'
    <2> DEFINE e0 == Hash[req[h].msg]
               x == [msg |-> req[h].msg, before |-> req[h].seen, after |-> req[h].target]
    <2>1. e0 \in Hashes /\ HoldsEntry(h, e0)
      BY <1>6, BodyType
         DEF WebhookCommit, TypeInv, RequestShape, WellFormed, WebhookPc, HoldsEntry
    <2>2. /\ e0 \notin processed
          /\ \A g \in Handlers \ {h} : ~ HoldsEntry(g, e0)
      BY <2>1 DEF OnceInv, EntryFresh
    <2>3. /\ processed' = processed \cup {e0}
          /\ history' = [history EXCEPT ![e0] = Append(@, x)]
      BY <1>6 DEF WebhookCommit
    <2>4. \A g \in Handlers, e \in Hashes : HoldsEntry(g, e)' => HoldsEntry(g, e)
      <3>1. Idle.pc = "idle" /\ req' = [req EXCEPT ![h] = Idle]
        BY <1>6 DEF Idle, WebhookCommit, Close
      <3>2. QED
        BY <3>1, HoldsFrame
    <2>5. \A e \in Hashes : ~ HoldsEntry(h, e)'
      BY <1>6 DEF WebhookCommit, Close, Idle, HoldsEntry, TypeInv, TypeOK
    <2>6. Len(Append(history[e0], x)) = Len(history[e0]) + 1
      <3>1. history[e0] \in Seq(HistoryRows)
        BY <2>1 DEF TypeInv, TypeOK
      <3>2. QED
        BY <3>1
    <2>7. \A e \in Hashes : history'[e] = IF e = e0 THEN Append(history[e0], x) ELSE history[e]
      BY <2>3 DEF TypeInv, TypeOK
    <2> HIDE DEF e0, x
    <2>8. ExactlyOnce'
      <3>1. SUFFICES ASSUME NEW e \in Hashes
                     PROVE  Len(history'[e]) = IF e \in processed' THEN 1 ELSE 0
        BY DEF ExactlyOnce
      <3>2. CASE e = e0
        <4>1. Len(history[e0]) = 0
          BY <2>1, <2>2 DEF OnceInv, ExactlyOnce
        <4>2. Len(Append(history[e0], x)) = 1
          BY <2>6, <4>1
        <4>3. history'[e] = Append(history[e0], x)
          BY <2>7, <3>2
        <4>4. e \in processed'
          BY <2>3, <3>2
        <4>5. QED
          BY <4>2, <4>3, <4>4
      <3>3. CASE e # e0
        <4>1. history'[e] = history[e] /\ (e \in processed' <=> e \in processed)
          BY <2>3, <2>7, <3>3
        <4>2. QED
          BY <4>1 DEF OnceInv, ExactlyOnce
      <3>4. QED
        BY <3>2, <3>3
    <2>9. EntryFresh'
      <3>1. SUFFICES ASSUME NEW g \in Handlers, NEW e \in Hashes, HoldsEntry(g, e)'
                     PROVE  /\ e \notin processed'
                            /\ \A k \in Handlers \ {g} : ~ HoldsEntry(k, e)'
        BY DEF EntryFresh
      <3>2. HoldsEntry(g, e) /\ g # h
        BY <2>4, <2>5, <3>1
      <3>3. e # e0
        BY <2>2, <3>2
      <3>4. QED
        BY <2>3, <2>4, <3>2, <3>3 DEF OnceInv, EntryFresh
    <2>10. QED
      BY <2>8, <2>9 DEF OnceInv
  <1>7. ASSUME NEW h \in Handlers, NEW u \in Users, NEW a \in Actions, ManualRead(h, u, a)
        PROVE  OnceInv'
    <2>1. PICK r \in RowsOf(u) :
             req' = [req EXCEPT ![h] = [pc |-> "op_read", msg |-> NoMessage, row |-> r,
                                       seen |-> state[r], target |-> ActionTarget[a]]]
      BY <1>7 DEF ManualRead
    <2> DEFINE q == [pc |-> "op_read", msg |-> NoMessage, row |-> r,
                     seen |-> state[r], target |-> ActionTarget[a]]
    <2>2. q.pc = "op_read" /\ req' = [req EXCEPT ![h] = q]
      BY <2>1
    <2> HIDE DEF q
    <2>3. \A g \in Handlers, e \in Hashes : HoldsEntry(g, e)' => HoldsEntry(g, e)
      BY <2>2, HoldsFrame
    <2>4. QED
      BY <1>0, <1>7, <2>3 DEF ManualRead
  <1>8. ASSUME NEW h \in Handlers, ManualFlush(h)
        PROVE  OnceInv'
    <2> DEFINE q == [req[h] EXCEPT !.pc = "op_flushed"]
    <2>1. q.pc = "op_flushed" /\ req' = [req EXCEPT ![h] = q]
      BY <1>8 DEF ManualFlush, TypeInv, TypeOK, Requests
    <2> HIDE DEF q
    <2>2. \A g \in Handlers, e \in Hashes : HoldsEntry(g, e)' => HoldsEntry(g, e)
      BY <2>1, HoldsFrame
    <2>3. QED
      BY <1>0, <1>8, <2>2 DEF ManualFlush
  <1>9. ASSUME NEW h \in Handlers, Proceed(h) \/ Abort(h)
        PROVE  OnceInv'
    BY <1>2, <1>4, <1>5, <1>6, <1>8, <1>9
       DEF Proceed, Abort, Fail, WebhookConflict, WebhookReject, WebhookAmbiguous, ManualCommit
  <1>10. ASSUME NEW h \in Handlers, Webhook(h) \/ Manual(h)
         PROVE  OnceInv'
    BY <1>1, <1>2, <1>3, <1>7, <1>10
       DEF Webhook, Manual, WebhookBlocked, WebhookDuplicate, ManualRefused, Fail
  <1>11. ASSUME NEW r \in Rows, LoadRow(r)
         PROVE  OnceInv'
    BY <1>1, <1>11 DEF LoadRow
  <1>12. CASE UNCHANGED vars
    BY <1>1, <1>12 DEF vars
  <1>13. QED
    BY <1>9, <1>10, <1>11, <1>12 DEF Next

\* However often a webhook is delivered, raced with itself, rejected or rolled
\* back, its effect is in the history once if its hash is committed and not at
\* all otherwise.
THEOREM ProcessedExactlyOnce == Spec => []ExactlyOnce
  <1>1. OnceInv => ExactlyOnce
    BY DEF OnceInv
  <1>2. QED
    BY TypeInvariant, OnceInit, OnceStep, <1>1, PTL DEF Spec

-----------------------------------------------------------------------------
(* The audit trail *)

\* Only the two commits and the external load change what is in the database.
LEMMA DatabaseSteps ==
    ASSUME [Next]_vars
    PROVE  \/ UNCHANGED <<state, processed, history, log>>
           \/ \E h \in Handlers : WebhookCommit(h) \/ ManualCommit(h)
           \/ \E r \in Rows : LoadRow(r)
  <1>1. ASSUME NEW h \in Handlers, Webhook(h)
        PROVE  UNCHANGED <<state, processed, history, log>>
    BY <1>1 DEF Webhook, WebhookBlocked, WebhookDuplicate, WebhookLookup
  <1>2. ASSUME NEW h \in Handlers, Manual(h)
        PROVE  UNCHANGED <<state, processed, history, log>>
    BY <1>2 DEF Manual, ManualRefused, ManualRead
  <1>3. ASSUME NEW h \in Handlers, Proceed(h)
        PROVE  \/ UNCHANGED <<state, processed, history, log>>
               \/ WebhookCommit(h) \/ ManualCommit(h)
    BY <1>3 DEF Proceed, WebhookInsert, WebhookConflict, WebhookReject, WebhookAmbiguous,
                WebhookRead, WebhookFlush, ManualFlush
  <1>4. ASSUME NEW h \in Handlers, Abort(h)
        PROVE  UNCHANGED <<state, processed, history, log>>
    BY <1>4 DEF Abort
  <1>5. CASE UNCHANGED vars
    BY <1>5 DEF vars
  <1>6. QED
    BY <1>1, <1>2, <1>3, <1>4, <1>5 DEF Next

\* What a commit writes to the case and to its audit trail.
LEMMA WebhookCommitWrites ==
    ASSUME TypeInv, NEW h \in Handlers, WebhookCommit(h)
    PROVE  /\ GatePasses(ExecutionModeText)
           /\ Hash[req[h].msg] \in Hashes /\ req[h].msg \in Messages
           /\ \/ UNCHANGED <<state, log>> /\ req[h].target = req[h].seen
              \/ \E y \in LogRows :
                   /\ Cites(y, req[h].msg, <<req[h].seen, req[h].target>>)
                   /\ req[h].row \in Rows /\ state[req[h].row] # Absent
                   /\ CanTransition(y.from, y.to)
                   /\ state' = [state EXCEPT ![req[h].row] = y.to]
                   /\ log' = [log EXCEPT ![req[h].row] = Append(@, y)]
  <1> DEFINE y == AuditRow(req[h])
  <1>1. WellFormed(req[h], state) /\ req[h].pc = "flushed"
    BY DEF TypeInv, RequestShape, WebhookCommit
  <1>2. /\ GatePasses(ExecutionModeText)
        /\ req[h].msg \in Messages /\ req[h].row \in Rows /\ state[req[h].row] # Absent
        /\ req[h].seen \in States /\ req[h].target \in States
        /\ req[h].target = req[h].seen \/ CanTransition(req[h].seen, req[h].target)
    BY <1>1 DEF WellFormed, WebhookPc
  <1>3. y \in LogRows
    BY <1>2 DEF LogRows, AuditRow
  <1>4. CASE req[h].target = req[h].seen
    BY <1>2, <1>4, BodyType DEF WebhookCommit
  <1>5. CASE req[h].target # req[h].seen
    <2>1. /\ state' = [state EXCEPT ![req[h].row] = y.to]
          /\ log' = [log EXCEPT ![req[h].row] = Append(@, y)]
          /\ CanTransition(y.from, y.to)
      BY <1>2, <1>5 DEF WebhookCommit, Moved, Audited, AuditRow
    <2>2. Cites(y, req[h].msg, <<req[h].seen, req[h].target>>)
      BY <1>1 DEF Cites, AuditRow
    <2>3. QED
      BY <1>2, <1>3, <2>1, <2>2, BodyType
  <1>6. QED
    BY <1>4, <1>5

\* The same for an operator's commit, whose audit row RULE 0 may block.
LEMMA ManualCommitWrites ==
    ASSUME TypeInv, NEW h \in Handlers, ManualCommit(h)
    PROVE  /\ UNCHANGED <<processed, history>>
           /\ req[h].row \in Rows /\ state[req[h].row] # Absent
           /\ \E y \in LogRows :
                /\ y.actor = "operator"
                /\ CanTransition(y.from, y.to)
                /\ state' = [state EXCEPT ![req[h].row] = y.to]
                /\ log' = IF GatePasses(ExecutionModeText)
                          THEN [log EXCEPT ![req[h].row] = Append(@, y)] ELSE log
  <1> DEFINE y == AuditRow(req[h])
  <1>1. WellFormed(req[h], state) /\ req[h].pc = "op_flushed"
    BY DEF TypeInv, RequestShape, ManualCommit
  <1>2. /\ req[h].row \in Rows /\ state[req[h].row] # Absent
        /\ req[h].seen \in States /\ req[h].target \in States
        /\ CanTransition(req[h].seen, req[h].target)
    BY <1>1 DEF WellFormed, OperatorPc
  <1>3. y \in LogRows
    BY <1>2 DEF LogRows, AuditRow, TypeInv, TypeOK, Requests
  <1>4. /\ state' = [state EXCEPT ![req[h].row] = y.to]
        /\ log' = IF GatePasses(ExecutionModeText)
                  THEN [log EXCEPT ![req[h].row] = Append(@, y)] ELSE log
        /\ CanTransition(y.from, y.to)
        /\ UNCHANGED <<processed, history>>
    BY <1>2 DEF ManualCommit, Moved, Audited, AuditRow
  <1>5. y.actor = "operator"
    BY <1>1 DEF AuditRow
  <1>6. QED
    BY <1>2, <1>3, <1>4, <1>5

\* Moving a loaded case along the table and appending the audit row of that very
\* move keeps the trail in step with the case.
LEMMA RecordedMove ==
    ASSUME TypeInv, AuditTrail, AbsentUnlogged,
           NEW r \in Rows, NEW y \in LogRows, CanTransition(y.from, y.to),
           state' = [state EXCEPT ![r] = y.to],
           log' = [log EXCEPT ![r] = Append(@, y)]
    PROVE  AuditTrail' /\ AbsentUnlogged'
  <1> DEFINE l == Append(log[r], y)
  <1>1. /\ state \in [Rows -> States \cup {Absent}]
        /\ log \in [Rows -> Seq(LogRows)] /\ log[r] \in Seq(LogRows)
    BY DEF TypeInv, TypeOK
  <1>2. /\ Len(l) \in Nat /\ DOMAIN l = 1 .. Len(l) /\ l # <<>>
        /\ l[Len(l)] = y
        /\ \A i \in DOMAIN l : l[i] = y \/ (i \in DOMAIN log[r] /\ l[i] = log[r][i])
    BY <1>1
  <1>3. /\ state'[r] = y.to /\ log'[r] = l
        /\ \A s \in Rows \ {r} : state'[s] = state[s] /\ log'[s] = log[s]
    BY <1>1
  <1> HIDE DEF l
  <1>4. AuditTrail'
    <2>1. SUFFICES ASSUME NEW s \in Rows
                   PROVE  /\ log'[s] # <<>> => state'[s] = log'[s][Len(log'[s])].to
                          /\ \A i \in DOMAIN log'[s] :
                               CanTransition(log'[s][i].from, log'[s][i].to)
      BY DEF AuditTrail
    <2>2. CASE s = r
      <3>1. \A i \in DOMAIN l : CanTransition(l[i].from, l[i].to)
        BY <1>2 DEF AuditTrail
      <3>2. QED
        BY <1>2, <1>3, <2>2, <3>1
    <2>3. CASE s # r
      BY <1>3, <2>3 DEF AuditTrail
    <2>4. QED
      BY <2>2, <2>3
  <1>5. y.to # Absent
    BY TableType DEF LogRows
  <1>6. AbsentUnlogged'
    BY <1>3, <1>5 DEF AbsentUnlogged
  <1>7. QED
    BY <1>4, <1>6

AuditInv == AuditTrail /\ AbsentUnlogged /\ GateFailsClosed

\* There are no audit rows at first.
LEMMA AuditInit == Init => AuditInv
  BY DEF Init, AuditInv, AuditTrail, AbsentUnlogged, GateFailsClosed

\* A recorded move, a blocked record or a load: each keeps the trail in step.
LEMMA AuditStep == TypeInv /\ AuditInv /\ [Next]_vars => AuditInv'
  <1> SUFFICES ASSUME TypeInv, AuditInv, [Next]_vars
               PROVE  AuditInv'
    OBVIOUS
  <1> USE DEF AuditInv
  <1>1. CASE UNCHANGED <<state, processed, history, log>>
    BY <1>1 DEF AuditTrail, AbsentUnlogged, GateFailsClosed
  <1>2. ASSUME NEW h \in Handlers, WebhookCommit(h)
        PROVE  AuditInv'
    <2>1. GateFailsClosed'
      BY <1>2, WebhookCommitWrites DEF GateFailsClosed
    <2>2. CASE UNCHANGED <<state, log>>
      BY <2>1, <2>2 DEF AuditTrail, AbsentUnlogged
    <2>3. CASE ~ UNCHANGED <<state, log>>
      BY <1>2, <2>1, <2>3, WebhookCommitWrites, RecordedMove
    <2>4. QED
      BY <2>2, <2>3
  <1>3. ASSUME NEW h \in Handlers, ManualCommit(h)
        PROVE  AuditInv'
    <2>1. PICK y \in LogRows :
             /\ CanTransition(y.from, y.to)
             /\ state' = [state EXCEPT ![req[h].row] = y.to]
             /\ log' = IF GatePasses(ExecutionModeText)
                       THEN [log EXCEPT ![req[h].row] = Append(@, y)] ELSE log
      BY <1>3, ManualCommitWrites
    <2>2. /\ UNCHANGED <<processed, history>>
          /\ req[h].row \in Rows /\ state[req[h].row] # Absent
      BY <1>3, ManualCommitWrites
    <2>3. CASE GatePasses(ExecutionModeText)
      BY <2>1, <2>2, <2>3, RecordedMove DEF GateFailsClosed
    <2>4. CASE ~ GatePasses(ExecutionModeText)
      <3>1. log' = log /\ \A r \in Rows : log[r] = <<>>
        BY <2>1, <2>4 DEF GateFailsClosed
      <3>2. QED
        BY <2>2, <3>1 DEF AuditTrail, AbsentUnlogged, GateFailsClosed
    <2>5. QED
      BY <2>3, <2>4
  <1>4. ASSUME NEW r \in Rows, LoadRow(r)
        PROVE  AuditInv'
    <2>1. log[r] = <<>>
      BY <1>4 DEF LoadRow, AbsentUnlogged
    <2>2. \A s \in Rows \ {r} : state'[s] = state[s]
      BY <1>4 DEF LoadRow, TypeInv, TypeOK
    <2>3. UNCHANGED <<processed, history, log>>
      BY <1>4 DEF LoadRow
    <2>4. AuditTrail'
      BY <2>1, <2>2, <2>3 DEF AuditTrail
    <2>5. AbsentUnlogged'
      BY <2>1, <2>2, <2>3 DEF AbsentUnlogged
    <2>6. GateFailsClosed'
      BY <2>3 DEF GateFailsClosed
    <2>7. QED
      BY <2>4, <2>5, <2>6
  <1>5. QED
    BY <1>1, <1>2, <1>3, <1>4, DatabaseSteps

\* For any number of overlapping requests, in whatever mode the process runs, the
\* newest audit row of a case names its state and every row is a move of the table.
THEOREM TrailInStep == Spec => []AuditTrail
  <1>1. AuditInv => AuditTrail
    BY DEF AuditInv
  <1>2. QED
    BY TypeInvariant, AuditInit, AuditStep, <1>1, PTL DEF Spec

\* In a mode the vocabulary does not know, no governed table ever gains a row.
THEOREM FailsClosed == Spec => []GateFailsClosed
  <1>1. AuditInv => GateFailsClosed
    BY DEF AuditInv
  <1>2. QED
    BY TypeInvariant, AuditInit, AuditStep, <1>1, PTL DEF Spec

\* No step of the application touches the audit rows that are there, and while
\* RULE 0 lets audit rows through no case moves without one.
THEOREM MovesAreAudited ==
    ASSUME GatePasses(ExecutionModeText)
    PROVE  Spec => EveryMoveAudited
  <1> DEFINE AuditedAt(r) ==
               /\ state[r] # Absent /\ state'[r] # state[r] => Len(log'[r]) > Len(log[r])
               /\ SubSeq(log'[r], 1, Len(log[r])) = log[r]
             A == \A r \in Rows : AuditedAt(r)
  <1>1. TypeInv /\ [Next]_vars => [A]_vars
    <2> SUFFICES ASSUME TypeInv, [Next]_vars, NEW r \in Rows
                 PROVE  AuditedAt(r)
      OBVIOUS
    <2>1. log[r] \in Seq(LogRows) /\ SubSeq(log[r], 1, Len(log[r])) = log[r]
      BY DEF TypeInv, TypeOK
    <2>2. ASSUME log'[r] = log[r], state'[r] = state[r] \/ state[r] = Absent
          PROVE  AuditedAt(r)
      BY <2>1, <2>2
    <2>3. ASSUME NEW y \in LogRows, log'[r] = Append(log[r], y)
          PROVE  AuditedAt(r)
      <3>1. /\ Len(Append(log[r], y)) = Len(log[r]) + 1 /\ Len(log[r]) \in Nat
            /\ SubSeq(Append(log[r], y), 1, Len(log[r])) = log[r]
        BY <2>1
      <3>2. QED
        BY <2>3, <3>1
    <2>4. ASSUME NEW s \in Rows, NEW y \in LogRows,
                 state' = [state EXCEPT ![s] = y.to],
                 log' = [log EXCEPT ![s] = Append(@, y)]
          PROVE  AuditedAt(r)
      <3>1. CASE r = s
        BY <2>3, <2>4, <3>1 DEF TypeInv, TypeOK
      <3>2. CASE r # s
        BY <2>2, <2>4, <3>2 DEF TypeInv, TypeOK
      <3>3. QED
        BY <3>1, <3>2
    <2> HIDE DEF AuditedAt
    <2>5. CASE UNCHANGED <<state, processed, history, log>>
      BY <2>2, <2>5
    <2>6. ASSUME NEW h \in Handlers, WebhookCommit(h)
          PROVE  AuditedAt(r)
      <3>1. CASE UNCHANGED <<state, log>>
        BY <2>2, <3>1
      <3>2. CASE ~ UNCHANGED <<state, log>>
        BY <2>4, <2>6, <3>2, WebhookCommitWrites
      <3>3. QED
        BY <3>1, <3>2
    <2>7. ASSUME NEW h \in Handlers, ManualCommit(h)
          PROVE  AuditedAt(r)
      BY <2>4, <2>7, ManualCommitWrites
    <2>8. ASSUME NEW s \in Rows, LoadRow(s)
          PROVE  AuditedAt(r)
      BY <2>2, <2>8 DEF LoadRow, TypeInv, TypeOK
    <2>9. QED
      BY <2>5, <2>6, <2>7, <2>8, DatabaseSteps
  <1>2. [][A]_vars => EveryMoveAudited
    BY PTL DEF EveryMoveAudited
  <1>3. QED
    BY TypeInvariant, <1>1, <1>2, PTL DEF Spec

\* Whoever takes a case out of CLOSED read it before it was closed: a request that reads
\* CLOSED finds no move in the table (state_machine.py), and nothing but a commit moves a
\* case that is there (webhook.py, outreach.py).
THEOREM ReopensFromStaleReads == Spec => ReopensAreStale
  <1> DEFINE Stale(r) ==
               state[r] = "CLOSED" /\ state'[r] # "CLOSED" =>
                 \E h \in Handlers :
                   /\ req[h].pc \in {"flushed", "op_flushed"} /\ req'[h] = Idle
                   /\ req[h].row = r /\ req[h].seen \notin {"CLOSED", Absent}
                   /\ CanTransition(req[h].seen, state'[r])
  <1>1. TypeInv /\ [Next]_vars => [\A r \in Rows : Stale(r)]_vars
    <2> SUFFICES ASSUME TypeInv, [Next]_vars, NEW r \in Rows,
                        state[r] = "CLOSED", state'[r] # "CLOSED"
                 PROVE  \E h \in Handlers :
                          /\ req[h].pc \in {"flushed", "op_flushed"} /\ req'[h] = Idle
                          /\ req[h].row = r /\ req[h].seen \notin {"CLOSED", Absent}
                          /\ CanTransition(req[h].seen, state'[r])
      OBVIOUS
    <2>1. ~ UNCHANGED <<state, processed, history, log>>
      OBVIOUS
    <2>2. ~ \E s \in Rows : LoadRow(s)
      BY DEF LoadRow, TypeInv, TypeOK, Absent, States
    <2>3. PICK h \in Handlers : WebhookCommit(h) \/ ManualCommit(h)
      BY <2>1, <2>2, DatabaseSteps
    <2>4. /\ req[h].pc \in {"flushed", "op_flushed"} /\ req'[h] = Idle
          /\ state' = [state EXCEPT ![req[h].row] = req[h].target]
      <3>1. req \in [Handlers -> Requests] /\ state \in [Rows -> States \cup {Absent}]
        BY DEF TypeInv, TypeOK
      <3>. QED
        BY <2>1, <2>3, <3>1 DEF WebhookCommit, ManualCommit, Close, Moved
    <2>5. req[h].row = r /\ state'[r] = req[h].target
      BY <2>4 DEF TypeInv, TypeOK
    <2>6. /\ req[h].seen \in States
          /\ req[h].target = req[h].seen \/ CanTransition(req[h].seen, req[h].target)
      BY <2>4 DEF TypeInv, RequestShape, WellFormed, OperatorPc
    <2>7. CanTransition(req[h].seen, req[h].target)
      <3>1. CASE WebhookCommit(h)
        <4>1. req[h].target # req[h].seen
          BY <3>1 DEF WebhookCommit
        <4>. QED
          BY <2>6, <4>1
      <3>2. CASE ManualCommit(h)
        BY <3>2 DEF ManualCommit, TypeInv, RequestShape, WellFormed, OperatorPc
      <3>. QED
        BY <2>3, <3>1, <3>2
    <2>8. req[h].seen \notin {"CLOSED", Absent}
      BY <2>6, <2>7, TableType DEF CanTransition, TRANSITIONS, States, Absent
    <2>. QED
      BY <2>4, <2>5, <2>7, <2>8
  <1>2. QED
    BY TypeInvariant, <1>1, PTL DEF Spec, ReopensAreStale

-----------------------------------------------------------------------------
(* What the sender is told *)

\* Committed events and history rows are never taken back.
LEMMA LedgersGrow ==
    ASSUME TypeInv, [Next]_vars
    PROVE  /\ processed \subseteq processed'
           /\ \A e \in Hashes : \A i \in DOMAIN history[e] :
                i \in DOMAIN history'[e] /\ history'[e][i] = history[e][i]
  <1>1. CASE UNCHANGED <<processed, history>>
    BY <1>1
  <1>2. ASSUME NEW h \in Handlers, WebhookCommit(h)
        PROVE  /\ processed \subseteq processed'
               /\ \A e \in Hashes : \A i \in DOMAIN history[e] :
                    i \in DOMAIN history'[e] /\ history'[e][i] = history[e][i]
    <2> DEFINE e0 == Hash[req[h].msg]
               x == [msg |-> req[h].msg, before |-> req[h].seen, after |-> req[h].target]
    <2>1. processed \subseteq processed' /\ history' = [history EXCEPT ![e0] = Append(@, x)]
      BY <1>2 DEF WebhookCommit
    <2> HIDE DEF x, e0
    <2>2. ASSUME NEW e \in Hashes, NEW i \in DOMAIN history[e]
          PROVE  i \in DOMAIN history'[e] /\ history'[e][i] = history[e][i]
      <3>1. history \in [Hashes -> Seq(HistoryRows)] /\ history[e] \in Seq(HistoryRows)
        BY DEF TypeInv, TypeOK
      <3>2. i \in DOMAIN Append(history[e], x) /\ Append(history[e], x)[i] = history[e][i]
        BY <3>1
      <3>3. history'[e] = history[e] \/ history'[e] = Append(history[e], x)
        BY <2>1, <3>1
      <3>4. QED
        BY <3>2, <3>3
    <2>3. QED
      BY <2>1, <2>2
  <1>3. QED
    BY <1>1, <1>2, DatabaseSteps DEF ManualCommit, LoadRow

Truthful(answer, done, rows) ==
    /\ answer.status = "deduplicated" => Hash[answer.msg] \in done
    /\ answer.status = "processed" =>
          \E i \in DOMAIN rows[Hash[answer.msg]] : rows[Hash[answer.msg]][i].msg = answer.msg

\* While RULE 0 lets the webhook through, the answer a step gives is true in the
\* state the step leads to.
LEMMA NewAnswers ==
    ASSUME TypeInv, GatePasses(ExecutionModeText), [Next]_vars, NEW h \in Handlers
    PROVE  reply'[h] = reply[h] \/ Truthful(reply'[h], processed', history')
  <1>1. ASSUME NEW g \in Handlers, NoAnswer(g)
        PROVE  reply'[h] = reply[h] \/ Truthful(reply'[h], processed', history')
    BY <1>1 DEF NoAnswer, NoReply, Truthful, TypeInv, TypeOK
  <1>2. ASSUME NEW g \in Handlers, NEW m \in Messages, WebhookDuplicate(g, m)
        PROVE  reply'[h] = reply[h] \/ Truthful(reply'[h], processed', history')
    BY <1>2 DEF WebhookDuplicate, Acknowledge, Truthful, TypeInv, TypeOK
  <1>3. ASSUME NEW g \in Handlers, WebhookCommit(g)
        PROVE  reply'[h] = reply[h] \/ Truthful(reply'[h], processed', history')
    <2> DEFINE m == req[g].msg
               x == [msg |-> m, before |-> req[g].seen, after |-> req[g].target]
    <2>1. /\ history' = [history EXCEPT ![Hash[m]] = Append(@, x)]
          /\ reply' = [reply EXCEPT ![g] = [status |-> "processed", msg |-> m]]
      BY <1>3 DEF WebhookCommit, Acknowledge
    <2>2. history[Hash[m]] \in Seq(HistoryRows)
          /\ history'[Hash[m]] = Append(history[Hash[m]], x)
      BY <1>3, <2>1, WebhookCommitWrites DEF TypeInv, TypeOK
    <2>3. \E i \in DOMAIN history'[Hash[m]] : history'[Hash[m]][i].msg = m
      <3>1. /\ Len(history[Hash[m]]) + 1 \in DOMAIN Append(history[Hash[m]], x)
            /\ Append(history[Hash[m]], x)[Len(history[Hash[m]]) + 1] = x
        <4>1. \A q \in Seq(HistoryRows) : /\ Len(q) + 1 \in DOMAIN Append(q, x)
                                         /\ Append(q, x)[Len(q) + 1] = x
          OBVIOUS
        <4>. QED
          BY <2>2, <4>1, Zenon
      <3>2. x.msg = m
        OBVIOUS
      <3>3. QED
        BY <2>2, <3>1, <3>2
    <2> HIDE DEF m, x
    <2>4. reply'[h] = reply[h] \/ reply'[h] = [status |-> "processed", msg |-> m]
      BY <2>1 DEF TypeInv, TypeOK
    <2>5. QED
      BY <2>3, <2>4 DEF Truthful
  <1>4. ASSUME UNCHANGED reply
        PROVE  reply'[h] = reply[h] \/ Truthful(reply'[h], processed', history')
    BY <1>4
  <1>5. QED
    BY <1>1, <1>2, <1>3, <1>4
       DEF Next, vars, Webhook, Manual, Proceed, Abort, Fail, WebhookBlocked, WebhookLookup,
           WebhookInsert, WebhookConflict, WebhookReject, WebhookAmbiguous, WebhookRead,
           WebhookFlush, ManualRefused, ManualRead, ManualFlush, ManualCommit, LoadRow

\* While RULE 0 lets the webhook through, "deduplicated" and "processed" are only
\* ever said of a message whose effect is committed.
THEOREM AcknowledgedIsCommitted ==
    ASSUME GatePasses(ExecutionModeText)
    PROVE  Spec => []AcksTruthful
  <1>1. Init => AcksTruthful
    BY DEF Init, AcksTruthful, NoReply
  <1>2. TypeInv /\ AcksTruthful /\ [Next]_vars => AcksTruthful'
    <2> SUFFICES ASSUME TypeInv, AcksTruthful, [Next]_vars, NEW h \in Handlers
                 PROVE  Truthful(reply'[h], processed', history')
      BY DEF AcksTruthful, Truthful
    <2>1. CASE reply'[h] = reply[h]
      <3>1. Truthful(reply[h], processed, history)
        BY DEF AcksTruthful, Truthful
      <3>2. reply[h].status # "none" => Hash[reply[h].msg] \in Hashes
        BY BodyType DEF TypeInv, TypeOK, Replies, NoReply
      <3>3. Truthful(reply[h], processed', history')
        BY <2>1, <3>1, <3>2, LedgersGrow DEF Truthful
      <3>4. QED
        BY <2>1, <3>3
    <2>2. CASE reply'[h] # reply[h]
      BY <2>2, NewAnswers
    <2>3. QED
      BY <2>1, <2>2
  <1>3. QED
    BY TypeInvariant, <1>1, <1>2, PTL DEF Spec

-----------------------------------------------------------------------------
(* The two ledgers of a webhook *)

\* A history row is filed under the hash of its message.
Filed == \A e \in Hashes : \A i \in DOMAIN history[e] : Hash[history[e][i].msg] = e

\* A move in the history has its one audit row.
AuditedOnce ==
    \A e \in Hashes : \A i \in DOMAIN history[e] :
      LET x == history[e][i] IN
      x.before # x.after => \E p : Auditors(log, x.msg, <<x.before, x.after>>) = {p}

\* A webhook's audit row has a history row of the same message and move, which y backs.
Backs(x, y) == x.msg = y.msg /\ Cites(y, x.msg, <<x.before, x.after>>)
Backed ==
    \A r \in Rows : \A i \in DOMAIN log[r] :
      log[r][i].actor = "webhook" =>
        /\ log[r][i].msg \in Messages
        /\ \E j \in DOMAIN history[Hash[log[r][i].msg]] :
             Backs(history[Hash[log[r][i].msg]][j], log[r][i])

LedgerInv == Filed /\ AuditedOnce /\ Backed

\* A step that appends one audit row.
Appended(r, y) ==
    log'[r] = Append(log[r], y) /\ \A s \in Rows \ {r} : log'[s] = log[s]

LEMMA AppendedBy ==
    ASSUME TypeInv, NEW r \in Rows, NEW y, log' = [log EXCEPT ![r] = Append(@, y)]
    PROVE  Appended(r, y)
  BY DEF TypeInv, TypeOK, Appended

\* A new audit row is an auditor of its own message and move only.
LEMMA AuditorsGrow ==
    ASSUME TypeInv, NEW r \in Rows, NEW y \in LogRows,
           Appended(r, y), NEW m, NEW x
    PROVE  /\ ~ Cites(y, m, x) => Auditors(log', m, x) = Auditors(log, m, x)
           /\ Cites(y, m, x) =>
                Auditors(log', m, x) = Auditors(log, m, x) \cup {<<r, Len(log[r]) + 1>>}
  <1> DEFINE n == Len(log[r]) + 1
  <1>1. log \in [Rows -> Seq(LogRows)] /\ log[r] \in Seq(LogRows)
    BY DEF TypeInv, TypeOK
  <1>2. log'[r] = Append(log[r], y) /\ \A s \in Rows \ {r} : log'[s] = log[s]
    BY DEF Appended
  <1>3. /\ DOMAIN Append(log[r], y) = DOMAIN log[r] \cup {n} /\ n \notin DOMAIN log[r]
        /\ Append(log[r], y)[n] = y
        /\ \A i \in DOMAIN log[r] : Append(log[r], y)[i] = log[r][i]
    BY <1>1
  <1>4. ASSUME NEW p
        PROVE  p \in Auditors(log', m, x) <=>
                 p \in Auditors(log, m, x) \/ (Cites(y, m, x) /\ p = <<r, n>>)
    <2>1. p \in Auditors(log, m, x) <=>
            \E s \in Rows : \E i \in DOMAIN log[s] : p = <<s, i>> /\ Cites(log[s][i], m, x)
      BY DEF Auditors
    <2>2. p \in Auditors(log', m, x) <=>
            \E s \in Rows : \E i \in DOMAIN log'[s] : p = <<s, i>> /\ Cites(log'[s][i], m, x)
      BY DEF Auditors, Cites
    <2> HIDE DEF n
    <2>3. ASSUME NEW s \in Rows
          PROVE  (\E i \in DOMAIN log'[s] : p = <<s, i>> /\ Cites(log'[s][i], m, x)) <=>
                   \/ \E i \in DOMAIN log[s] : p = <<s, i>> /\ Cites(log[s][i], m, x)
                   \/ s = r /\ p = <<r, n>> /\ Cites(y, m, x)
      <3>1. CASE s = r
        BY <1>2, <1>3, <3>1
      <3>2. CASE s # r
        BY <1>2, <3>2
      <3>3. QED
        BY <3>1, <3>2
    <2>4. QED
      BY <2>1, <2>2, <2>3
  <1>5. QED
    BY <1>4

\* An audit row of another event, or an operator's, is no second auditor of a move that is
\* in the history.
LEMMA OldMovesAudited ==
    ASSUME LedgerInv, NEW e \in Hashes, NEW i \in DOMAIN history[e],
           NEW x, x = history[e][i], x.before # x.after,
           \/ log' = log
           \/ /\ TypeInv
              /\ \E r \in Rows, y \in LogRows :
                   Appended(r, y) /\ (y.actor = "webhook" => Hash[y.msg] # e)
    PROVE  \E p : Auditors(log', x.msg, <<x.before, x.after>>) = {p}
  <1> DEFINE v == <<x.before, x.after>>
  <1>1. Hash[x.msg] = e /\ \E p : Auditors(log, x.msg, v) = {p}
    BY DEF LedgerInv, Filed, AuditedOnce
  <1>2. Auditors(log', x.msg, v) = Auditors(log, x.msg, v)
    <2>1. CASE log' = log
      BY <2>1 DEF Auditors
    <2>2. ASSUME TypeInv, NEW r \in Rows, NEW y \in LogRows, Appended(r, y),
                 y.actor = "webhook" => Hash[y.msg] # e
          PROVE  Auditors(log', x.msg, v) = Auditors(log, x.msg, v)
      <3>1. ~ Cites(y, x.msg, v)
        BY <1>1, <2>2 DEF Cites
      <3>2. QED
        BY <2>2, <3>1, AuditorsGrow
    <2>3. QED
      BY <2>1, <2>2
  <1>3. QED
    BY <1>1, <1>2

\* A step that takes nothing from the history leaves every old audit row backed.
LEMMA OldRowsBacked ==
    ASSUME TypeInv, LedgerInv, [Next]_vars, NEW r \in Rows, NEW i \in DOMAIN log[r],
           NEW y, y = log[r][i], y.actor = "webhook"
    PROVE  /\ y.msg \in Messages
           /\ \E j \in DOMAIN history'[Hash[y.msg]] : Backs(history'[Hash[y.msg]][j], y)
  <1>1. y.msg \in Messages
    BY DEF LedgerInv, Backed
  <1>2. PICK j \in DOMAIN history[Hash[y.msg]] : Backs(history[Hash[y.msg]][j], y)
    BY DEF LedgerInv, Backed
  <1>3. j \in DOMAIN history'[Hash[y.msg]] /\ history'[Hash[y.msg]][j] = history[Hash[y.msg]][j]
    BY <1>1, BodyType, LedgersGrow
  <1>4. QED
    BY <1>1, <1>2, <1>3

LEMMA LedgerInit == Init => LedgerInv
  BY DEF Init, LedgerInv, Filed, AuditedOnce, Backed

\* An operator's audit row is in neither ledger of the webhook.
LEMMA ManualCommitLedgers ==
    ASSUME TypeInv, LedgerInv, [Next]_vars, NEW h \in Handlers, ManualCommit(h)
    PROVE  LedgerInv'
  <1>1. PICK y \in LogRows : y.actor = "operator" /\ (log' = log \/ Appended(req[h].row, y))
    BY ManualCommitWrites, AppendedBy
  <1>2. history' = history /\ req[h].row \in Rows /\ log \in [Rows -> Seq(LogRows)]
    BY ManualCommitWrites DEF TypeInv, TypeOK
  <1>3. Filed'
    BY <1>2 DEF LedgerInv, Filed
  <1>4. AuditedOnce'
    <2>1. ASSUME NEW e \in Hashes, NEW i \in DOMAIN history[e],
                 NEW x, x = history[e][i], x.before # x.after
          PROVE  \E p : Auditors(log', x.msg, <<x.before, x.after>>) = {p}
      BY <1>1, <1>2, <2>1, OldMovesAudited
    <2>2. QED
      BY <1>2, <2>1 DEF AuditedOnce
  <1>5. Backed'
    <2>1. ASSUME NEW r \in Rows, NEW i \in DOMAIN log'[r], log'[r][i].actor = "webhook"
          PROVE  i \in DOMAIN log[r] /\ log'[r][i] = log[r][i]
      <3>1. CASE log'[r] = log[r]
        BY <3>1
      <3>2. CASE log'[r] = Append(log[r], y)
        <4>1. log[r] \in Seq(LogRows)
          BY <1>2
        <4>2. \/ i \in DOMAIN log[r] /\ Append(log[r], y)[i] = log[r][i]
              \/ Append(log[r], y)[i] = y
          BY <3>2, <4>1
        <4>3. QED
          BY <1>1, <2>1, <3>2, <4>2
      <3>3. QED
        BY <1>1, <1>2, <3>1, <3>2 DEF Appended
    <2>2. ASSUME NEW r \in Rows, NEW i \in DOMAIN log'[r], NEW y1, y1 = log'[r][i],
                 y1.actor = "webhook"
          PROVE  /\ y1.msg \in Messages
                 /\ \E j \in DOMAIN history'[Hash[y1.msg]] : Backs(history'[Hash[y1.msg]][j], y1)
      BY <2>1, <2>2, OldRowsBacked
    <2>3. QED
      BY <2>2 DEF Backed, Backs, Cites
  <1>6. QED
    BY <1>3, <1>4, <1>5 DEF LedgerInv

\* A webhook's commit writes both ledgers: the history row of a hash that had none, and,
\* when the case moves, the one audit row of that move.
LEMMA WebhookCommitLedgers ==
    ASSUME TypeInv, OnceInv, LedgerInv, [Next]_vars, NEW h \in Handlers, WebhookCommit(h)
    PROVE  LedgerInv'
  <1> DEFINE e0 == Hash[req[h].msg]
             x0 == [msg |-> req[h].msg, before |-> req[h].seen, after |-> req[h].target]
             v0 == <<req[h].seen, req[h].target>>
  <1>1. e0 \in Hashes /\ req[h].msg \in Messages /\ req[h].row \in Rows
    <2>1. WellFormed(req[h], state) /\ req[h].pc = "flushed"
      BY DEF TypeInv, RequestShape, WebhookCommit
    <2>2. QED
      BY <2>1, WebhookCommitWrites DEF WellFormed
  <1>2. history[e0] = <<>>
    <2>1. e0 \notin processed
      BY <1>1 DEF OnceInv, EntryFresh, HoldsEntry, WebhookCommit
    <2>2. Len(history[e0]) = 0 /\ history[e0] \in Seq(HistoryRows)
      BY <1>1, <2>1 DEF OnceInv, ExactlyOnce, TypeInv, TypeOK
    <2>3. QED
      BY <2>2
  <1>3. /\ history'[e0] = <<x0>> /\ DOMAIN <<x0>> = {1} /\ <<x0>>[1] = x0
        /\ \A e \in Hashes \ {e0} : history'[e] = history[e]
    <2>1. history' = [history EXCEPT ![e0] = Append(@, x0)]
      BY DEF WebhookCommit
    <2>2. Append(<<>>, x0) = <<x0>>
      OBVIOUS
    <2>3. QED
      BY <1>1, <1>2, <2>1, <2>2 DEF TypeInv, TypeOK
  <1>4. x0.msg = req[h].msg /\ <<x0.before, x0.after>> = v0
    OBVIOUS
  <1>5. \/ log' = log /\ req[h].target = req[h].seen
        \/ \E y \in LogRows : Cites(y, req[h].msg, v0) /\ Appended(req[h].row, y)
    BY WebhookCommitWrites, AppendedBy
  <1> HIDE DEF x0
  <1>6. Filed'
    BY <1>1, <1>3, <1>4 DEF LedgerInv, Filed
  <1>7. Auditors(log, req[h].msg, v0) = {}
    BY <1>1, <1>2 DEF Auditors, Cites, LedgerInv, Backed
  <1>8. AuditedOnce'
    <2>1. ASSUME NEW e \in Hashes \ {e0}, NEW i \in DOMAIN history[e],
                 NEW x, x = history[e][i], x.before # x.after
          PROVE  \E p : Auditors(log', x.msg, <<x.before, x.after>>) = {p}
      <3>1. CASE log' = log
        BY <2>1, <3>1, OldMovesAudited
      <3>2. CASE log' # log
        <4>1. PICK y \in LogRows : Cites(y, req[h].msg, v0) /\ Appended(req[h].row, y)
          BY <1>5, <3>2
        <4>2. Hash[y.msg] # e
          BY <4>1 DEF Cites
        <4>3. \E r \in Rows, z \in LogRows :
                Appended(r, z) /\ (z.actor = "webhook" => Hash[z.msg] # e)
          BY <1>1, <4>1, <4>2
        <4>4. QED
          BY <2>1, <4>3, OldMovesAudited
      <3>3. QED
        BY <3>1, <3>2
    <2>2. ASSUME NEW x, x = x0, x.before # x.after
          PROVE  \E p : Auditors(log', x.msg, <<x.before, x.after>>) = {p}
      <3>1. x.msg = req[h].msg /\ <<x.before, x.after>> = v0 /\ req[h].target # req[h].seen
        BY <1>4, <2>2
      <3>2. PICK y \in LogRows : Cites(y, req[h].msg, v0) /\ Appended(req[h].row, y)
        BY <1>5, <3>1
      <3>3. Cites(y, x.msg, <<x.before, x.after>>)
        BY <3>1, <3>2
      <3>4. Auditors(log, x.msg, <<x.before, x.after>>) = {}
        BY <1>7, <3>1
      <3>5. Auditors(log', x.msg, <<x.before, x.after>>) =
              Auditors(log, x.msg, <<x.before, x.after>>)
                \cup {<<req[h].row, Len(log[req[h].row]) + 1>>}
        BY <1>1, <3>2, <3>3, AuditorsGrow
      <3>6. QED
        BY <3>4, <3>5
    <2>3. ASSUME NEW e \in Hashes, NEW i \in DOMAIN history'[e],
                 NEW x, x = history'[e][i], x.before # x.after
          PROVE  \E p : Auditors(log', x.msg, <<x.before, x.after>>) = {p}
      <3>1. CASE e = e0
        BY <1>3, <2>2, <2>3, <3>1
      <3>2. CASE e # e0
        <4>1. e \in Hashes \ {e0} /\ i \in DOMAIN history[e] /\ x = history[e][i]
          BY <1>3, <2>3, <3>2
        <4>2. QED
          BY <2>1, <2>3, <4>1
      <3>3. QED
        BY <3>1, <3>2
    <2>4. QED
      BY <2>3 DEF AuditedOnce
  <1>9. Backed'
    <2>1. ASSUME NEW r \in Rows, NEW i \in DOMAIN log'[r], NEW y, y = log'[r][i],
                 y.actor = "webhook"
          PROVE  /\ y.msg \in Messages
                 /\ \E j \in DOMAIN history'[Hash[y.msg]] : Backs(history'[Hash[y.msg]][j], y)
      <3>1. \/ i \in DOMAIN log[r] /\ log'[r][i] = log[r][i]
            \/ Cites(y, req[h].msg, v0)
        <4>1. log[r] \in Seq(LogRows) /\ log \in [Rows -> Seq(LogRows)]
          BY DEF TypeInv, TypeOK
        <4>2. \A z \in LogRows : \A k \in DOMAIN Append(log[r], z) :
                \/ k \in DOMAIN log[r] /\ Append(log[r], z)[k] = log[r][k]
                \/ Append(log[r], z)[k] = z
          BY <4>1
        <4>3. QED
          BY <1>1, <1>5, <2>1, <4>1, <4>2 DEF Appended
      <3>2. CASE i \in DOMAIN log[r] /\ log'[r][i] = log[r][i]
        BY <2>1, <3>2, OldRowsBacked
      <3>3. CASE Cites(y, req[h].msg, v0)
        <4>1. y.msg = req[h].msg /\ Backs(x0, y)
          BY <1>4, <3>3 DEF Cites, Backs
        <4>2. QED
          BY <1>1, <1>3, <4>1
      <3>4. QED
        BY <3>1, <3>2, <3>3
    <2>2. QED
      BY <2>1 DEF Backed, Backs, Cites
  <1>10. QED
    BY <1>6, <1>8, <1>9 DEF LedgerInv

LEMMA LedgerStep == TypeInv /\ OnceInv /\ LedgerInv /\ [Next]_vars => LedgerInv'
  <1> SUFFICES ASSUME TypeInv, OnceInv, LedgerInv, [Next]_vars
               PROVE  LedgerInv'
    OBVIOUS
  <1>1. CASE UNCHANGED <<history, log>>
    BY <1>1 DEF LedgerInv, Filed, AuditedOnce, Backed, Auditors
  <1>2. QED
    BY <1>1, WebhookCommitLedgers, ManualCommitLedgers, DatabaseSteps DEF LoadRow

\* However webhooks and operators overlap, each move in outreach_history has exactly one row
\* of its own in state_transition_log, and no webhook's audit row lacks a history row.
THEOREM LedgersInStep == Spec => []LedgersAgree
  <1>1. LedgerInv => LedgersAgree
    <2> SUFFICES ASSUME LedgerInv PROVE LedgersAgree
      OBVIOUS
    <2>1. \A p : Cardinality({p}) = 1
      BY FS_Singleton
    <2>2. QED
      BY <2>1 DEF LedgerInv, AuditedOnce, Backed, Backs, LedgersAgree
  <1>2. QED
    BY TypeInvariant, OnceInit, OnceStep, LedgerInit, LedgerStep, <1>1, PTL DEF Spec

-----------------------------------------------------------------------------
(* Who waits for whom *)

\* The index entry of an event is taken before the row lock of its case and nothing is
\* locked by a SELECT, so of any set of open requests one can go on: those that hold a
\* row wait for nothing, those that have read wait for them only, and those that look for
\* their index entry wait for both - webhooks and operators (webhook.py, outreach.py).
THEOREM WaitsAreOrdered == Spec => []NoCircularWait
  <1>1. NoCircularWait
    <2>. SUFFICES ASSUME NEW S \in SUBSET Handlers, S # {}
                  PROVE  \E h \in S : \A g \in S : ~ WaitsFor(h, g)
      BY DEF NoCircularWait
    <2>1. CASE \E h \in S : req[h].pc \notin {"insert", "read", "op_read"}
      BY <2>1 DEF WaitsFor
    <2>2. CASE \A h \in S : req[h].pc \in {"insert", "read", "op_read"}
      <3>1. \A g \in S : \A r : ~ HoldsRow(g, r)
        BY <2>2 DEF HoldsRow
      <3>2. CASE \E h \in S : req[h].pc \in {"read", "op_read"}
        BY <3>1, <3>2 DEF WaitsFor
      <3>3. CASE \A h \in S : req[h].pc = "insert"
        BY <3>3 DEF WaitsFor, HoldsEntry
      <3>. QED
        BY <2>2, <3>2, <3>3
    <2>. QED
      BY <2>1, <2>2
  <1>. QED
    BY <1>1, PTL

-----------------------------------------------------------------------------
(* The webhook implements the exactly-once inbox *)

\* Hashing, unique index, row locks, roll-backs and concurrent operators are
\* together a refinement of "remember and process an event in one step".
THEOREM ImplementsInbox == Spec => InboxSpec
  <1> DEFINE done == [e \in Hashes |-> Len(history[e])]
  <1>1. Init => Inbox!Init
    BY DEF Init, Inbox!Init
  <1>2. TypeInv /\ OnceInv /\ [Next]_vars => [Inbox!Next]_<<processed, done>>
    <2> SUFFICES ASSUME TypeInv, OnceInv, [Next]_vars
                 PROVE  Inbox!Next \/ UNCHANGED <<processed, done>>
      OBVIOUS
    <2>1. CASE UNCHANGED <<processed, history>>
      BY <2>1
    <2>2. ASSUME NEW h \in Handlers, WebhookCommit(h)
          PROVE  Inbox!Next
      <3> DEFINE e0 == Hash[req[h].msg]
                 x == [msg |-> req[h].msg, before |-> req[h].seen, after |-> req[h].target]
      <3>1. e0 \in Hashes
        BY <2>2, WebhookCommitWrites
      <3>2. e0 \notin processed
        BY <2>2, <3>1 DEF OnceInv, EntryFresh, HoldsEntry, WebhookCommit
      <3>3. /\ processed' = processed \cup {e0}
            /\ history' = [history EXCEPT ![e0] = Append(@, x)]
        BY <2>2 DEF WebhookCommit
      <3> HIDE DEF e0, x
      <3>4. done' = [done EXCEPT ![e0] = @ + 1]
        <4>1. history[e0] \in Seq(HistoryRows) /\ history \in [Hashes -> Seq(HistoryRows)]
          BY <3>1 DEF TypeInv, TypeOK
        <4>2. Len(Append(history[e0], x)) = Len(history[e0]) + 1
          BY <4>1
        <4>3. \A e \in Hashes : Len(history'[e]) = IF e = e0 THEN Len(history[e0]) + 1
                                                          ELSE Len(history[e])
          BY <3>3, <4>1, <4>2
        <4>4. QED
          BY <3>1, <4>3
      <3>5. QED
        BY <3>1, <3>2, <3>3, <3>4 DEF Inbox!Next, Inbox!Process
    <2>3. QED
      BY <2>1, <2>2, DatabaseSteps DEF ManualCommit, LoadRow
  <1>3. QED
    BY TypeInvariant, OnceInit, OnceStep, <1>1, <1>2, PTL DEF Spec, InboxSpec, Inbox!Spec

-----------------------------------------------------------------------------
(* One request at a time implements the case *)

\* Requests do not overlap when there is one handler.
OneAtATime == \A g, h \in Handlers : g = h

\* What a request read of the case is still so when it commits.
ReadIsCurrent ==
    \A h \in Handlers :
      req[h].pc \in {"read", "flushed"} \cup OperatorPc => state[req[h].row] = req[h].seen

LEMMA ReadInit == Init => ReadIsCurrent
  BY DEF Init, ReadIsCurrent, Idle, OperatorPc

\* A step of the only request keeps what it has read, forgets it, or reads it anew; a row
\* loaded meanwhile is not the one it read, which was there.
LEMMA ReadStep ==
    ASSUME OneAtATime, TypeInv, ReadIsCurrent, [Next]_vars
    PROVE  ReadIsCurrent'
  <1> USE DEF OperatorPc
  <1>1. ASSUME NEW h \in Handlers, NEW q, req' = [req EXCEPT ![h] = q],
               q.pc \in {"read", "flushed", "op_read", "op_flushed"} => state'[q.row] = q.seen
        PROVE  ReadIsCurrent'
    BY <1>1 DEF OneAtATime, ReadIsCurrent, TypeInv, TypeOK
  <1>2. ASSUME NEW h \in Handlers, Close(h)
        PROVE  ReadIsCurrent'
    BY <1>1, <1>2 DEF Close, Idle
  <1>3. ASSUME NEW h \in Handlers, Webhook(h)
        PROVE  ReadIsCurrent'
    <2>1. CASE UNCHANGED <<state, req>>
      BY <2>1 DEF ReadIsCurrent
    <2>2. ASSUME NEW m \in Messages, WebhookLookup(h, m)
          PROVE  ReadIsCurrent'
      BY <1>1, <2>2 DEF WebhookLookup, Idle
    <2>3. QED
      BY <1>3, <2>1, <2>2 DEF Webhook, WebhookBlocked, WebhookDuplicate
  <1>4. ASSUME NEW h \in Handlers, Manual(h)
        PROVE  ReadIsCurrent'
    <2>1. ASSUME NEW u \in Users, NEW a \in Actions, ManualRead(h, u, a)
          PROVE  ReadIsCurrent'
      BY <1>1, <2>1 DEF ManualRead
    <2>2. QED
      BY <1>2, <1>4, <2>1 DEF Manual, ManualRefused, Fail
  <1>5. ASSUME NEW h \in Handlers, WebhookInsert(h)
        PROVE  ReadIsCurrent'
    <2>1. req' = [req EXCEPT ![h] = [req[h] EXCEPT !.pc = "recorded"]]
      BY <1>5 DEF WebhookInsert
    <2>2. [req[h] EXCEPT !.pc = "recorded"].pc = "recorded"
      BY DEF TypeInv, TypeOK, Requests
    <2>3. QED
      BY <1>1, <2>1, <2>2
  <1>6. ASSUME NEW h \in Handlers, WebhookRead(h)
        PROVE  ReadIsCurrent'
    <2>1. PICK r \in Rows :
             req' = [req EXCEPT ![h].pc = "read", ![h].row = r, ![h].seen = state[r]]
      BY <1>6 DEF WebhookRead
    <2> DEFINE q == [req[h] EXCEPT !.pc = "read", !.row = r, !.seen = state[r]]
    <2>2. req' = [req EXCEPT ![h] = q]
      BY <2>1
    <2>3. q.row = r /\ q.seen = state[r]
      BY DEF TypeInv, TypeOK, Requests
    <2>4. state' = state
      BY <1>6 DEF WebhookRead
    <2>5. QED
      BY <1>1, <2>2, <2>3, <2>4
  <1>7. ASSUME NEW h \in Handlers, WebhookFlush(h)
        PROVE  ReadIsCurrent'
    <2> DEFINE to == WebhookMove(req[h].seen, Body[Hash[req[h].msg]])
               q  == [req[h] EXCEPT !.pc = "flushed", !.target = to]
    <2>1. req' = [req EXCEPT ![h] = q] /\ state' = state /\ req[h].pc = "read"
      BY <1>7 DEF WebhookFlush
    <2>2. q.row = req[h].row /\ q.seen = req[h].seen
      BY DEF TypeInv, TypeOK, Requests
    <2>3. QED
      BY <1>1, <2>1, <2>2 DEF ReadIsCurrent
  <1>8. ASSUME NEW h \in Handlers, ManualFlush(h)
        PROVE  ReadIsCurrent'
    <2> DEFINE q == [req[h] EXCEPT !.pc = "op_flushed"]
    <2>1. req' = [req EXCEPT ![h] = q] /\ state' = state /\ req[h].pc = "op_read"
      BY <1>8 DEF ManualFlush
    <2>2. q.row = req[h].row /\ q.seen = req[h].seen
      BY DEF TypeInv, TypeOK, Requests
    <2>3. QED
      BY <1>1, <2>1, <2>2 DEF ReadIsCurrent
  <1>9. ASSUME NEW h \in Handlers, Proceed(h) \/ Abort(h)
        PROVE  ReadIsCurrent'
    BY <1>2, <1>5, <1>6, <1>7, <1>8, <1>9
       DEF Proceed, Abort, Fail, WebhookConflict, WebhookReject, WebhookAmbiguous,
           WebhookCommit, ManualCommit
  <1>10. ASSUME NEW r \in Rows, LoadRow(r)
         PROVE  ReadIsCurrent'
    <2>1. /\ req' = req /\ state[r] = Absent
          /\ \A s \in Rows \ {r} : state'[s] = state[s]
      BY <1>10 DEF LoadRow, TypeInv, TypeOK
    <2>2. \A h \in Handlers :
            req[h].pc \in {"read", "flushed", "op_read", "op_flushed"} =>
              req[h].row \in Rows /\ state[req[h].row] # Absent
      BY DEF TypeInv, RequestShape, WellFormed
    <2>3. QED
      BY <2>1, <2>2 DEF ReadIsCurrent
  <1>11. CASE UNCHANGED vars
    BY <1>11 DEF vars, ReadIsCurrent
  <1>12. QED
    BY <1>3, <1>4, <1>9, <1>10, <1>11 DEF Next

\* The moves of an audit trail that has gained a row are the old ones and the new one.
LEMMA MovesAppend ==
    ASSUME NEW l \in Seq(LogRows), NEW y \in LogRows
    PROVE  [i \in DOMAIN Append(l, y) |-> <<Append(l, y)[i].from, Append(l, y)[i].to>>]
             = Append([i \in DOMAIN l |-> <<l[i].from, l[i].to>>], <<y.from, y.to>>)
  <1> DEFINE moves == [i \in DOMAIN l |-> <<l[i].from, l[i].to>>]
             longer == [i \in DOMAIN Append(l, y) |->
                          <<Append(l, y)[i].from, Append(l, y)[i].to>>]
             x == <<y.from, y.to>>
  <1>1. /\ Len(l) \in Nat /\ DOMAIN l = 1 .. Len(l)
        /\ DOMAIN Append(l, y) = 1 .. Len(l) + 1
        /\ Append(l, y)[Len(l) + 1] = y
        /\ \A i \in 1 .. Len(l) : Append(l, y)[i] = l[i]
    OBVIOUS
  <1>2. \A i \in 1 .. Len(l) : l[i] \in LogRows
    BY <1>1
  <1>3. moves \in Seq(States \X States) /\ x \in States \X States /\ Len(moves) = Len(l)
    <2>1. moves \in [1 .. Len(l) -> States \X States] /\ x \in States \X States
      BY <1>1, <1>2 DEF LogRows
    <2>2. QED
      BY <1>1, <2>1
  <1>4. Append(moves, x) = [i \in 1 .. Len(l) + 1 |-> IF i <= Len(l) THEN moves[i] ELSE x]
    <2> HIDE DEF moves, x
    <2>1. /\ Append(moves, x) \in Seq(States \X States)
          /\ Len(Append(moves, x)) = Len(l) + 1
          /\ Append(moves, x)[Len(l) + 1] = x
          /\ \A i \in 1 .. Len(l) : Append(moves, x)[i] = moves[i]
      BY <1>1, <1>3
    <2>2. Append(moves, x) = [i \in 1 .. Len(l) + 1 |-> Append(moves, x)[i]]
      <3>1. \A S : \A s \in Seq(S) : s = [i \in 1 .. Len(s) |-> s[i]]
        OBVIOUS
      <3>2. QED
        BY <2>1, <3>1, Zenon
    <2>3. QED
      BY <1>1, <2>1, <2>2
  <1>5. longer = [i \in 1 .. Len(l) + 1 |-> IF i <= Len(l) THEN moves[i] ELSE x]
    <2>1. ASSUME NEW i \in 1 .. Len(l) + 1
          PROVE  longer[i] = IF i <= Len(l) THEN moves[i] ELSE x
      BY <1>1
    <2>2. QED
      BY <1>1, <2>1
  <1>6. QED
    BY <1>4, <1>5

\* While requests do not overlap and RULE 0 lets audit rows through, a commit of either
\* handler is one move of the case of spec/03, from the state it is in, recorded as it is
\* made - for any rows, students, messages and actions (webhook.py, outreach.py).
THEOREM SerialImplementsCase == OneAtATime /\ GatePasses(ExecutionModeText) /\ Spec => CaseSpec
  <1> SUFFICES ASSUME OneAtATime, GatePasses(ExecutionModeText)
               PROVE  Spec => CaseSpec
    OBVIOUS
  <1> DEFINE moves(l) == [i \in DOMAIN l |-> <<l[i].from, l[i].to>>]
             trail == [r \in Rows |-> [i \in DOMAIN log[r] |-> <<log[r][i].from, log[r][i].to>>]]
  <1>1. Init => Case!Init
    BY DEF Init, Case!Init
  <1>2. ReadIsCurrent /\ TypeInv /\ [Next]_vars => [Case!Next]_<<state, trail>>
    <2> SUFFICES ASSUME ReadIsCurrent, TypeInv, [Next]_vars
                 PROVE  Case!Next \/ UNCHANGED <<state, trail>>
      OBVIOUS
    <2>1. CASE UNCHANGED <<state, log>>
      BY <2>1
    <2>2. ASSUME NEW h \in Handlers, WebhookCommit(h) \/ ManualCommit(h),
                 ~ UNCHANGED <<state, log>>
          PROVE  Case!Next
      <3>1. PICK r \in Rows : r = req[h].row
        BY <2>2 DEF WebhookCommit, ManualCommit, TypeInv, RequestShape, WellFormed, OperatorPc
      <3>2. PICK y : y = AuditRow(req[h])
        OBVIOUS
      <3>3. /\ req[h].seen \in States /\ req[h].target \in States
            /\ CanTransition(req[h].seen, req[h].target)
            /\ req[h].pc \in {"flushed", "op_flushed"}
        BY <2>2, TableType
           DEF WebhookCommit, ManualCommit, TypeInv, RequestShape, WellFormed, OperatorPc
      <3>4. state[r] = y.from /\ y.to = req[h].target /\ state[r] # Absent
        BY <3>1, <3>2, <3>3, TableType DEF ReadIsCurrent, OperatorPc, AuditRow
      <3>5. state' = [state EXCEPT ![r] = y.to] /\ log' = [log EXCEPT ![r] = Append(@, y)]
        BY <2>2, <3>1, <3>2, <3>4 DEF WebhookCommit, ManualCommit, Moved, Audited
      <3>6. y \in LogRows /\ log \in [Rows -> Seq(LogRows)]
        BY <3>2, <3>3 DEF TypeInv, TypeOK, AuditRow, LogRows, Requests
      <3>7. y.to \in TRANSITIONS[state[r]]
        BY <3>2, <3>3, <3>4 DEF CanTransition, AuditRow
      <3>8. trail' = [trail EXCEPT ![r] = Append(@, <<state[r], y.to>>)]
        <4>1. moves(Append(log[r], y)) = Append(moves(log[r]), <<y.from, y.to>>)
          BY <3>6, MovesAppend
        <4>2. \A s \in Rows : log'[s] = IF s = r THEN Append(log[r], y) ELSE log[s]
          BY <3>5, <3>6
        <4>3. QED
          BY <3>4, <4>1, <4>2
      <3>9. Case!Move(r)
        BY <3>4, <3>5, <3>7, <3>8 DEF Case!Move
      <3>. QED
        BY <3>9 DEF Case!Next
    <2>3. ASSUME NEW r \in Rows, LoadRow(r)
          PROVE  Case!Next
      BY <2>3 DEF LoadRow, Case!Next, Case!Load
    <2>. QED
      BY <2>1, <2>2, <2>3, DatabaseSteps
  <1>3. ReadIsCurrent /\ TypeInv /\ [Next]_vars => ReadIsCurrent'
    BY ReadStep
  <1>4. QED
    BY TypeInvariant, ReadInit, <1>1, <1>2, <1>3, PTL DEF Spec, CaseSpec, Case!Spec
=============================================================================
