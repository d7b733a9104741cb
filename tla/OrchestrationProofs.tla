------------------------- MODULE OrchestrationProofs -------------------------
(***************************************************************************)
(* What the requests and the batches of Orchestration can never do, for    *)
(* any requests, students, configurations and days.                        *)
(***************************************************************************)
EXTENDS Orchestration, FiniteSetTheorems, TLAPS

-----------------------------------------------------------------------------
(* Idempotency keys *)

\* outreach.py and sync.py name an intent only for a request that passed RULE 0, and so
\* for a key that was not seen before.
LEMMA IntentNeedsNewKey ==
    ASSUME NEW s \in Services, NEW ctx, AnswerOf(s, ctx).intent # None
    PROVE  Passes(s, ctx) /\ ctx.key \notin seen[s]
<1>1. CASE s = "sync"
  <2>1. CoordinateSync(ctx, seen[s]).intent # None
    BY <1>1 DEF AnswerOf
  <2>2. SyncGate(ctx, seen[s])
    BY <2>1 DEF CoordinateSync, SyncBlocked, BlockedAnswer, Answer
  <2>. QED
    BY <1>1, <2>2 DEF Passes, SyncGate
<1>2. CASE s = "outreach"
  <2>1. CoordinateOutreach(ctx, seen[s]).intent # None
    BY <1>2 DEF AnswerOf
  <2>2. OutreachGate(ctx, seen[s])
    BY <2>1 DEF CoordinateOutreach, OutreachBlocked, BlockedAnswer, Answer
  <2>. QED
    BY <1>2, <2>2 DEF Passes, OutreachGate
<1>. QED
  BY <1>1, <1>2 DEF Services

\* KeyEvaluatedOnce is not inductive: what keeps a key from a second evaluation is that
\* the first one left it in the memory of its service.
KeyInv ==
    /\ seen \in [Services -> SUBSET Keys]
    /\ evaluated \in [Services -> [Keys -> 0 .. 1]]
    /\ \A s \in Services, k \in Keys : evaluated[s][k] = 1 => k \in seen[s]

LEMMA KeyInit == Init => KeyInv
BY DEF Init, KeyInv

LEMMA CoordinateKeepsKeys ==
    ASSUME KeyInv, NEW r \in Requests, Coordinate(r)
    PROVE  KeyInv'
<1>. DEFINE s == r.service
            ctx == r.ctx
            counted == ctx.type = "original" /\ ctx.key # None /\ AnswerOf(s, ctx).intent # None
<1>1. s \in Services
  BY OrchestrationAssumption DEF OrchestrationAssumption
<1>2. ctx.key # None => ctx.key \in Keys
  BY DEF Keys
<1>3. Registers(ctx) \subseteq Keys
  BY <1>2 DEF Registers
<1>4. seen' = [seen EXCEPT ![s] = @ \cup IF Passes(s, ctx) THEN Registers(ctx) ELSE {}]
  BY DEF Coordinate, TakeKey
<1>5. evaluated' = IF counted THEN [evaluated EXCEPT ![s][ctx.key] = @ + 1] ELSE evaluated
  BY DEF Coordinate
<1>6. seen' \in [Services -> SUBSET Keys] /\ \A t \in Services : seen[t] \subseteq seen'[t]
  BY <1>1, <1>3, <1>4 DEF KeyInv
<1>7. CASE ~counted
  BY <1>5, <1>6, <1>7 DEF KeyInv
<1>8. CASE counted
  <2>1. Passes(s, ctx) /\ ctx.key \notin seen[s]
    BY <1>1, <1>8, IntentNeedsNewKey
  <2>2. ctx.key \in Keys /\ ctx.key \in Registers(ctx)
    BY <1>2, <1>8 DEF Registers
  <2>3. ctx.key \in seen'[s]
    BY <1>1, <1>4, <2>1, <2>2 DEF KeyInv
  <2>4. evaluated[s][ctx.key] = 0
    BY <1>1, <2>1, <2>2 DEF KeyInv
  <2>5. evaluated' = [evaluated EXCEPT ![s] = [evaluated[s] EXCEPT ![ctx.key] = 1]]
    BY <1>1, <1>5, <1>8, <2>2, <2>4 DEF KeyInv
  <2>6. evaluated' \in [Services -> [Keys -> 0 .. 1]]
    BY <1>1, <2>2, <2>5 DEF KeyInv
  <2>7. ASSUME NEW t \in Services, NEW k \in Keys, evaluated'[t][k] = 1
        PROVE  k \in seen'[t]
    BY <1>1, <1>6, <2>2, <2>3, <2>5, <2>7 DEF KeyInv
  <2>. QED
    BY <1>6, <2>6, <2>7 DEF KeyInv
<1>. QED
  BY <1>7, <1>8

\* A restart forgets the keys, and with them what they were counted for.
LEMMA StopKeepsKeys ==
    ASSUME KeyInv, Stop
    PROVE  KeyInv'
BY DEF KeyInv, Stop

LEMMA KeyStep == KeyInv /\ [Next]_vars => KeyInv'
<1>. SUFFICES ASSUME KeyInv, [Next]_vars PROVE KeyInv'
  OBVIOUS
<1>1. CASE UNCHANGED <<seen, evaluated>>
  BY <1>1 DEF KeyInv
<1>2. ASSUME NEW r \in Requests, Coordinate(r) PROVE KeyInv'
  BY <1>2, CoordinateKeepsKeys
<1>3. CASE Stop
  BY <1>3, StopKeepsKeys
<1>4. CASE Startup \/ ActivateVersion \/ Tick \/ \E j \in Jobs : Missed(j)
  BY <1>1, <1>4 DEF Startup, ActivateVersion, Tick, Missed, memory
<1>5. CASE RunCycle \/ RunSync \/ RunReport \/ RunCapture
  BY <1>1, <1>5 DEF RunCycle, RunSync, RunReport, RunCapture, memory
<1>6. CASE \E c \in Batches : RunBatch(c)
  BY <1>1, <1>6 DEF RunBatch, memory
<1>7. CASE UNCHANGED vars
  BY <1>1, <1>7 DEF vars
<1>. QED
  BY <1>2, <1>3, <1>4, <1>5, <1>6, <1>7 DEF Next

\* AP-RT10: an original request is evaluated at most once per key and process, whatever
\* comes between.
THEOREM KeysEvaluatedOnce == Spec => []KeyEvaluatedOnce
<1>1. KeyInv => KeyEvaluatedOnce
  BY DEF KeyInv, KeyEvaluatedOnce
<1>. QED
  BY <1>1, KeyInit, KeyStep, PTL DEF Spec

-----------------------------------------------------------------------------
(* Batches *)

\* No coordination grants the authority to dispatch: not even one in LIVE mode
\* (_outreach_helpers.py, dispatch_authorized).
LEMMA NeverAuthorized ==
    ASSUME NEW ctx, NEW known
    PROVE  CoordinateOutreach(ctx, known).authorized = FALSE
<1>1. OutreachBlocked(ctx).authorized = FALSE
  BY DEF OutreachBlocked, BlockedAnswer, Answer
<1>2. OutreachMaintenance(ctx).authorized = FALSE
  BY DEF OutreachMaintenance, MaintenanceAnswer, Answer
<1>3. OutreachReplay(ctx).authorized = FALSE
  BY DEF OutreachReplay, ReplayAnswer, Answer
<1>4. OutreachCoordinated(ctx).authorized = FALSE
  BY DEF OutreachCoordinated, ScopedAnswer, Answer
<1>. QED
  BY <1>1, <1>2, <1>3, <1>4 DEF CoordinateOutreach

\* Every answer carries the configuration its request came with.
LEMMA ConfigurationKept ==
    ASSUME NEW ctx, NEW known
    PROVE  CoordinateOutreach(ctx, known).config = ctx.config
<1>1. OutreachBlocked(ctx).config = ctx.config
  BY DEF OutreachBlocked, BlockedAnswer, Answer
<1>2. OutreachMaintenance(ctx).config = ctx.config
  BY DEF OutreachMaintenance, MaintenanceAnswer, Answer
<1>3. OutreachReplay(ctx).config = ctx.config
  BY DEF OutreachReplay, ReplayAnswer, Answer
<1>4. OutreachCoordinated(ctx).config = ctx.config
  BY DEF OutreachCoordinated, ScopedAnswer, Answer
<1>. QED
  BY <1>1, <1>2, <1>3, <1>4 DEF CoordinateOutreach

\* What the worker makes of an answer without authority: RULE 0 blocks it or RULE 1
\* contains it, and an unresolved configuration does not pass RULE 0.
LEMMA UnauthorizedStays ==
    ASSUME NEW answer, answer.authorized = FALSE, NEW student, NEW attempt, NEW known
    PROVE  LET e == ExecuteWorker(answer, student, attempt, known)
           IN  /\ e.delegated = FALSE
               /\ e.blocked \in BOOLEAN
               /\ answer.config \in {None, UNKNOWN_V0} => e.blocked = TRUE
<1>. DEFINE job == JobContext(answer, student, attempt)
<1>1. Contained(answer)
  BY DEF Contained
<1>2. answer.config \in {None, UNKNOWN_V0} => ~WorkerGate(job)
  BY DEF WorkerGate, Gate, JobContext
<1>3. ExecuteWorker(answer, student, attempt, known) =
        IF ~WorkerGate(job) THEN Execution("blocked", None, None)
        ELSE Execution("suppressed", None, None)
  BY <1>1 DEF ExecuteWorker
<1>4. /\ Execution("blocked", None, None).delegated = FALSE
      /\ Execution("blocked", None, None).blocked = TRUE
      /\ Execution("suppressed", None, None).delegated = FALSE
      /\ Execution("suppressed", None, None).blocked = FALSE
  BY DEF Execution
<1>. QED
  BY <1>2, <1>3, <1>4

LEMMA BatchInit == Init => BatchContained
BY DEF Init, BatchContained, NoBatch

LEMMA RunBatchContained ==
    ASSUME NEW config, RunBatch(config)
    PROVE  BatchContained'
<1>. DEFINE done == Executions(config)
            S == DOMAIN Students
            delegated  == {s \in DOMAIN done : done[s].delegated}
            blocked    == {s \in DOMAIN done : ~done[s].delegated /\ done[s].blocked}
            suppressed == {s \in DOMAIN done : ~done[s].delegated /\ ~done[s].blocked}
<1>1. /\ last' = [config |-> config, total |-> Cardinality(S),
                  delegated |-> Cardinality(delegated), blocked |-> Cardinality(blocked),
                  suppressed |-> Cardinality(suppressed)]
  BY DEF RunBatch
<1>2. DOMAIN done = S /\ IsFiniteSet(S)
  BY OrchestrationAssumption DEF OrchestrationAssumption, Executions
<1>3. ASSUME NEW s \in S
      PROVE  /\ done[s].delegated = FALSE
             /\ done[s].blocked \in BOOLEAN
             /\ config \in {None, UNKNOWN_V0} => done[s].blocked = TRUE
  <2>. DEFINE answer == CoordinateOutreach(BatchContext(config, s), seen["outreach"])
  <2>1. answer.authorized = FALSE
    BY NeverAuthorized
  <2>2. answer.config = config
    BY ConfigurationKept DEF BatchContext, OutreachRequest
  <2>3. done[s] = ExecuteWorker(answer, s, Students[s] + 1, {})
    BY DEF Executions
  <2>. HIDE DEF answer, done
  <2>. QED
    BY <2>1, <2>2, <2>3, UnauthorizedStays
<1>4. delegated = {} /\ blocked \cap suppressed = {} /\ blocked \cup suppressed = S
  BY <1>2, <1>3
<1>5. config \in {None, UNKNOWN_V0} => blocked = S
  BY <1>2, <1>3
<1>6. Cardinality(delegated) = 0
  BY <1>4, FS_EmptySet
<1>7. Cardinality(blocked) + Cardinality(suppressed) = Cardinality(S)
  <2>1. IsFiniteSet(blocked) /\ IsFiniteSet(suppressed)
    BY <1>2, <1>4, FS_Subset
  <2>. HIDE DEF blocked, suppressed
  <2>2. Cardinality(blocked \cup suppressed)
          = Cardinality(blocked) + Cardinality(suppressed) - Cardinality(blocked \cap suppressed)
    BY <2>1, FS_Union
  <2>3. Cardinality(blocked \cap suppressed) = 0
    BY <1>4, FS_EmptySet
  <2>4. Cardinality(blocked) \in Nat /\ Cardinality(suppressed) \in Nat
    BY <2>1, FS_CardinalityType
  <2>. QED
    BY <1>4, <2>2, <2>3, <2>4
<1>. HIDE DEF delegated, blocked, suppressed
<1>. QED
  BY <1>1, <1>5, <1>6, <1>7 DEF BatchContained

LEMMA BatchStep == BatchContained /\ [Next]_vars => BatchContained'
<1>. SUFFICES ASSUME BatchContained, [Next]_vars PROVE BatchContained'
  OBVIOUS
<1>1. CASE UNCHANGED last
  BY <1>1 DEF BatchContained
<1>2. ASSUME NEW c \in Batches, RunBatch(c) PROVE BatchContained'
  BY <1>2, RunBatchContained
<1>3. CASE Startup \/ Stop \/ ActivateVersion \/ Tick \/ \E j \in Jobs : Missed(j)
  BY <1>1, <1>3 DEF Startup, Stop, ActivateVersion, Tick, Missed
<1>4. CASE RunCycle \/ RunSync \/ RunReport \/ RunCapture
  BY <1>1, <1>4 DEF RunCycle, RunSync, RunReport, RunCapture
<1>5. CASE \E r \in Requests : Coordinate(r)
  BY <1>1, <1>5 DEF Coordinate
<1>6. CASE UNCHANGED vars
  BY <1>1, <1>6 DEF vars
<1>. QED
  BY <1>2, <1>3, <1>4, <1>5, <1>6 DEF Next

\* run_outreach_batch delegates nobody and accounts for everybody, however large the
\* checkpoint, and blocks everybody while the configuration is unresolved.
THEOREM BatchesContained == Spec => []BatchContained
BY BatchInit, BatchStep, PTL DEF Spec

-----------------------------------------------------------------------------
(* The process and its clock *)

\* What is due became due at its hour, which has come, and only for a process that is up.
Punctual ==
    \A j \in Jobs : due[j] # 0 => runtime.up /\ Fires(j, due[j]) /\ due[j] <= now

ClockInv == TypeOK /\ Punctual

\* Whatever the registry says, start-up ends with a mode and a configuration that is
\* either a version's id or the text for an unresolved one.
LEMMA RuntimeRead ==
    ASSUME active \in 0 .. MaxVersion, NEW rows \in LoadActive
    PROVE  RuntimeContext(rows) \in
             [up : {TRUE}, mode : Modes,
              config : {ToString(v) : v \in 1 .. MaxVersion} \cup {UNKNOWN_V0}]
<1>1. ClassifyExecutionMode(EXECUTION_MODE) \in Modes
  BY OrchestrationAssumption DEF OrchestrationAssumption, ClassifyExecutionMode
<1>2. ValidateConfig(rows) \in {ToString(v) : v \in 1 .. MaxVersion} \cup {UNKNOWN_V0}
  <2>1. CASE rows = {}
    BY <2>1, FS_EmptySet DEF ValidateConfig
  <2>2. CASE rows = {active} /\ active # 0
    <3>1. active \in 1 .. MaxVersion /\ (CHOOSE v \in rows : TRUE) = active
      BY <2>2, OrchestrationAssumption DEF OrchestrationAssumption
    <3>. QED
      BY <3>1 DEF ValidateConfig
  <2>. QED
    BY <2>1, <2>2 DEF LoadActive
<1>. QED
  BY <1>1, <1>2 DEF RuntimeContext

\* Between a start and the next, a process that is up has a mode and some text for its
\* configuration, so RULE 0 of the scheduler lets its cycle through.
LEMMA GateOpen ==
    ASSUME TypeOK, runtime.up
    PROVE  SchedulerGate(runtime.mode, runtime.config)
<1>1. runtime \in [up : {TRUE}, mode : Modes,
                   config : {ToString(v) : v \in 1 .. MaxVersion} \cup {UNKNOWN_V0}]
  <2>1. runtime # Down
    BY DEF Down
  <2>. QED
    BY <2>1 DEF TypeOK
<1>2. runtime.config # None
  BY <1>1, OrchestrationAssumption DEF OrchestrationAssumption, None, UNKNOWN_V0
<1>. QED
  BY <1>1, <1>2 DEF SchedulerGate

LEMMA ClockInit == Init => ClockInv
<1>. SUFFICES ASSUME Init PROVE ClockInv
  OBVIOUS
<1>1. active \in 0 .. MaxVersion
  BY OrchestrationAssumption DEF OrchestrationAssumption, Init
<1>2. ~runtime.up /\ runtime = Down
  BY DEF Init, Down
<1>3. due = Idle /\ Idle \in [Jobs -> Instants \cup {0}] /\ \A j \in Jobs : due[j] = 0
  BY DEF Init, Idle
<1>4. seen \in [Services -> SUBSET Keys] /\ windows = {} /\ \A s \in Services : seen[s] = {}
  BY DEF Init
<1>5. now \in Instants
  BY OrchestrationAssumption DEF OrchestrationAssumption, Init
<1>. QED
  BY <1>1, <1>2, <1>3, <1>4, <1>5 DEF ClockInv, TypeOK, Punctual

\* The clock moves on, and the jobs whose hour it is become due.
LEMMA TickOnTime ==
    ASSUME ClockInv, Tick
    PROVE  /\ ClockInv'
           /\ now < now'
           /\ \A j \in Jobs : due'[j] \in {due[j], now'}
<1>1. PICK t \in Instants : Follows(t, now) /\ now' = t
  BY DEF Tick
<1>2. now \in Nat /\ now' \in Nat /\ now < now'
  BY <1>1, OrchestrationAssumption DEF OrchestrationAssumption, Follows, ClockInv, TypeOK
<1>3. due' = [j \in Jobs |-> IF runtime.up /\ Fires(j, now') THEN now' ELSE due[j]]
  BY DEF Tick
<1>4. UNCHANGED <<active, runtime, seen, windows>>
  BY DEF Tick, memory
<1>5. due' \in [Jobs -> Instants \cup {0}]
  BY <1>1, <1>3 DEF ClockInv, TypeOK
<1>6. ~runtime.up => due' = Idle
  BY <1>3 DEF ClockInv, TypeOK, Idle
<1>7. TypeOK'
  BY <1>1, <1>4, <1>5, <1>6 DEF ClockInv, TypeOK
<1>8. ASSUME NEW j \in Jobs, due'[j] # 0
      PROVE  runtime'.up /\ Fires(j, due'[j]) /\ due'[j] <= now'
  <2>1. CASE runtime.up /\ Fires(j, now')
    BY <1>2, <1>3, <1>4, <2>1
  <2>2. CASE ~(runtime.up /\ Fires(j, now'))
    <3>1. due'[j] = due[j]
      BY <1>3, <2>2
    <3>2. due[j] \in Nat
      BY OrchestrationAssumption DEF OrchestrationAssumption, ClockInv, TypeOK
    <3>. QED
      BY <1>2, <1>4, <1>8, <3>1, <3>2 DEF ClockInv, Punctual
  <2>. QED
    BY <2>1, <2>2
<1>. QED
  BY <1>2, <1>3, <1>7, <1>8 DEF ClockInv, Punctual

LEMMA StartOnTime ==
    ASSUME ClockInv, Startup
    PROVE  ClockInv'
<1>1. PICK rows \in LoadActive : runtime' = RuntimeContext(rows)
  BY DEF Startup
<1>2. active \in 0 .. MaxVersion
  BY DEF ClockInv, TypeOK
<1>3. runtime' \in [up : {TRUE}, mode : Modes,
                    config : {ToString(v) : v \in 1 .. MaxVersion} \cup {UNKNOWN_V0}]
  BY <1>1, <1>2, RuntimeRead
<1>4. due' = Idle /\ Idle \in [Jobs -> Instants \cup {0}] /\ \A j \in Jobs : Idle[j] = 0
  BY DEF Startup, Idle
<1>5. UNCHANGED <<active, now, seen, windows>> /\ runtime'.up
  BY <1>3 DEF Startup, memory
<1>. QED
  BY <1>3, <1>4, <1>5 DEF ClockInv, TypeOK, Punctual

LEMMA StopOnTime ==
    ASSUME ClockInv, Stop
    PROVE  ClockInv'
<1>1. due' = Idle /\ Idle \in [Jobs -> Instants \cup {0}] /\ \A j \in Jobs : Idle[j] = 0
  BY DEF Stop, Idle
<1>2. seen' \in [Services -> SUBSET Keys] /\ windows' = {} /\ \A s \in Services : seen'[s] = {}
  BY DEF Stop
<1>3. runtime' = Down /\ UNCHANGED <<active, now>>
  BY DEF Stop
<1>. QED
  BY <1>1, <1>2, <1>3 DEF ClockInv, TypeOK, Punctual

\* A job that ran or was dropped is no longer due.
LEMMA DoneOnTime ==
    ASSUME ClockInv, NEW j \in Jobs, due[j] # 0, Done(j),
           UNCHANGED <<active, runtime, now, seen>>,
           windows' = windows \/ runtime.up
    PROVE  ClockInv'
<1>1. due' \in [Jobs -> Instants \cup {0}] /\ \A i \in Jobs : due'[i] \in {due[i], 0}
  BY DEF Done, ClockInv, TypeOK
<1>2. runtime.up
  BY DEF ClockInv, Punctual
<1>3. TypeOK'
  BY <1>1, <1>2 DEF ClockInv, TypeOK
<1>. QED
  BY <1>1, <1>3 DEF ClockInv, Punctual

LEMMA CoordinateOnTime ==
    ASSUME ClockInv, NEW r \in Requests, Coordinate(r)
    PROVE  ClockInv'
<1>1. Registers(r.ctx) \subseteq Keys
  BY DEF Registers, Keys
<1>2. seen' \in [Services -> SUBSET Keys]
  BY <1>1 DEF Coordinate, TakeKey, ClockInv, TypeOK
<1>3. runtime.up /\ UNCHANGED <<active, runtime, now, due, windows>>
  BY DEF Coordinate
<1>. QED
  BY <1>2, <1>3 DEF ClockInv, TypeOK, Punctual

LEMMA ClockStep == ClockInv /\ [Next]_vars => ClockInv'
<1>. SUFFICES ASSUME ClockInv, [Next]_vars PROVE ClockInv'
  OBVIOUS
<1>1. CASE UNCHANGED <<active, runtime, now, due, windows, seen>>
  BY <1>1 DEF ClockInv, TypeOK, Punctual
<1>2. CASE Startup
  BY <1>2, StartOnTime
<1>3. CASE Stop
  BY <1>3, StopOnTime
<1>4. CASE ActivateVersion
  <2>1. active' \in 0 .. MaxVersion
    BY <1>4, OrchestrationAssumption DEF OrchestrationAssumption, ActivateVersion, ClockInv, TypeOK
  <2>2. UNCHANGED <<runtime, now, due, windows, seen>>
    BY <1>4 DEF ActivateVersion, memory
  <2>. QED
    BY <2>1, <2>2 DEF ClockInv, TypeOK, Punctual
<1>5. CASE Tick
  BY <1>5, TickOnTime
<1>6. ASSUME NEW j \in Jobs, Missed(j) PROVE ClockInv'
  BY <1>6, DoneOnTime DEF Missed, memory
<1>7. CASE RunCycle \/ RunSync \/ RunReport \/ RunCapture
  <2>1. PICK j \in Jobs : CanRun(j) /\ Done(j)
    BY <1>7 DEF RunCycle, RunSync, RunReport, RunCapture, Jobs
  <2>2. UNCHANGED <<active, runtime, now, seen>>
    BY <1>7 DEF RunCycle, RunSync, RunReport, RunCapture, memory
  <2>. QED
    BY <2>1, <2>2, DoneOnTime DEF CanRun
<1>8. ASSUME NEW r \in Requests, Coordinate(r) PROVE ClockInv'
  BY <1>8, CoordinateOnTime
<1>9. CASE \E c \in Batches : RunBatch(c)
  BY <1>1, <1>9 DEF RunBatch, memory
<1>10. CASE UNCHANGED vars
  BY <1>1, <1>10 DEF vars
<1>. QED
  BY <1>2, <1>3, <1>4, <1>5, <1>6, <1>7, <1>8, <1>9, <1>10 DEF Next

\* The process keeps what it has in memory by type, and nothing of it while it is down.
THEOREM ProcessTypes == Spec => []TypeOK
<1>1. ClockInv => TypeOK
  BY DEF ClockInv
<1>. QED
  BY <1>1, ClockInit, ClockStep, PTL DEF Spec

-----------------------------------------------------------------------------
(* The monthly jobs *)

MonthInv == ClockInv /\ RunForTheirMonth

\* Python's (12 if month == 1 else month - 1) undoes the turn of the calendar.
LEMMA TurnOfMonth ==
    ASSUME NEW m \in Nat \X (1 .. 12)
    PROVE  MonthBefore(NextMonth(m)) = m
<1>1. m[1] \in Nat /\ m[2] \in 1 .. 12 /\ m = <<m[1], m[2]>>
  OBVIOUS
<1>2. CASE m[2] = 12
  BY <1>1, <1>2 DEF NextMonth, MonthBefore
<1>3. CASE m[2] # 12
  BY <1>1, <1>3 DEF NextMonth, MonthBefore
<1>. QED
  BY <1>2, <1>3

\* Where a month begins, MonthBefore finds the month of the day before.
LEMMA MonthThatEnded ==
    ASSUME NEW t \in Instants, MonthBegins(Day(t))
    PROVE  MonthBefore(Month[Day(t)]) = Month[Day(t) - 1]
<1>1. /\ Month[Day(t) - 1] \in Nat \X (1 .. 12)
      /\ Month[Day(t)] \in {Month[Day(t) - 1], NextMonth(Month[Day(t) - 1])}
  BY OrchestrationAssumption DEF OrchestrationAssumption
<1>. QED
  BY <1>1, TurnOfMonth DEF MonthBegins

\* The grace time of a report ends on the day it is due.
LEMMA ReportSameDay ==
    ASSUME NEW t \in Nat, CronReport(t), NEW u \in Nat, t <= u, u - t <= Grace["report"]
    PROVE  Day(u) = Day(t)
<1>. DEFINE d == t \div 48
<1>1. t % 48 = 4 /\ u - t <= 4
  BY DEF CronReport, Grace
<1>2. d \in Nat /\ t = 48 * d + 4
  BY <1>1
<1>3. u \in 48 * d + 4 .. 48 * d + 8
  BY <1>1, <1>2
<1>4. u \div 48 = d
  BY <1>2, <1>3
<1>. QED
  BY <1>4 DEF Day

LEMMA RunReportForMonth ==
    ASSUME MonthInv, RunReport
    PROVE  RunForTheirMonth'
<1>. DEFINE d == due["report"]
<1>1. CanRun("report") /\ "report" \in Jobs
  BY DEF RunReport, Jobs
<1>2. d \in Instants /\ d \in Nat /\ now \in Nat
  BY <1>1, OrchestrationAssumption
     DEF OrchestrationAssumption, CanRun, MonthInv, ClockInv, TypeOK
<1>3. CronReport(d) /\ d <= now /\ now - d <= Grace["report"]
  BY <1>1 DEF CanRun, MonthInv, ClockInv, Punctual, Fires
<1>4. Day(now) = Day(d) /\ MonthBegins(Day(d))
  BY <1>2, <1>3, ReportSameDay DEF CronReport
<1>5. MonthBefore(ThisMonth) = Month[Day(d) - 1]
  BY <1>2, <1>4, MonthThatEnded DEF ThisMonth
<1>6. reports' = reports \cup {[due |-> d, month |-> Month[Day(d) - 1]]}
  BY <1>5 DEF RunReport
<1>7. captures' = captures
  BY DEF RunReport
<1>. QED
  BY <1>4, <1>6, <1>7 DEF MonthInv, RunForTheirMonth

LEMMA RunCaptureForMonth ==
    ASSUME MonthInv, RunCapture
    PROVE  RunForTheirMonth'
<1>1. captures' = captures \cup {[due |-> due["capture"], ran |-> now, month |-> Month[Day(now)]]}
  BY DEF RunCapture, ThisMonth
<1>2. MonthBegins(Day(due["capture"]) + 1)
  BY DEF RunCapture, CanRun, Jobs, MonthInv, ClockInv, Punctual, Fires, CronCapture
<1>3. reports' = reports
  BY DEF RunCapture
<1>. QED
  BY <1>1, <1>2, <1>3 DEF MonthInv, RunForTheirMonth

LEMMA MonthStep == MonthInv /\ [Next]_vars => MonthInv'
<1>. SUFFICES ASSUME MonthInv, [Next]_vars PROVE RunForTheirMonth'
  BY ClockStep DEF MonthInv
<1>1. CASE UNCHANGED <<reports, captures>>
  BY <1>1 DEF MonthInv, RunForTheirMonth
<1>2. CASE RunReport
  BY <1>2, RunReportForMonth
<1>3. CASE RunCapture
  BY <1>3, RunCaptureForMonth
<1>4. CASE Startup \/ Stop \/ ActivateVersion \/ Tick \/ \E j \in Jobs : Missed(j)
  BY <1>1, <1>4 DEF Startup, Stop, ActivateVersion, Tick, Missed, history
<1>5. CASE RunCycle \/ RunSync
  BY <1>1, <1>5 DEF RunCycle, RunSync, history
<1>6. CASE (\E r \in Requests : Coordinate(r)) \/ \E c \in Batches : RunBatch(c)
  BY <1>1, <1>6 DEF Coordinate, RunBatch, history
<1>7. CASE UNCHANGED vars
  BY <1>1, <1>7 DEF vars
<1>. QED
  BY <1>2, <1>3, <1>4, <1>5, <1>6, <1>7 DEF Next

\* A report is for the month before, and a capture before midnight for the month that ends,
\* in every year and for every calendar: both jobs take their month from the date they run
\* on, and a report's grace time ends on its day.
THEOREM MonthsAreTheirs == Spec => []RunForTheirMonth
<1>1. Init => MonthInv
  BY ClockInit DEF Init, MonthInv, RunForTheirMonth
<1>2. MonthInv => RunForTheirMonth
  BY DEF MonthInv
<1>. QED
  BY <1>1, <1>2, MonthStep, PTL DEF Spec

-----------------------------------------------------------------------------
(* The daily cycle *)

\* What is known of a trigger: its hour has come, and the cycle that is due now, if any, is
\* a later one; what this process has triggered is in its memory.
Dated(r) ==
    /\ r.due \in CycleAt /\ r.due <= now
    /\ due["cycle"] # 0 => r.due < due["cycle"]

Remembered(r) ==
    /\ r.process \in 0 .. restarts
    /\ r.triggered /\ r.process = restarts =>
         runtime.up /\ <<r.domain, r.date, runtime.mode>> \in windows

\* A window in memory was taken by a trigger of this process.
Taken(w) ==
    \E r \in cycles : /\ r.triggered /\ r.process = restarts
                      /\ r.domain = w[1] /\ r.date = w[2]

CycleInv ==
    /\ ClockInv
    /\ restarts \in Nat
    /\ \A r \in cycles : Dated(r) /\ Remembered(r)
    /\ \A w \in windows : Taken(w)
    /\ RefusedOnlyAsDuplicate /\ RepeatedOnlyAcrossRestarts

\* A later hour can only become due when no earlier one is recorded.
LEMMA DatesKept ==
    ASSUME CycleInv, ClockInv', now <= now',
           due'["cycle"] \in {due["cycle"], 0} \/ (now < now' /\ due'["cycle"] = now')
    PROVE  \A r \in cycles : Dated(r)'
<1>. SUFFICES ASSUME NEW r \in cycles PROVE Dated(r)'
  OBVIOUS
<1>1. now \in Nat /\ now' \in Nat
  BY OrchestrationAssumption DEF OrchestrationAssumption, CycleInv, ClockInv, TypeOK
<1>2. Dated(r) /\ r.due \in Nat
  BY OrchestrationAssumption DEF OrchestrationAssumption, CycleInv, Dated
<1>3. r.due <= now'
  BY <1>1, <1>2 DEF Dated
<1>4. due'["cycle"] # 0 => r.due < due'["cycle"]
  BY <1>1, <1>2 DEF Dated
<1>. QED
  BY <1>2, <1>3, <1>4 DEF Dated

\* Only the run of a cycle, a start and a stop touch the windows or the process.
LEMMA CyclesKept ==
    ASSUME CycleInv, ClockInv', UNCHANGED <<cycles, windows, runtime, restarts>>, now <= now',
           due'["cycle"] \in {due["cycle"], 0} \/ (now < now' /\ due'["cycle"] = now')
    PROVE  CycleInv'
<1>1. \A r \in cycles' : Dated(r)'
  BY DatesKept
<1>2. \A r \in cycles' : Remembered(r)'
  BY DEF CycleInv, Remembered
<1>3. \A w \in windows' : Taken(w)'
  BY DEF CycleInv, Taken
<1>. QED
  BY <1>1, <1>2, <1>3 DEF CycleInv, RefusedOnlyAsDuplicate, RepeatedOnlyAcrossRestarts

\* A process that starts has triggered nothing, and one that stops leaves its triggers
\* to an earlier process.
LEMMA RestartKeepsCycles ==
    ASSUME CycleInv, ClockInv', Startup \/ Stop
    PROVE  CycleInv'
<1>1. /\ UNCHANGED <<cycles, now>> /\ due'["cycle"] = 0
      /\ Startup => UNCHANGED <<windows, restarts>> /\ ~runtime.up
      /\ Stop => windows' = {} /\ restarts' = restarts + 1
  BY DEF Startup, Stop, Idle, Jobs, memory, history
<1>2. \A r \in cycles' : Dated(r)'
  <2>1. now \in Nat
    BY OrchestrationAssumption DEF OrchestrationAssumption, CycleInv, ClockInv, TypeOK
  <2>. QED
    BY <1>1, <2>1, DatesKept
<1>3. ASSUME NEW r \in cycles' PROVE Remembered(r)'
  <2>1. restarts \in Nat /\ Remembered(r)
    BY <1>1, <1>3 DEF CycleInv
  <2>2. CASE Startup
    BY <1>1, <2>1, <2>2 DEF Remembered
  <2>3. CASE Stop
    <3>1. r.process \in 0 .. restarts /\ restarts' = restarts + 1
      BY <1>1, <2>1, <2>3 DEF Remembered
    <3>2. r.process \in 0 .. restarts' /\ r.process # restarts'
      BY <2>1, <3>1
    <3>. QED
      BY <3>2 DEF Remembered
  <2>. QED
    BY <2>2, <2>3
<1>4. \A w \in windows' : Taken(w)'
  BY <1>1 DEF CycleInv, Taken
<1>5. RefusedOnlyAsDuplicate' /\ RepeatedOnlyAcrossRestarts'
  BY <1>1 DEF CycleInv, RefusedOnlyAsDuplicate, RepeatedOnlyAcrossRestarts
<1>. QED
  BY <1>1, <1>2, <1>3, <1>4, <1>5 DEF CycleInv

\* The heart of both properties: RULE 0 lets the cycle of a running process through, so it
\* is its windows that decide, and they are those this process has triggered.
LEMMA RunCycleTriggers ==
    ASSUME CycleInv, ClockInv', RunCycle
    PROVE  CycleInv'
<1>. DEFINE d == due["cycle"]
            open == SchedulerGate(runtime.mode, runtime.config)
            new == {Trigger(x, open) : x \in Domains}
<1>1. CanRun("cycle") /\ "cycle" \in Jobs /\ runtime.up
  BY DEF RunCycle, Jobs, CanRun
<1>2. d \in Nat /\ d # 0 /\ now \in Nat
  BY <1>1, OrchestrationAssumption DEF OrchestrationAssumption, CanRun, CycleInv, ClockInv, TypeOK
<1>3. d \in CycleAt /\ d <= now
  BY <1>1 DEF CanRun, CycleInv, ClockInv, Punctual, Fires, CronCycle
<1>4. open
  BY <1>1, GateOpen DEF CycleInv, ClockInv
<1>5. cycles' = cycles \cup new /\ windows' = windows \cup {Window(x) : x \in Domains}
  BY <1>4 DEF RunCycle
<1>6. due'["cycle"] = 0 /\ UNCHANGED <<now, runtime, restarts>>
  BY <1>1 DEF RunCycle, Done, CycleInv, ClockInv, TypeOK
<1>7. ASSUME NEW x \in Domains, NEW r, r = Trigger(x, open)
      PROVE  /\ r.due = d /\ r.date = Day(now) /\ r.domain = x /\ r.process = restarts
             /\ r.triggered \in BOOLEAN /\ (r.triggered <=> Window(x) \notin windows)
  BY <1>4, <1>7 DEF Trigger, NewWindow
<1>8. \A r \in cycles : r.due \in Nat /\ r.due < d
  BY <1>2, OrchestrationAssumption DEF OrchestrationAssumption, CycleInv, Dated
<1>9. \A x \in Domains : Window(x) = <<x, Day(now), runtime.mode>>
  BY DEF Window
<1>10. ASSUME NEW r \in cycles' PROVE Dated(r)'
  <2>1. CASE r \in cycles
    BY <1>6, <2>1 DEF CycleInv, Dated
  <2>2. CASE r \in new
    BY <1>3, <1>6, <1>7, <2>2 DEF Dated
  <2>. QED
    BY <1>5, <2>1, <2>2
<1>11. ASSUME NEW r \in cycles' PROVE Remembered(r)'
  <2>1. CASE r \in cycles
    BY <1>5, <1>6, <2>1 DEF CycleInv, Remembered
  <2>2. CASE r \in new
    <3>1. PICK x \in Domains : r = Trigger(x, open)
      BY <2>2
    <3>2. r.process = restarts /\ <<r.domain, r.date, runtime.mode>> \in windows'
      BY <1>5, <1>7, <1>9, <3>1
    <3>. QED
      BY <1>1, <1>6, <3>2 DEF CycleInv, Remembered
  <2>. QED
    BY <1>5, <2>1, <2>2
<1>12. ASSUME NEW w \in windows' PROVE Taken(w)'
  <2>1. CASE w \in windows
    BY <1>5, <1>6, <2>1 DEF CycleInv, Taken
  <2>2. ASSUME NEW x \in Domains, w = Window(x), w \notin windows PROVE Taken(w)'
    <3>1. Trigger(x, open) \in cycles' /\ w[1] = x /\ w[2] = Day(now)
      BY <1>5, <1>9, <2>2
    <3>. QED
      BY <1>6, <1>7, <2>2, <3>1 DEF Taken
  <2>. QED
    BY <1>5, <2>1, <2>2
<1>13. ASSUME NEW r \in cycles', ~r.triggered
       PROVE  \E q \in cycles' : /\ q.triggered /\ q.domain = r.domain /\ q.date = r.date
                                 /\ q.process = r.process /\ q.due < r.due
  <2>1. CASE r \in cycles
    BY <1>5, <1>13, <2>1 DEF CycleInv, RefusedOnlyAsDuplicate
  <2>2. ASSUME NEW x \in Domains, r = Trigger(x, open)
        PROVE  \E q \in cycles : /\ q.triggered /\ q.domain = r.domain /\ q.date = r.date
                                 /\ q.process = r.process /\ q.due < r.due
    <3>1. Taken(Window(x))
      BY <1>7, <1>13, <2>2 DEF CycleInv
    <3>. QED
      BY <1>7, <1>8, <1>9, <2>2, <3>1 DEF Taken
  <2>. QED
    BY <1>5, <2>1, <2>2
<1>14. ASSUME NEW r \in cycles, r.triggered, NEW x \in Domains, Trigger(x, open).triggered,
              r.domain = x, r.date = Day(now)
       PROVE  r.process # restarts /\ r.due # d
  <2>1. Window(x) \notin windows
    BY <1>7, <1>14
  <2>2. r.process # restarts
    BY <1>9, <1>14, <2>1 DEF CycleInv, Remembered
  <2>. QED
    BY <1>2, <1>8, <2>2
<1>15. ASSUME NEW r \in cycles', NEW q \in cycles', r.triggered, q.triggered,
              r.domain = q.domain, r.date = q.date, r # q
       PROVE  r.process # q.process /\ r.due # q.due
  <2>1. CASE r \in cycles /\ q \in cycles
    BY <1>15, <2>1 DEF CycleInv, RepeatedOnlyAcrossRestarts
  <2>2. CASE r \in cycles /\ q \in new
    BY <1>7, <1>14, <1>15, <2>2
  <2>3. CASE r \in new /\ q \in cycles
    BY <1>7, <1>14, <1>15, <2>3
  <2>4. CASE r \in new /\ q \in new
    BY <1>7, <1>15, <2>4
  <2>. QED
    BY <1>5, <2>1, <2>2, <2>3, <2>4
<1>16. RefusedOnlyAsDuplicate' /\ RepeatedOnlyAcrossRestarts'
  BY <1>13, <1>15 DEF RefusedOnlyAsDuplicate, RepeatedOnlyAcrossRestarts
<1>. QED
  BY <1>6, <1>10, <1>11, <1>12, <1>16 DEF CycleInv

LEMMA CycleStep == CycleInv /\ [Next]_vars => CycleInv'
<1>. SUFFICES ASSUME CycleInv, [Next]_vars PROVE CycleInv'
  OBVIOUS
<1>1. ClockInv'
  BY ClockStep DEF CycleInv
<1>2. now \in Nat /\ "cycle" \in Jobs /\ DOMAIN due = Jobs
  BY OrchestrationAssumption DEF OrchestrationAssumption, CycleInv, ClockInv, TypeOK, Jobs
<1>3. CASE RunCycle
  BY <1>1, <1>3, RunCycleTriggers
<1>4. CASE Tick
  <2>1. now < now' /\ due'["cycle"] \in {due["cycle"], now'}
    BY <1>2, <1>4, TickOnTime DEF CycleInv
  <2>2. now <= now'
    BY <1>2, <2>1, <1>1, OrchestrationAssumption DEF OrchestrationAssumption, ClockInv, TypeOK
  <2>3. UNCHANGED <<cycles, windows, runtime, restarts>>
    BY <1>4 DEF Tick, memory, history
  <2>. QED
    BY <1>1, <2>1, <2>2, <2>3, CyclesKept
<1>5. CASE /\ UNCHANGED <<cycles, now, windows, runtime, restarts>>
           /\ due'["cycle"] \in {due["cycle"], 0}
  BY <1>1, <1>2, <1>5, CyclesKept
<1>6. CASE Startup \/ Stop
  BY <1>1, <1>6, RestartKeepsCycles
<1>7. CASE ActivateVersion
  BY <1>5, <1>7 DEF ActivateVersion, memory, history
<1>8. ASSUME NEW j \in Jobs, Done(j), UNCHANGED <<cycles, now, windows, runtime, restarts>>
      PROVE  CycleInv'
  BY <1>2, <1>5, <1>8 DEF Done
<1>9. CASE \E j \in Jobs : Missed(j)
  BY <1>8, <1>9 DEF Missed, memory, history
<1>10. CASE RunSync \/ RunReport \/ RunCapture
  BY <1>8, <1>10 DEF RunSync, RunReport, RunCapture, memory, history, Jobs
<1>11. CASE (\E r \in Requests : Coordinate(r)) \/ \E c \in Batches : RunBatch(c)
  BY <1>5, <1>11 DEF Coordinate, RunBatch, memory, history
<1>12. CASE UNCHANGED vars
  BY <1>5, <1>12 DEF vars
<1>. QED
  BY <1>3, <1>4, <1>6, <1>7, <1>9, <1>10, <1>11, <1>12 DEF Next

LEMMA CycleInit == Init => CycleInv
BY ClockInit DEF Init, CycleInv, RefusedOnlyAsDuplicate, RepeatedOnlyAcrossRestarts

\* RULE 0 stops no scheduled cycle, and the windows only one whose UTC date an earlier hour
\* of the same process has used - as at the spring clock change -, for any calendar, any
\* lateness and any restarts (scheduler.py, _check_and_register_idempotency).
THEOREM RefusalsAreDuplicates == Spec => []RefusedOnlyAsDuplicate
<1>1. CycleInv => RefusedOnlyAsDuplicate
  BY DEF CycleInv
<1>. QED
  BY <1>1, CycleInit, CycleStep, PTL DEF Spec

\* AP-SCH4 as far as memory can keep it: a window that is triggered twice was triggered by two
\* processes and for two due hours, for any calendar (scheduler.py, _executed_windows).
THEOREM RepeatsCrossRestarts == Spec => []RepeatedOnlyAcrossRestarts
<1>1. CycleInv => RepeatedOnlyAcrossRestarts
  BY DEF CycleInv
<1>. QED
  BY <1>1, CycleInit, CycleStep, PTL DEF Spec
=============================================================================
