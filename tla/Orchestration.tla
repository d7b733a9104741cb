---------------------------- MODULE Orchestration ---------------------------
(***************************************************************************)
(* One server process after another over a few days: what it reads when it *)
(* starts (app/main.py, bootstrap/), the jobs APScheduler runs for it      *)
(* (services/scheduler.py, _scheduler_helpers.py) and the requests it      *)
(* coordinates, with everything it keeps in memory only: the windows that  *)
(* have fired, the idempotency keys, and the configuration it read.        *)
(*                                                                         *)
(* Time is counted in half hours of UTC from some midnight, and passes from*)
(* one element of Instants to the next, to the end of the period of days it*)
(* began in.  A job that is due runs late when the event loop is busy,     *)
(* within its grace time.                                                  *)
(***************************************************************************)
EXTENDS Coordination, TLC

CONSTANTS
    Instants,       \* the half hours at which something can happen
    Openings,       \* those with which a period of days begins
    CycleAt,        \* those at which it is the trigger hour in Chicago
    Month,          \* the month of each day and of its neighbours: <<year, month>>
    EXECUTION_MODE, \* the setting
    Requests,       \* what callers ask for: contexts, each with its service
    Batches,        \* the configurations a batch is run with
    Students,       \* the students of its checkpoint
    MaxVersion,     \* bound: versions of the configuration
    MaxRestarts,    \* bound: how often the process ends
    MaxRequests     \* bound: requests and batches

Day(t) == t \div 48
Follows(u, t) == u > t /\ u \notin Openings /\ \A x \in Instants : x > t => u <= x

NextMonth(m) == IF m[2] = 12 THEN <<m[1] + 1, 1>> ELSE <<m[1], m[2] + 1>>
MonthBegins(day) == Month[day] # Month[day - 1]

Services == {"sync", "outreach"}
Keys == {r.ctx.key : r \in Requests} \ {None}

ASSUME OrchestrationAssumption ==
    /\ Instants \subseteq Nat \ (0 .. 47) /\ CycleAt \subseteq Instants
    /\ Openings # {} /\ Openings \subseteq Instants
    /\ \A t \in Instants : \A day \in {Day(t), Day(t) + 1} :
         /\ Month[day - 1] \in Nat \X (1 .. 12)
         /\ Month[day] \in {Month[day - 1], NextMonth(Month[day - 1])}
    /\ EXECUTION_MODE \in Modes
    /\ \A r \in Requests : r.service \in Services
    /\ IsFiniteSet(DOMAIN Students)
    /\ \A v \in 1 .. MaxVersion : ToString(v) \notin {None, UNKNOWN_V0}
    /\ MaxVersion \in Nat /\ MaxRestarts \in Nat /\ MaxRequests \in Nat

VARIABLES
    active,     \* the ACTIVE version of config_version_registry, 0 when there is none
    runtime,    \* Down, or what the process read when it started
    now,
    due,        \* when each job last became due, 0 when it has run
    windows,    \* scheduler._executed_windows
    seen,       \* the idempotency keys of sync.py and outreach.py
    cycles,     \* history: the daily triggers
    reports,    \* history: the monthly reports
    captures,   \* history: the captures
    evaluated,  \* history: evaluations of original requests by this process
    last,       \* the last batch's summary
    restarts, requests

memory == <<windows, seen, evaluated>>
history == <<cycles, reports, captures>>
vars == <<active, runtime, now, due, windows, seen, cycles, reports, captures, evaluated,
          last, restarts, requests>>

Jobs == {"cycle", "sync", "report", "capture"}
Down == [up |-> FALSE, mode |-> None, config |-> None]
Idle == [j \in Jobs |-> 0]
NoBatch == [config |-> None, total |-> 0, delegated |-> 0, blocked |-> 0, suppressed |-> 0]

Init ==
    /\ active = 0
    /\ runtime = Down
    /\ now \in Openings
    /\ due = Idle
    /\ windows = {} /\ seen = [s \in Services |-> {}]
    /\ evaluated = [s \in Services |-> [k \in Keys |-> 0]]
    /\ cycles = {} /\ reports = {} /\ captures = {}
    /\ last = NoBatch
    /\ restarts = 0 /\ requests = 0

-----------------------------------------------------------------------------
(* Start-up *)

\* An invalid mode would become SHADOW; the setting admits only these two.
ClassifyExecutionMode(mode) == IF mode \in Modes THEN mode ELSE "SHADOW"

\* Exactly one ACTIVE row, or the configuration stays unresolved.
ValidateConfig(rows) ==
    IF Cardinality(rows) = 1 THEN ToString(CHOOSE v \in rows : TRUE) ELSE UNKNOWN_V0

\* A registry that cannot be read has no rows.
LoadActive == {{v \in {active} : v # 0}, {}}

RuntimeContext(rows) ==
    [up |-> TRUE, mode |-> ClassifyExecutionMode(EXECUTION_MODE), config |-> ValidateConfig(rows)]

\* Faulty variant: the daily cycle fires at once.
StartupFires ==
    /\ ~runtime.up
    /\ \E rows \in LoadActive : runtime' = RuntimeContext(rows)
    /\ due' = [Idle EXCEPT !["cycle"] = now]
    /\ UNCHANGED <<active, now, memory, history, last, restarts, requests>>

Startup ==
    /\ ~runtime.up
    /\ \E rows \in LoadActive : runtime' = RuntimeContext(rows)
    /\ due' = Idle
    /\ UNCHANGED <<active, now, memory, history, last, restarts, requests>>

\* Faulty variant: the windows outlive the process.
StopKeepsWindows ==
    /\ runtime.up /\ restarts < MaxRestarts
    /\ runtime' = Down
    /\ due' = Idle
    /\ seen' = [s \in Services |-> {}]
    /\ evaluated' = [s \in Services |-> [k \in Keys |-> 0]]
    /\ restarts' = restarts + 1
    /\ UNCHANGED <<active, now, windows, history, last, requests>>

\* What is in memory is lost, and so are the jobs that were due.
Stop ==
    /\ runtime.up /\ restarts < MaxRestarts
    /\ runtime' = Down
    /\ due' = Idle
    /\ windows' = {} /\ seen' = [s \in Services |-> {}]
    /\ evaluated' = [s \in Services |-> [k \in Keys |-> 0]]
    /\ restarts' = restarts + 1
    /\ UNCHANGED <<active, now, history, last, requests>>

\* An operator supersedes the ACTIVE row: one row is ACTIVE at a time.
ActivateVersion ==
    /\ active < MaxVersion
    /\ active' = active + 1
    /\ UNCHANGED <<runtime, now, due, memory, history, last, restarts, requests>>

-----------------------------------------------------------------------------
(* Time *)

CronCycle(t)   == t \in CycleAt
CronSync(t)    == t % 48 = 2
CronReport(t)  == t % 48 = 4 /\ MonthBegins(Day(t))
CronCapture(t) == t % 48 = 47 /\ MonthBegins(Day(t) + 1)

Fires(j, t) ==
    \/ j = "cycle" /\ CronCycle(t)
    \/ j = "sync" /\ CronSync(t)
    \/ j = "report" /\ CronReport(t)
    \/ j = "capture" /\ CronCapture(t)

\* misfire_grace_time
Grace == [cycle |-> 2, sync |-> 2, report |-> 4, capture |-> 2]

Tick ==
    /\ \E t \in Instants : Follows(t, now) /\ now' = t
    /\ due' = [j \in Jobs |-> IF runtime.up /\ Fires(j, now') THEN now' ELSE due[j]]
    /\ UNCHANGED <<active, runtime, memory, history, last, restarts, requests>>

CanRun(j) == runtime.up /\ due[j] # 0 /\ now - due[j] <= Grace[j]
Done(j) == due' = [due EXCEPT ![j] = 0]

\* A run past its grace time is dropped.
Missed(j) ==
    /\ due[j] # 0 /\ now - due[j] > Grace[j]
    /\ Done(j)
    /\ UNCHANGED <<active, runtime, now, memory, history, last, restarts, requests>>

-----------------------------------------------------------------------------
(* The jobs *)

SchedulerGate(mode, config) == mode \in Modes /\ config # None

Domains == {"orchestration_evaluation", "provider_synchronization"}

\* Faulty variant: one window for all days.
WindowUndated(domain) == <<domain, 0, runtime.mode>>
Window(domain) == <<domain, Day(now), runtime.mode>>

NewWindow(domain) == Window(domain) \notin windows

\* The evaluation and the provider synchronization each check and take their window.
Trigger(domain, open) ==
    [due |-> due["cycle"], date |-> Day(now), domain |-> domain, process |-> restarts,
     triggered |-> open /\ NewWindow(domain)]

RunCycle ==
    /\ CanRun("cycle") /\ Done("cycle")
    /\ LET open == SchedulerGate(runtime.mode, runtime.config)
       IN  /\ windows' = windows \cup IF open THEN {Window(d) : d \in Domains} ELSE {}
           /\ cycles' = cycles \cup {Trigger(d, open) : d \in Domains}
    /\ UNCHANGED <<active, runtime, now, seen, evaluated, reports, captures, last,
                   restarts, requests>>

ThisMonth == Month[Day(now)]

\* Faulty variant: no year has a twelfth month.
MonthBeforeUnwrapped(m) == <<m[1], m[2] - 1>>
MonthBefore(m) == IF m[2] = 1 THEN <<m[1] - 1, 12>> ELSE <<m[1], m[2] - 1>>

\* The mirror sync is in MirrorSync, the reports and the capture in Warehouse: here
\* they are the months they are run for.
RunSync ==
    /\ CanRun("sync") /\ Done("sync")
    /\ UNCHANGED <<active, runtime, now, memory, history, last, restarts, requests>>

RunReport ==
    /\ CanRun("report") /\ Done("report")
    /\ reports' = reports \cup {[due |-> due["report"], month |-> MonthBefore(ThisMonth)]}
    /\ UNCHANGED <<active, runtime, now, memory, cycles, captures, last, restarts, requests>>

RunCapture ==
    /\ CanRun("capture") /\ Done("capture")
    /\ captures' = captures \cup {[due |-> due["capture"], ran |-> now, month |-> ThisMonth]}
    /\ UNCHANGED <<active, runtime, now, memory, cycles, reports, last, restarts, requests>>

-----------------------------------------------------------------------------
(* Requests *)

Passes(s, ctx) == IF s = "sync" THEN SyncGate(ctx, seen[s]) ELSE OutreachGate(ctx, seen[s])
AnswerOf(s, ctx) ==
    IF s = "sync" THEN CoordinateSync(ctx, seen[s]) ELSE CoordinateOutreach(ctx, seen[s])

\* Faulty variant: the key is taken only when the request was allowed to go on.
TakeKeyWhenContinuing(s, ctx) ==
    seen' = [seen EXCEPT ![s] = @ \cup
               IF Passes(s, ctx) /\ AnswerOf(s, ctx).continues THEN Registers(ctx) ELSE {}]

TakeKey(s, ctx) ==
    seen' = [seen EXCEPT ![s] = @ \cup IF Passes(s, ctx) THEN Registers(ctx) ELSE {}]

Coordinate(r) ==
    LET answer == AnswerOf(r.service, r.ctx)
    IN  /\ runtime.up /\ requests < MaxRequests
        /\ TakeKey(r.service, r.ctx)
        /\ evaluated' = IF r.ctx.type = "original" /\ r.ctx.key # None /\ answer.intent # None
                        THEN [evaluated EXCEPT ![r.service][r.ctx.key] = @ + 1]
                        ELSE evaluated
        /\ requests' = requests + 1
        /\ UNCHANGED <<active, runtime, now, due, windows, history, last, restarts>>

\* What a batch asks of outreach.py about a student: no key, no state, no rules.
BatchContext(config, student) ==
    [OutreachRequest(runtime.mode, "original", config) EXCEPT !.attempts = Students[student]]

Executions(config) ==
    [s \in DOMAIN Students |->
       ExecuteWorker(CoordinateOutreach(BatchContext(config, s), seen["outreach"]), s,
                     Students[s] + 1, {})]

RunBatch(config) ==
    LET done == Executions(config)
    IN  /\ runtime.up /\ requests < MaxRequests
        /\ last' = [config |-> config, total |-> Cardinality(DOMAIN Students),
                    delegated  |-> Cardinality({s \in DOMAIN done : done[s].delegated}),
                    blocked    |-> Cardinality({s \in DOMAIN done :
                                                  ~done[s].delegated /\ done[s].blocked}),
                    suppressed |-> Cardinality({s \in DOMAIN done :
                                                  ~done[s].delegated /\ ~done[s].blocked})]
        /\ requests' = requests + 1
        /\ UNCHANGED <<active, runtime, now, due, memory, history, restarts>>

-----------------------------------------------------------------------------

Next ==
    \/ Startup \/ Stop \/ ActivateVersion \/ Tick
    \/ \E j \in Jobs : Missed(j)
    \/ RunCycle \/ RunSync \/ RunReport \/ RunCapture
    \/ \E r \in Requests : Coordinate(r)
    \/ \E c \in Batches : RunBatch(c)

Spec == Init /\ [][Next]_vars

-----------------------------------------------------------------------------
(* Properties *)

\* The types, and what a process that is down keeps: nothing.
TypeOK ==
    /\ active \in 0 .. MaxVersion
    /\ runtime \in [up : {TRUE}, mode : Modes, config : {ToString(v) : v \in 1 .. MaxVersion} \cup {UNKNOWN_V0}]
                   \cup {Down}
    /\ now \in Instants
    /\ due \in [Jobs -> Instants \cup {0}]
    /\ seen \in [Services -> SUBSET Keys]
    /\ ~runtime.up => due = Idle /\ windows = {} /\ \A s \in Services : seen[s] = {}

\* A cycle is refused only as a duplicate: an earlier hour's cycle of this process ran on
\* the same UTC date and triggered (scheduler.py lines 97-102 and 200).  Neither a restart
\* nor an unresolved configuration nor a window of another date stops one.
RefusedOnlyAsDuplicate ==
    \A r \in cycles : ~r.triggered =>
      \E q \in cycles : /\ q.triggered /\ q.domain = r.domain /\ q.date = r.date
                       /\ q.process = r.process /\ q.due < r.due

\* What is left of AP-SCH4 (runtime/scheduler_design.md: no duplicate triggers of a window)
\* when the windows are only in memory: one is triggered again only by another process,
\* and for another due hour of the date.  The hour that was due is lost with the process.
RepeatedOnlyAcrossRestarts ==
    \A r, q \in cycles :
      r.triggered /\ q.triggered /\ r.domain = q.domain /\ r.date = q.date /\ r # q
        => r.process # q.process /\ r.due # q.due

\* "Daily execution (6:00 PM CST)" (spec/02_system_specifications.md line 40): a scheduled
\* cycle that runs triggers both domains.
DailyExecution == \A r \in cycles : r.triggered

\* A report is run for the month that ended the day before it became due, and a capture that
\* runs before midnight for the month that ends, at the turn of a year as well
\* (scheduler.py, _monthly_report_job and _month_end_capture_job).
RunForTheirMonth ==
    /\ \A r \in reports : r.month = Month[Day(r.due) - 1] /\ MonthBegins(Day(r.due))
    /\ \A c \in captures : Day(c.ran) = Day(c.due) =>
         c.month = Month[Day(c.due)] /\ MonthBegins(Day(c.due) + 1)

\* A process evaluates an original request at most once for each key, whatever
\* maintenance, holds, replays and recoveries come between (AP-RT10).
KeyEvaluatedOnce == \A s \in Services, k \in Keys : evaluated[s][k] <= 1

\* A batch accounts for every student and delegates none; without a resolved
\* configuration the worker blocks every one of them, though outreach.py lets the text
\* UNKNOWN_V0 pass (worker.py RULE 0, outreach.py RULE 0).
BatchContained ==
    /\ last.delegated = 0
    /\ last.blocked + last.suppressed = last.total
    /\ last.config \in {None, UNKNOWN_V0} => last.blocked = last.total
=============================================================================
