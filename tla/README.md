# TLA+ project of the Student Success Intelligence Platform

The platform is a FastAPI service over PostgreSQL. It mirrors students and payments
from SQL Server, keeps an outreach case per student, answers the CRM (GHL) and its
operators, freezes a monthly snapshot of every student, publishes monthly reports, and
assesses each student with a family of rule engines. This directory models two kinds of
thing: what depends on the order of events (requests that overlap, transactions that fail
half-way, jobs that stop or come late, calls that are repeated) and what depends on several
parts judging one student alike. All paths below are relative to the repository.

## 1. Inventory

| part | source | state it keeps | operations | modelled in |
|---|---|---|---|---|
| GHL webhook | `app/routers/webhook.py`, `app/state_machine.py` | `student_outreach_tracking.state`, `processed_events`, `outreach_history`, `state_transition_log` | `POST /webhook/ghl-update` | `OutreachLifecycle` |
| manual actions | `app/services/outreach.py` (`execute_manual_action`), `app/routers/actions.py` | the same case and audit log | `POST /actions/manual` | `OutreachLifecycle` |
| governance persistence | `app/repositories/` | none of its own (the in-memory key sets have no key from these callers) | RULE 0, then insert: transition, history, event | `PersistenceGate` |
| mirror, payment, IPBC, campaign syncs | `app/services/sync.py`, `payment_sync.py` | mirror tables, `student_campaign_activity` | fetch and upsert; delete and insert | `MirrorSync` |
| GHL message sync | `app/services/ghl_sync.py` | `ghl_messages` | check and insert | `MirrorSync` |
| month-end capture | `app/services/sync.py` (`capture_month_state`) | `student_mirror_history` | capture | `Warehouse`, `Orchestration` |
| snapshots | `app/services/snapshot.py` | `warehouse.student_snapshots` and companions | assemble one, assemble all | `Warehouse` |
| reports | `app/services/report.py`, `app/routers/reports.py` | `warehouse.monthly_reports` | publish one, a cohort, all; backfill narratives | `Warehouse` |
| monthly job, pipeline | `app/services/_scheduled_jobs.py`, `app/routers/admin.py` | none that survives | assemble all then publish all; sync, assemble, narrate; backfill, publish | `Warehouse`, `MirrorSync` |
| orchestration cycle, worker, provider gate | `app/services/sync.py`, `outreach.py`, `worker.py`, `ghl.py`, `app/integrations/` | idempotency keys in memory | rule chains, batch | `Coordination`, `Orchestration` |
| scheduler, start-up | `app/services/scheduler.py`, `app/bootstrap/`, `app/main.py` | due jobs, executed windows, configuration read | cron jobs, start, stop | `Orchestration` |
| assessment engines | `eligibility.py`, `decision_engine.py`, `priority.py`, `channel_selector.py`, `ai_insights.py` | none | pure functions | `Evidence` and the engine modules, `Assessments` |
| narratives and AI insights | `app/services/_narrative_generation.py`, `ai_insights.py` | `ai_insights` | generate, finalize, serve from cache | `Warehouse` (finalize) |
| segmentation, payments, alerts, timeline | `segmentation.py`, `payment.py`, ... | none | pure functions of a row | not modelled |
| the rest | read endpoints, notes, middleware, shadow campaign, front end | | | not modelled, section 6 |

How they interact. The webhook and the operator share one row per case and never lock it
before they write. The syncs write the mirror; the warehouse reads the mirror, the capture of
the month and the finalized insights, all of which other requests write meanwhile; the same
assembly and publication functions are reached from the monthly job, from two batch
endpoints, from two single-student endpoints and from two pipeline requests. The scheduler
starts the syncs, the reports, the capture and the daily cycle; the worker asks the outreach
coordination about every student of a checkpoint and would hand him to the provider. The
engines are asked about the same student from the same facts, and by different callers.
Everything runs on one event loop per process, so a request can be interrupted at each
`await` and only there; PostgreSQL runs at READ COMMITTED; `get_db` closes the session
without a commit when a handler raises.

What is hard here: the case is read, a language model is awaited, then the case is written
by primary key; deduplication relies on a unique index under concurrent deliveries; several
error answers must forget an event that was already inserted; a gate in front of every write
declines silently; check-then-insert with awaits in between, several times, in the warehouse;
batches that stop at the first conflict; jobs nothing resumes; multi-row transactions that
lock rows in the order a remote query returned them; delete-and-insert by overlapping syncs;
jobs that run late across midnight, a month or a year; memory that a restart empties; five
engines with keys, comparisons and readings of their own. `PROJECT.json` lists each of
these hazards at its line with the properties that would catch it.

## 2. Modules

`Coordination`, `PersistenceGate`, `Evidence` and the engine modules hold operators only.
`OutreachLifecycle`, `Warehouse`, `MirrorSync`, `Orchestration` and `Assessments` are state
machines; `Orchestration` and `Assessments` compose the operator modules. Operators called
"Faulty variant" are plausible mistakes in the definition that follows them; no behaviour uses them, and
each property is known to fail under one.

### PersistenceGate
RULE 0 of every governed write: the blocking codes as sets, from
`_repository_helpers.py` and `_repository_types.py`. `StrOfExecutionMode` is what
`str()` gives for a member of `class ExecutionMode(str, Enum)`: `"ExecutionMode.SHADOW"`,
not `"SHADOW"`. Presence of the correlation id and of the scope is Boolean.

### OutreachLifecycle
Committed tables are the variables `state`, `processed`, `history` and `log`. A request in
flight is `req[h]`: its phase, the message, the row and the state it **read**, and the state
it decided on. What it has flushed but not committed exists only there; `HoldsEntry` and
`HoldsRow` are the unique-index entry and the row lock it holds. `reply[h]` is what GHL was
told.

| action | code |
|---|---|
| `WebhookBlocked`, `WebhookDuplicate`, `WebhookLookup` | `record_processed_event` up to its SELECT, webhook.py 59-75 |
| `WebhookInsert`, `WebhookConflict` | the INSERT and its flush: waits, succeeds or raises |
| `WebhookReject`, `WebhookAmbiguous` | the error answers and `scalar_one_or_none` of two rows |
| `WebhookRead` | the SELECT of the case; the transcript analysis follows |
| `WebhookFlush`, `WebhookCommit` | the move, its audit row, the history row; `db.commit()` |
| `ManualRefused`, `ManualRead`, `ManualFlush`, `ManualCommit` | `execute_manual_action` |
| `Abort` | exception, closed connection, deadlock victim, end of the process |
| `LoadRow` | external: nothing in the repository creates tracking rows |

`ExecutionModeText` is a constant because the code and the vocabulary disagree about it:
`lifecycle` and `serial` ask what the handlers do when the gate lets writes
through (`"SHADOW"`), the `deployed*` runs and `closed_reopened` what they do with the text the
process really computes.

Abstractions: a body is its event type, whether the outcome is positive and the user;
hashes are model values, and two messages may have one; the newest row by
`updated_at` of an operator's request is any row of the student; timestamps, attribution
columns and the log lines are left out.

### WebhookInbox and OutreachCase
The two abstract specifications. The inbox processes an event and remembers it in one step,
once. The case moves along the table, from the state it is in, and records the move in the
same step. `OutreachLifecycle` implements the first always (`InboxSpec`, refinement:
`remembered <- processed`, `effects <-` the lengths of `history`) and the second when
requests do not overlap (`CaseSpec`). That it does not implement the second when they do
is the finding of the run `closed_reopened`.

### Warehouse and MonthArchive
One report month. `mirror`, `history`, `insight`, `snapshots` and `reports` are committed
tables; `job[w]` is a request or job between two awaits: what it still has to do, the student
at hand and what it has read for him. The data of a student is a version number, so a
property can tell which read a snapshot came from. A narrative is the number of the
finalized insight it was copied from, 0 for NULL; the five narrative columns are treated
alike by every statement and one stands for them.

| action | code |
|---|---|
| `Refresh`, `FinalizeInsight` | `sync_from_mssql`; `generate_student_narratives` |
| `CaptureRead`, `CaptureWrite` | `capture_month_state` around its upserts |
| `StartOne`, `StartAll`, `StartMonth`, `StartReport`, `StartCohorts` | the endpoints and the monthly job |
| `AssembleCheck`, `AssembleRead`, `AssembleNarrate`, `AssembleInsert`, `AssembleConflict`, `AssembleEnd` | `assemble_snapshot`, and the loop of `assemble_all_active_snapshots` |
| `CohortSelect`, `ReportLoad`, `ReportUpdate`, `ReportInsert`, `ReportEnd` | `generate_cohort_report`, `generate_student_report`, `_insert_monthly_report` |
| `BackfillNarratives` | the COALESCE update of `routers/reports.py` and `routers/admin.py` |
| `Crash` | an exception or the end of the process |

Abstractions: the segment depends on the data and on today's date, so it is any member of
`Classes[version]`; the live figures a report adds to its snapshot (trends, outreach counts,
lifecycle events) are left out, so `ReportQuotesSnapshot` speaks of the snapshot's part
only; students are taken in any order (the code's order is that of a query).

`MonthArchive` is the abstract specification: freeze a student's record once, publish what
is frozen. `ArchiveSpec` is the refinement.

### MirrorSync and PopulationCopies
The copying of SQL Server and GHL into PostgreSQL. `said` is what each source says, a version
number; `mirror`, `mentor`, `prep`, `activity` and `messages` are committed tables whose rows hold the
version they were copied from. A payment column also records its writer, because two syncs
write it from two sources. `session[w]` is a transaction: the syncs its job has left, the rows it fetched and
has still to write, the rows it has locked.

| action | code |
|---|---|
| `Start` | the daily job, the pipeline, the sync endpoints |
| `Fetch`, `FetchFails` | the query of SQL Server or the GHL request, and its except branch |
| `WriteRow` | one upsert or UPDATE of the loops of `sync_from_mssql`, `sync_ipbc_students`, `sync_payments`, ... |
| `DeleteBegin`, `DeleteRows` | `DELETE FROM student_campaign_activity`: its snapshot and its wait |
| `CheckMessage`, `InsertMessage`, `MessageConflict` | `_upsert_messages` and the unique index |
| `Commit`, `Raise` | the one commit of each sync; an exception ends the job it happens in |
| `DeadlockVictim` | PostgreSQL's detector ends one transaction of a minimal cycle of waits |
| `SourceChanges` | external |

Abstractions: one version stands for all columns of a source; rows leave the mirror table never and
the source never, as `sync.py` has no delete for them; a message sync is of one conversation, which
grows. The order in which a query returns its rows is any sequence that lists each of them once
(`InTurn`); GHL's list of a conversation is in one order each time, so its messages come in
the order in which they were said.

`PopulationCopies` is the abstract specification: a population's copy is the set of versions its rows hold, it is replaced as
a whole, by something the source has said. `CopiesSpec` is the refinement (`source <- said`, `copy <-` the
versions of the members' rows); it does not promise the newest version, which is what `Converges` adds in the long run.

### Coordination and Orchestration
`Coordination` holds the rule chains as functions of a request and of the keys in memory: RULE 0 and
after of `coordinate_sync_cycle` (sync.py), `coordinate_orchestration_cycle` (outreach.py),
`coordinate_worker_execution` (worker.py), `assess_provider_orchestration` (ghl.py) and the transport. The first rule that applies answers; a
threshold is known when it is in the domain of the request's rules.

`Orchestration` is the process around them.

| action | code |
|---|---|
| `Startup`, `Stop` | `app/main.py` lifespan, `bootstrap/`; the end of the process |
| `ActivateVersion` | external: an operator supersedes the ACTIVE row |
| `Tick`, `Missed` | external, the clock and APScheduler: a job becomes due, or is dropped after `misfire_grace_time` |
| `RunCycle` | `coordinate_orchestration_cycle` of scheduler.py: the gate and both windows |
| `RunSync`, `RunReport`, `RunCapture` | the other jobs, and the month they compute |
| `Coordinate` | a request to either coordination |
| `RunBatch` | `run_batch_cycle` of worker.py: every student of the checkpoint through coordination and worker |

Time is in half hours of UTC and jumps between the instants listed. The cycle's trigger hour is
Chicago's, 18:00 by default (`config.py:53-55`, passed on by `main.py:125-129`); `CycleAt` says when that is in
UTC, so daylight saving is a choice of the constant: midnight in winter, 23:00 in summer. A behaviour
begins at one of the `Openings` and goes from one instant to the next (`Follows`) until the period of days that
begins there ends; `Month` names the months. A recorded trigger says which process made it, by the number of
restarts before. What the three other jobs do is in `MirrorSync` and `Warehouse`.

### Evidence, the engines and Assessments
`Evidence` says what a case is and how a fact is held against a threshold. `Eligibility`,
`DecisionEngine`, `Priority` (with `score_student` and `risk_level_for_display`),
`ChannelAdvisory` and `InsightAdvisory` translate the rule chains of `eligibility.py`,
`decision_engine.py`, `priority.py`, `channel_selector.py` and `assess_ai_orchestration` of
`ai_insights.py`, each with its own keys, its own comparison and its own reading of the insight,
as the code has them.

`Assessments` asks all of them, the outreach coordination and the provider's gate about one
student. Initial states are the combinations of request, standing, history, outreach, insight
and channel data; a step changes one thing about the student (`SyncFact`, `SyncNull`,
`Restrict`, `Contact`, `Advance`, `Record`, `Report`), so that an action property can compare
the answers before and after.

Two risk factors of a kind weigh more than one: `Several` asks whether there are two different ones. The
channels are a sequence, which `ToFront`, `Kept` and the other rules of `ChannelAdvisory` turn into
the next one.

Abstractions: reason codes, rule paths, confidences, texts and logs; numbers are
held against scaled-down thresholds. `EffortAliased` and `CeilingsOrdered` say which values of two pairs of
configuration keys are in step; they hold of the instance (`ThresholdsAgree`), and two theorems assume them.

### Instances and proofs
`MCOutreachLifecycle`, `MCWarehouse`, `MCMirrorSync`, `MCOrchestration` and `MCAssessments` give the
constants values. `OutreachLifecycleProofs`, `WarehouseProofs`, `MirrorSyncProofs`,
`MirrorCopiesProofs` (the refinement, and who deadlocks), `OrchestrationProofs`,
`RiskProofs` (the comparisons of risks and scopes) and `AssessmentsProofs` (the other properties of the
engines) are described in section 5.

## 3. Runs

| run | asks | bounds |
|---|---|---|
| `lifecycle` | exactly once, truthful answers, agreeing ledgers, audit trail, no circle of waits, who reopens a closed case, refinement of the inbox; is every started request answered? | 2 requests at a time, 1 row, 4 messages (two with one body, one refused), 2 actions; under fairness: 253,199 states |
| `serial` | does the case of spec/03 hold when requests do not overlap? | 1 request at a time, 2 rows of one student, every initial state, every action |
| `deployed` | does RULE 0 fail closed with the real mode text? | 2 requests, 2 rows, every initial state |
| `warehouse` | one snapshot and report per month, a completed job has published, reports quote the frozen record, refinement of the archive | 2 students, 2 jobs, one with up to 2 new versions, one with 2 insights |
| `syncs` | whole fetches only, payments patched, stored messages, every job ends, the mirror converges, refinement of the whole copies | 2 students of one population, 1 of the other; the scheduler (its daily job for ever, 1 message request) and a client (1 request of any kind); 1 fault; `AI_ChatBot_TriggerData` changes once: 193,985 states |
| `orchestration` | windows, months, keys, batches | 31 December to 2 January and 7 to 9 March 2026, over the clock change; 1 restart, 3 requests or batches, 1 version, 2 students: 305,067 states |
| `assessments` | do the engines agree about a student? | 8 requests, 3 x 3 x 2 facts or one NULL, 5 standings, 5 outreaches, 6 insights, 3 sets of channels, 2 histories: 172,800 states |
| `deployed_ack`, `closed_reopened`, `report_overwritten`, `hold_live`, `spring_skipped` | each refutes one sentence of the documentation (section 4) | as above |

Why the bounds are enough to be interesting. Two requests suffice for each race on the code's
locks, since a lock has a holder and a waiter; a third would add another waiter of the same
kind. One row makes every pair of requests collide; two rows make the ambiguous SELECT and the choice of
the newest possible. The messages cover a move, a repeated body, a move that is refused by the
table in some states, and a body the handler rejects. Nothing bounds the number of
redeliveries or of aborts, nor the number of operator actions: the histories and the trails stay
short because a hash takes effect once and the only cycle of the table, NO_RESPONSE, RETRY,
CONTACTED, needs a move to CONTACTED, which neither a webhook nor an operator asks for.
In `warehouse` one worker does what goes over all students and the other the requests for
one, so that a batch always has something to race with; `MaxVersion` and `MaxInsight` bound
the external writers and are the only counters there. Two new versions are what it takes to tell a
first from a later stale read; two insights what it takes to tell a fill from an overwrite.
In `syncs` two rows of one population are what a deadlock and a half-written fetch need;
`MaxStarts` and `MaxFaults` bound requests and faults, so that the sources and the clients become quiet,
which `Converges` presupposes; the daily job is not bounded. In `orchestration` the instants
are those at which a job fires or its grace ends, over a change of day, month and year and over
the days around the spring clock change, with the default trigger hour in winter and in summer;
`MaxRestarts`, `MaxRequests` and `MaxVersion` are its bounds, and its calendar ends, which is
why it and `spring_skipped`, which takes the second period only, have `CHECK_DEADLOCK FALSE`. In `assessments` each fact has a value below,
at and above its thresholds, as far as each engine's comparison needs one; a fact that may be absent is the
homework, whose absence the engines treat in different ways.

Symmetry is used between the two handlers in `deployed`, `deployed_ack` and `closed_reopened`; `lifecycle`, which
checks a liveness property, goes without.

Fairness. `FairSpec` of `OutreachLifecycle` (run `lifecycle`): strong fairness of each request's own
steps, nothing for clients, operators or loading. The event loop resumes a coroutine whose
database call has returned, and PostgreSQL grants a lock to its waiters in the order they came; strong
rather than weak because a waiter's step is disabled whenever somebody else holds the lock in
between. A crash may happen at any time and counts as an end of the request: the property is
that no cycle of waits exists, not that every event is processed.
`FairSpec` of `MirrorSync` (run `syncs`) is alike: strong fairness of a worker's transaction, which
includes being chosen as the victim of a deadlock, and weak fairness of the scheduler's daily start,
which APScheduler's cron trigger justifies. Nothing is assumed of clients, sources and faults.

## 4. What the runs show

With an execution mode the vocabulary knows, the webhook is an exactly-once inbox: concurrent
deliveries, repeats after an error or a rollback and crashes between flush and commit leave
one history row per remembered event; a "deduplicated" answer is true; each webhook move has
one history row and one audit row that agree; the newest audit row names the state of the
case. The order of locks (index entry first, then row; operators take only the row)
admits no deadlock: `NoCircularWait` says so of each state, `EventuallyAnswered` of what follows. A closed case can be
reopened (finding 2), but only by a request that had read the case before it was closed, and only to a state the
table allows after what it read: `ReopensAreStale`, which TLC and the prover hold.

In the warehouse, the partial unique index and the ON CONFLICT clause keep
one snapshot and one report in every interleaving; a report always quotes the frozen data,
with the narrative or the blank that was there before a backfill; a job that
reports completion has published everybody it listed.

The syncs do deadlock, on rows in opposite orders, and the database ends one of the jobs: every job
comes to an end, and no population is ever half of one fetch and half of another. An older fetch can be
committed last, two campaign syncs can leave every event twice, and a full sync alone puts back the payment
columns of its own source; the next daily job repairs all three, which is what `Converges` says.
A message sync that loses the race to the unique index raises; it never reports success without its
messages.

A process evaluates an original request at most once per key. It triggers a window once, and refuses
a cycle only if an earlier one of its own has triggered on the same UTC date. A window is triggered twice only
by two processes and for two due hours: a restart forgets the windows, but drops the job that was due
as well. That one date can have two due hours is finding 5. A batch delegates nobody: no
coordination ever grants the authority to dispatch, in LIVE mode neither.

The engines agree on holds and replays; intents fit the scopes; their risks are ordered in one
direction; with a TTL and a truthful staleness flag they trust the same insights; worse
facts never make an answer calmer.

Disagreements between code and documentation, each the subject of a run:

1. `deployed_ack`: `str(settings.EXECUTION_MODE)` is `"ExecutionMode.SHADOW"`, RULE 0 blocks
   the event, and the webhook answers `deduplicated` to an event it never processed
   (spec/04:911 reserves that for events processed before).
2. `closed_reopened`: an operator's request that read the case before another operator closed it
   moves it on from CLOSED, which spec/03:147 forbids: the UPDATE waits for the row and then names only its
   key (outreach.py:410-439). Where RULE 0 lets the webhook through, a delivery that awaits the transcript analysis
   can do the same.
3. `report_overwritten`: publishing again after a backfill rewrites the published row
   (alembic 0002:305-306, "never modified"). The backfill itself writes narratives that
   alembic 0002:258 calls frozen.
4. `hold_live`: for a student under a compliance hold `eligibility.py:227` withdraws
   `live_outreach_permitted` and `_emit` at line 450 computes it again as True
   (tests/test_eligibility.py:658 states the contract without calling the service).
5. `spring_skipped`: the trigger hour is Chicago's and the window's date UTC's. The cycle of 7 March 2026, 18:00,
   is due at midnight UTC of the 8th; that of the 8th, one hour of UTC earlier after the clock change, at 23:00
   of the same date. It is refused as a duplicate (scheduler.py:200 and 97-102) and the day has
   no cycle (spec/02:40, "Daily execution"). After a restart between the two the window triggers twice.

### Divergences

Met while modelling, translated as the code has them, and not the subject of a run of their own.
Where a property stops short, it is because of one of these.

* By the cause of finding 1 an operator's move is committed without its audit row (repository.py:186,
  "Every state change persisted with full attribution lineage").
* Deduplication is by the hash of the body; spec/04:911 says by message id. A second message
  with the same body is discarded.
* Of two overlapping captures the earlier read can be written last (sync.py:675-676, "the latest
  capture always wins"). A capture that runs after midnight, within its grace time, stores
  the state under the next month's name.
* The key of a request that was refused after RULE 0 stays taken: the retry is refused as a duplicate.
* The text `UNKNOWN_V0` of an unresolved configuration is a non-empty string and passes the gates of the scheduler
  and of `outreach.py`; the worker's gate names it and blocks. `/batch/run` passes no configuration
  at all, so its worker blocks every student.
* The worker's rules go on past RULE 1 only with an authority no coordination grants. Beyond
  it, the thresholds handed on are those of outreach, so the provider's retry budget would never be
  known; a recovery passes the worker's gate and is blocked by the provider's; the
  provider's gate does not ask for `actor_identity`, which
  `REQUIRED_PROVIDER_ATTRIBUTION` (`_ghl_types.py:50-52`) lists.
* The ceiling of attempts has two configuration keys, `outreach_max_attempts` (eligibility, decision) and
  `outreach_max_retry_attempts` (coordination). `IntentWithinScope` compares them where
  both are set: with the second above the first, `outreach.py` retries a student whom
  the decision engine closes (`CeilingsOrdered`).
* Effort is compared with `avg_eff_rating_low_risk_threshold` in the decision and priority engines and with
  `avg_eff_rating_minimum_threshold` in eligibility; spec/01:1669 and 1672 take both for one
  canonical threshold. Where the second is absent or lower, eligibility can call a student calmer than
  the decision engine does (`EffortAliased`). Inactivity is compared with `>=` in one engine and `>` in another.
* The window of a cycle is the UTC date it runs on, not the date it was due (scheduler.py:200). Beyond finding 5,
  a trigger hour in the last hour before midnight UTC lets a run that is late past midnight take the next
  day's window; that day's cycle is then refused as a duplicate. The default reaches this in summer (23:00) with
  a delay of the whole grace time.
* Without `ai_insight_ttl_hours` eligibility and channel selection call an insight UNAVAILABLE that the decision
  engine and `ai_insights.py` trust. `ai_insights.py` ignores the caller's staleness flag, is alone in
  taking AI_QUEUED for in flight and in refusing when the LLM's circuit is open, and goes on recommending for held
  students.
* Channel selection asks nothing about the student's access. A degraded channel that was moved
  back can be moved to the front again by a preference of RULE 11 or RULE 12
  (directives/channel_selection_rules.md:530).
* A student flagged for retry is eligible for it in any state but CLOSED; the decision engine does not check
  the type of the request.
* `score_student` takes effort to be a rating out of 5 (`< 3`); segmentation takes it to be a percentage (`> 90`).
* No code of the application calls the four engines' assessments: the routers call `score_student`,
  `risk_level_for_display`, `check_eligibility` and `decide`; `llm.py` wraps `ai_insights.py`.

## 5. What is proved

For all values of the constants that satisfy the named assumption of each module:
`ConstantsAssumption`, `WarehouseAssumption`, `SyncAssumption` (finite populations without a common
student; no worker is called "none"), `OrchestrationAssumption` (the text of a version number is neither
"none" nor `UNKNOWN_V0`; finitely many students; the days of the calendar are in one month or in successive ones) and `AssessmentsAssumption` (facts, thresholds
and limits are integers). TLC evaluates them in every run.

| module | theorem | says |
|---|---|---|
| `OutreachLifecycleProofs` | `TypeCorrect` | `Spec => []TypeOK` |
| | `ProcessedExactlyOnce` | `Spec => []ExactlyOnce` |
| | `TrailInStep` | `Spec => []AuditTrail` |
| | `FailsClosed` | `Spec => []GateFailsClosed` |
| | `MovesAreAudited` | `Spec => EveryMoveAudited`, assuming `GatePasses(ExecutionModeText)` |
| | `AcknowledgedIsCommitted` | `Spec => []AcksTruthful`, under the same assumption |
| | `LedgersInStep` | `Spec => []LedgersAgree` |
| | `ImplementsInbox` | `Spec => InboxSpec` |
| | `WaitsAreOrdered` | `Spec => []NoCircularWait` |
| | `ReopensFromStaleReads` | `Spec => ReopensAreStale` |
| | `SerialImplementsCase` | `Spec => CaseSpec`, assuming `GatePasses(ExecutionModeText)` and `OneAtATime` |
| `WarehouseProofs` | `WarehouseTypes` | `Spec => []TypeOK` |
| | `OneOfEach` | `Spec => []OnePerMonth` |
| | `ReportsQuoteSnapshots` | `Spec => []ReportQuotesSnapshot` |
| | `CompletedJobsPublished` | `Spec => []CompletedMeansPublished` |
| | `ImplementsArchive` | `Spec => ArchiveSpec` |
| `MirrorSyncProofs` | `SyncTypes` | `Spec => []TypeOK` |
| | `OneFetchAlways` | `Spec => []OneFetch` |
| | `PaymentsArePatched` | `Spec => []PaymentsPatched` |
| | `SuccessStores` | `Spec => []SuccessMeansStored` |
| `MirrorCopiesProofs` | `ImplementsCopies` | `Spec => CopiesSpec` |
| | `MessagesOutOfDeadlocks` | `Spec => []MessagesNeverDeadlock` |
| `OrchestrationProofs` | `ProcessTypes` | `Spec => []TypeOK` |
| | `MonthsAreTheirs` | `Spec => []RunForTheirMonth` |
| | `RefusalsAreDuplicates` | `Spec => []RefusedOnlyAsDuplicate` |
| | `RepeatsCrossRestarts` | `Spec => []RepeatedOnlyAcrossRestarts` |
| | `KeysEvaluatedOnce` | `Spec => []KeyEvaluatedOnce` |
| | `BatchesContained` | `Spec => []BatchContained` |
| `RiskProofs` | `RisksInOrder` | `Spec => []RisksOrdered`, assuming `EffortAliased` |
| | `IntentsInScope` | `Spec => []IntentWithinScope`, assuming `CeilingsOrdered` |
| | `WorseIsNeverCalmer` | `Spec => WorseNeverCalmer` |
| `AssessmentsProofs` | `EngineTypes` | `Spec => []TypeOK` |
| | `ReplaysContained` | `Spec => []ReplayContained` |
| | `HoldsAgreed` | `Spec => []HoldAgreed` |
| | `TrustAgreed` | `Spec => []InsightTrustedAlike` |
| | `OpenChannels` | `Spec => []OpenChannelsOnly` |
| | `DisplaysInStep` | `Spec => []DisplaysAgree` |

The assumption `GatePasses` is exactly what the finding `deployed_ack` shows to be missing.
`EffortAliased` and `CeilingsOrdered` are about configured values; the code enforces none of them, the
properties fail without them, and the Divergences say what then happens. `MCAssessments` states both as
an `ASSUME` of its instance, so the run checks the properties where the theorems prove them.

**The case.** `TypeOK` is not inductive: that a commit writes a row of the right type depends
on what the request read phases earlier. `TypeInv` adds `RequestShape`: in each phase a record
holds the message, the row and the states that phase needs, and a decided move is one of the
table. `ExactlyOnce` is not inductive either: two requests about to commit one hash would
break it. `EntryFresh` is the missing half, and is the unique index in the form of an
invariant: a hash held by an open transaction is not committed and nobody else holds it.
For `AuditTrail`, which relates the newest audit row to the state whatever was read, one needs
`AbsentUnlogged` (a row loaded late has no trail), and `GateFailsClosed` because a blocked gate
makes the log empty rather than behind. The lemmas `DatabaseSteps`, `WebhookCommitWrites`
and `ManualCommitWrites` say which steps write the tables and what, so that later
proofs have three cases instead of fifteen. `LedgersAgree` counts rows over two tables; `LedgerInv` says
instead that the audit rows of a move are the set `{p}` of one position, and needs `EntryFresh` once more: the
history a commit writes to is empty, so no earlier audit row cites its message. The refinement
theorem maps a commit to `Process` and everything else to a stutter. `SerialImplementsCase` is the other refinement,
for one handler: `ReadIsCurrent` says that what a request read of the case is still so, and a commit is then a `Move`
of the abstract case. With two handlers that invariant is what `closed_reopened` breaks. `ReopensFromStaleReads` is
what is left of it then: `RequestShape` says that a decided move is one of the table from what was read, and the
table has none from CLOSED, so whoever reopens a case cannot have read it closed. `WaitsAreOrdered` is by phases: a
request that holds a row waits for nothing, one that has read waits for those only, and one that looks for its
index entry for either kind. It is about sets of requests of any size, where the run has two. It needs no
invariant; what could break it is code that locks in another order or locks what it only reads.

**The warehouse.** One invariant, `IInv`, carries all five theorems. The properties of the tables depend on
what jobs read awaits before: `Carries` says of each job that what it is about to publish quotes
the frozen row (`Quotes`), and that every student a monthly job listed is still to come, frozen or
published (`Owes`) - a student's turn, or his cohort's. `Grown` is what any step may do to the tables under
a job: nothing goes away, nothing frozen changes but a blank that is filled. `CarriesGrown` proves once
that what a job carries survives that, so each action needs an argument for its own job only. The students a
monthly job drops as unknown are none it listed, because the mirror never loses a row; a cohort that leaves the
list of segments is the one whose students become the job's turns.

**The syncs.** `OneFetch` says nothing of what is under way, and a commit replaces rows one transaction read
long ago. `Covers` is the strengthening: the rows a sync has written and holds, and those it has still to
write, are together all the rows of its population, so that a commit replaces all or none; and
`Locks`, no two transactions hold one row, so none is half of another's. That only some of the rows of
a fetch are committed would need a second commit, which no sync has. `PaymentsPatched` needs the order of a
job's list (`Ordered`: the payments come after the mirror) and that whoever writes payment columns finds the row
there. `SuccessMeansStored` follows from `Covers` of a message sync: each message it fetched is in the
table or among those it holds or has left. The orders in which the rows come are arbitrary; that each
row occurs in them is all those proofs use. `TablesKept` says once what every step keeps of the tables.

`ImplementsCopies` needs one thing more than `OneFetch`: that what is written has been said. `Promises` adds it to the
invariant (`Heard`: what a session fetched its source has said, and a source only ever says more), and
`Replaces` shows that the commit of a sync replaces all rows of its population by one such version; every other step is
a stutter or a `Speak`. `Promises` also holds `InOrder`: a message sync holds only earlier messages than those
it has left. `MessagesOutOfDeadlocks` follows. In a circle of waits a message sync would wait for a later
message than any it holds, its holder for a later one still, and finitely many messages have a largest (`Largest`).
So the deadlocks of `syncs` are among the other syncs. This property is proved and is in
no run: a deadlock of message syncs needs two messages, with which `syncs` takes longer than a
run should; TLC found no violation of it at that size. It rests on `InTurn`, the assumption about GHL's order.

**The process.** `ClockInv` adds `Punctual` to `TypeOK`: what is due became due at an hour of its job that
has come, and only for a process that is up. `RunForTheirMonth` then is arithmetic of days, with a report's grace time shorter than the rest of its
day. `RefusedOnlyAsDuplicate` and `RepeatedOnlyAcrossRestarts` relate
records of different days, which one step cannot see: `CycleInv` says in addition that each window in memory was
taken by a recorded trigger of this process (`Taken`), that what this process has triggered is in its memory
(`Remembered`), and that a cycle which is due is later than those recorded (`Dated`). A cycle that is refused then has an
earlier one of its own process, RULE 0 being passed by every process that is up (`GateOpen`); one that triggers cannot
share its window with one its own process remembers. Nothing is assumed of the trigger hours, so both hold over clock
changes too. `KeyEvaluatedOnce` needs `KeyInv`: the evaluation that counted a key also left it
in the memory of its service, and an answer names an intent only for a request that passed RULE 0, that
is, for a key not seen before (`IntentNeedsNewKey`). A restart loses both together. `BatchesContained`
rests on `NeverAuthorized` and `ConfigurationKept`, facts about every answer the coordination can
give.

**The engines.** The engines are functions of a case, so an invariant of `Assessments` is a fact about
every case whose numbers are numbers (`Drawn`, `CaseNumbers`). `ReplayContained` and `HoldAgreed` follow the rule
chain of each engine to the rule that answers. The comparisons of risks rest on one lemma about
`Weigh`, `WeighMonotone`: a factor more, or one that moves from the medium to the high ones, never makes the
verdict calmer. `EligibilityNotCalmer` and `PriorityNotCalmer` then show that each engine's factors include
the decision engine's, which for effort is `EffortAliased`; `EligibilityRises`, `DecisionRises`,
`PriorityRises` and `PagesRise` that worse facts only move factors up, whichever way the thresholds of a kind
are ordered. `WorseIsNeverCalmer` is of any number of facts that become worse at once, where the run changes one
at a time. `OpenChannels` follows a list through seven rules with one predicate: `Lists(line, S)`, each member of
`S` once and nothing else. Taking out takes out of `S`; moving to the front leaves `S` alone; a degraded channel is
moved to the back, never dropped.

Only model-checked, because the prover does not reach them: `EventuallyAnswered`, `EveryJobEnds` and `Converges`
are liveness under fairness. Every other property of a passing run is stated by a theorem. What the four
runs that expect a violation refute is shown by TLC's counterexamples.

## 6. Not modelled, and why

* `sync_all_students` and `get_sync_status` of the message sync: a loop over `sync_by_phone`, and a query.
* The insight cache (`get_or_generate`): overlapping requests only add rows and the newest is served.
* `_live_ghl_dispatch` (called by nobody) and the transports the worker does not call: in SHADOW
  mode each call is suppressed, and they keep no state.
* `check_eligibility` and `decide`, the short forms of the batch preview: they decide no write.
* Segmentation, payments, alerts and timeline: functions of one row for pages; the segment a report
  needs is any member of a set in `Warehouse`.
* The configuration registry beyond what start-up reads: nothing in the repository activates a version,
  and `verify_startup_db_state` only reads and logs.
* The replay writers and `protect_finalized_ai_insight` of the repository: no caller in the
  application.
* The correlation middleware: a function of a request's headers.
* Read endpoints, the front end and scripts: queries, presentation, loads run by hand. Notes and
  quick actions insert rows nothing else decides on. The shadow campaign is a harness that runs the services
  offline.
* Figures, texts and timestamps, as said under each module.

## 7. Plan

Done: the case, the warehouse, the syncs, the process and the engines, each with the proofs of its safety
properties. In the order of importance, what is left:

1. The short forms `check_eligibility` and `decide` against the engines they abbreviate; segmentation and the
   payment balance as operators beside `Evidence`.
2. The insight cache: expiry, finalization, overlapping generations, the LLM's circuit.
