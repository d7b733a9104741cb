---------------------------- MODULE Coordination ----------------------------
(***************************************************************************)
(* The rule chains every orchestration request goes through:               *)
(* coordinate_sync_cycle (app/services/sync.py), the coordination of one   *)
(* student (outreach.py), the worker (worker.py), the provider's           *)
(* assessment (ghl.py) and the transports (integrations/).  Each is a      *)
(* function of its context and of the idempotency keys its module holds in *)
(* memory; the first rule that applies answers.                            *)
(*                                                                         *)
(* A threshold of Config V2 is known when it is in the domain of "rules";  *)
(* a malformed one counts as unknown.  Ids, timings, reason codes and log  *)
(* entries are left out.                                                   *)
(***************************************************************************)
EXTENDS Naturals, FiniteSets

None      == "none"
UNKNOWN_V0 == "UNKNOWN_V0"      \* a configuration that was not resolved

Modes         == {"SHADOW", "LIVE"}
Types         == {"original", "replay", "regeneration", "recovery"}
ProviderTypes == {"original", "replay", "regeneration"}
ReplayTypes   == {"replay", "regeneration"}
ProviderReplayTypes == {"replay", "regeneration"}

SyncFields     == {"correlation_id", "origin_source", "origin_authority", "actor_identity"}
OutreachFields == {"correlation_id", "origin_source", "origin_authority", "actor_identity"}
WorkerFields   == {"correlation_id", "origin_source", "origin_authority", "actor_identity"}
ProviderFields == {"correlation_id", "origin_source", "origin_authority"}

SyncKeys == {"sync_batch_size", "sql_server_max_sync_age_hours", "sync_max_retry_attempts",
             "sync_conflict_threshold", "sync_lag_escalation_hours"}
OutreachKeys == {"outreach_max_retry_attempts", "outreach_retry_window_days",
                 "ai_insight_ttl_hours", "sql_server_max_sync_age_hours",
                 "orchestration_concurrency_limit"}
ProviderKeys == {"provider_failure_max_retry_attempts",
                 "provider_failure_circuit_breaker_threshold",
                 "provider_failure_circuit_breaker_reset_hours",
                 "provider_failure_retry_backoff_base_seconds",
                 "provider_delivery_sla_hours", "sql_server_max_sync_age_hours"}

TerminalStates == {"RESPONDED", "CLOSED", "INTERVENTION_REQUIRED"}
InitialStates  == {None, "ELIGIBLE", "QUEUED"}
StaleTiers     == {"STALE", "UNAVAILABLE"}

Known(rules, keys) == [k \in keys \cap DOMAIN rules |-> rules[k]]
Missing(rules, keys) == keys \ DOMAIN rules
Exceeds(value, rules, key) == key \in DOMAIN rules /\ value > rules[key]

-----------------------------------------------------------------------------
(* A request of each layer with its attribution, and the rest at its defaults. *)

SyncRequest(mode, type, config) ==
    [mode |-> mode, type |-> type, config |-> config, absent |-> {}, key |-> None,
     maintenance |-> FALSE, hold |-> FALSE, source |-> FALSE, rules |-> <<>>, lag |-> 0,
     breaker |-> "UNKNOWN", sql_up |-> TRUE, invalid |-> 0]

OutreachRequest(mode, type, config) ==
    [mode |-> mode, type |-> type, config |-> config, absent |-> {}, key |-> None,
     maintenance |-> FALSE, hold |-> FALSE, source |-> FALSE, rules |-> <<>>, lag |-> 0,
     breaker |-> "UNKNOWN", state |-> None, ai |-> None, attempts |-> 0]

ProviderRequest(mode, type, config) ==
    [mode |-> mode, type |-> type, config |-> config, absent |-> {}, key |-> None,
     hold |-> FALSE, rules |-> <<>>, lag |-> 0, breaker |-> "UNKNOWN", attempts |-> 0,
     outage |-> FALSE]

-----------------------------------------------------------------------------
(* RULE 0 of each layer.  ctx.absent names the fields that are missing.    *)

Gate(ctx, types, fields) ==
    /\ ctx.mode \in Modes
    /\ ctx.type \in types
    /\ ctx.config # None
    /\ ctx.absent \cap fields = {}

SyncGate(ctx, seen)     == Gate(ctx, Types, SyncFields) /\ ctx.key \notin seen
OutreachGate(ctx, seen) == Gate(ctx, Types, OutreachFields) /\ ctx.key \notin seen
\* Faulty variant: an unresolved configuration is good enough.
WorkerGateUnresolved(ctx) == Gate(ctx, Types, WorkerFields)
WorkerGate(ctx)         == Gate(ctx, Types, WorkerFields) /\ ctx.config # UNKNOWN_V0
ProviderGate(ctx)       == Gate(ctx, ProviderTypes, ProviderFields)

\* An original request takes its key as soon as it has passed the gate.
Registers(ctx) == IF ctx.type = "original" /\ ctx.key # None THEN {ctx.key} ELSE {}

-----------------------------------------------------------------------------
(* What a coordination answers, and why. *)

Answer(ctx, scope, outcome) ==
    [scope |-> scope, outcome |-> outcome, intent |-> None, reason |-> None,
     replay |-> FALSE, suppressed |-> TRUE, authorized |-> FALSE,
     degraded |-> FALSE, blocked |-> FALSE, continues |-> FALSE,
     candidate |-> FALSE, ai_authority |-> FALSE, hold |-> FALSE,
     config |-> ctx.config, mode |-> ctx.mode, type |-> ctx.type, absent |-> ctx.absent,
     rules |-> <<>>]

BlockedAnswer(ctx) ==
    [Answer(ctx, "UNAVAILABLE", "failure") EXCEPT
        !.blocked = TRUE, !.reason = "GATE", !.replay = ctx.type \in ReplayTypes]
MaintenanceAnswer(ctx) ==
    [Answer(ctx, "MAINTENANCE", "success") EXCEPT !.reason = "MAINTENANCE_MODE_SUSPENDED"]
ReplayAnswer(ctx) ==
    [Answer(ctx, "REPLAY_ONLY", IF ctx.source THEN "success" ELSE "degraded") EXCEPT
        !.replay = TRUE, !.degraded = ~ctx.source, !.reason = "REPLAY", !.continues = TRUE]

\* The scope of what passed every rule: LIVE is SHADOW_ONLY until it is certified.
ScopedAnswer(ctx, blocking) ==
    LET scope == IF blocking # None THEN "UNAVAILABLE"
                 ELSE "SHADOW_ONLY"
    IN  [Answer(ctx, scope, IF blocking # None THEN "degraded" ELSE "shadow_only") EXCEPT
            !.reason = blocking, !.suppressed = scope # "AUTHORIZED",
            !.continues = scope # "UNAVAILABLE"]

-----------------------------------------------------------------------------
(* sync.py *)

SyncBlocked(ctx)     == BlockedAnswer(ctx)
SyncMaintenance(ctx) == MaintenanceAnswer(ctx)
SyncReplay(ctx)      == ReplayAnswer(ctx)

SyncLate(ctx) == Exceeds(ctx.lag, Known(ctx.rules, SyncKeys), "sql_server_max_sync_age_hours")

SyncBlockingReason(ctx) ==
    IF ctx.breaker = "OPEN"      THEN "CIRCUIT_BREAKER_OPEN"
    ELSE IF ~ctx.sql_up          THEN "SQL_SERVER_UNAVAILABLE"
    ELSE IF ctx.hold             THEN "COMPLIANCE_HOLD_ACTIVE"
    ELSE None

ClassifySyncIntent(ctx, blocked) ==
    IF blocked                THEN "HOLD"
    ELSE IF ~ctx.sql_up       THEN "DEFER_STALE"
    ELSE IF SyncLate(ctx)     THEN "DEFER_STALE"
    ELSE IF ctx.invalid > 0   THEN "RECONCILE_CONFLICTS"
    ELSE "INGEST_AUTHORITATIVE"

SyncCoordinated(ctx) ==
    LET blocking == SyncBlockingReason(ctx)
    IN  [ScopedAnswer(ctx, blocking) EXCEPT
            !.intent = ClassifySyncIntent(ctx, blocking # None),
            !.degraded = Missing(ctx.rules, SyncKeys) # {} \/ blocking # None \/ SyncLate(ctx),
            !.rules = Known(ctx.rules, SyncKeys)]

CoordinateSync(ctx, seen) ==
    IF ~SyncGate(ctx, seen)            THEN SyncBlocked(ctx)
    ELSE IF ctx.maintenance            THEN SyncMaintenance(ctx)
    ELSE IF ctx.type \in ReplayTypes   THEN SyncReplay(ctx)
    ELSE SyncCoordinated(ctx)

-----------------------------------------------------------------------------
(* outreach.py *)

OutreachBlocked(ctx)     == [BlockedAnswer(ctx) EXCEPT !.hold = ctx.hold]
OutreachMaintenance(ctx) == [MaintenanceAnswer(ctx) EXCEPT !.hold = ctx.hold]
OutreachReplay(ctx)      == [ReplayAnswer(ctx) EXCEPT !.hold = ctx.hold]

AttemptsUsedUp(ctx) ==
    /\ "outreach_max_retry_attempts" \in DOMAIN ctx.rules
    /\ ctx.attempts >= ctx.rules["outreach_max_retry_attempts"]

ClassifyIntent(ctx) ==
    IF ctx.state \in TerminalStates      THEN "HOLD"
    ELSE IF ctx.ai = "IN_FLIGHT"         THEN "DEFER_PENDING_AI"
    ELSE IF AttemptsUsedUp(ctx)          THEN "ESCALATE"
    ELSE IF ctx.state = "NO_RESPONSE"    THEN "RETRY_OUTREACH"
    ELSE IF ctx.state \in InitialStates  THEN "INITIATE_OUTREACH"
    ELSE "HOLD"

OutreachCoordinated(ctx) ==
    LET blocking == IF ctx.breaker = "OPEN"      THEN "CIRCUIT_BREAKER_OPEN"
                    ELSE IF ctx.hold             THEN "COMPLIANCE_HOLD_ACTIVE"
                    ELSE None
        late == Exceeds(ctx.lag, Known(ctx.rules, OutreachKeys), "sql_server_max_sync_age_hours")
        intent == ClassifyIntent(ctx)
    IN  [ScopedAnswer(ctx, blocking) EXCEPT
            !.intent = intent,
            !.candidate = ctx.breaker = "OPEN" \/ intent = "ESCALATE",
            !.ai_authority = ctx.ai \notin StaleTiers,
            !.hold = ctx.hold,
            !.degraded = Missing(ctx.rules, OutreachKeys) # {} \/ blocking # None \/ late,
            !.rules = Known(ctx.rules, OutreachKeys)]

CoordinateOutreach(ctx, seen) ==
    IF ~OutreachGate(ctx, seen)        THEN OutreachBlocked(ctx)
    ELSE IF ctx.maintenance            THEN OutreachMaintenance(ctx)
    ELSE IF ctx.type \in ReplayTypes   THEN OutreachReplay(ctx)
    ELSE OutreachCoordinated(ctx)

-----------------------------------------------------------------------------
(* ghl.py: the provider's assessment.  RULE 4 to RULE 11 answer SHADOW_ONLY. *)

Assessment(scope, blocked, continues) ==
    [scope |-> scope, outbound_suppressed |-> TRUE, provider_blocked |-> blocked,
     continues |-> continues, degraded |-> FALSE]

BlockedAssessment(cause) ==
    [Assessment("BLOCKED", TRUE, FALSE) EXCEPT !.degraded = cause # None]
ReplayAssessment    == Assessment("REPLAY_ONLY", FALSE, TRUE)
DuplicateAssessment == Assessment("DUPLICATE_SUPPRESSED", FALSE, FALSE)
ShadowAssessment(degraded) ==
    [Assessment("SHADOW_ONLY", FALSE, TRUE) EXCEPT !.degraded = degraded]

RetriesExhausted(ctx) ==
    /\ "provider_failure_max_retry_attempts" \in DOMAIN Known(ctx.rules, ProviderKeys)
    /\ ctx.attempts >= ctx.rules["provider_failure_max_retry_attempts"]

AssessProvider(ctx, seen) ==
    LET late == Exceeds(ctx.lag, Known(ctx.rules, ProviderKeys), "sql_server_max_sync_age_hours")
    IN  IF ~ProviderGate(ctx)                         THEN BlockedAssessment(None)
        ELSE IF ctx.type \in ProviderReplayTypes      THEN ReplayAssessment
        ELSE IF ctx.hold                              THEN BlockedAssessment("compliance_hold")
        ELSE IF ctx.breaker = "OPEN"                  THEN BlockedAssessment("circuit_breaker_open")
        ELSE IF ctx.mode = "SHADOW"                   THEN ShadowAssessment(ctx.outage \/ late)
        ELSE IF RetriesExhausted(ctx)                 THEN BlockedAssessment(None)
        ELSE IF ctx.key \in seen                      THEN DuplicateAssessment
        ELSE ShadowAssessment(ctx.outage \/ late \/ Missing(ctx.rules, ProviderKeys) # {})

-----------------------------------------------------------------------------
(* integrations/: what an assessment becomes.  Only the GHL transport is called. *)

SuppressedOutcome(scope) ==
    IF scope = "REPLAY_ONLY"               THEN "suppressed_replay"
    ELSE IF scope = "BLOCKED"              THEN "blocked"
    ELSE IF scope = "UNAVAILABLE"          THEN "unavailable"
    ELSE IF scope = "DUPLICATE_SUPPRESSED" THEN "duplicate_suppressed"
    ELSE "shadow_only"

GhlSuppressed(a) ==
    \/ a.scope \in {"SHADOW_ONLY", "REPLAY_ONLY", "BLOCKED", "UNAVAILABLE", "DUPLICATE_SUPPRESSED"}
    \/ a.outbound_suppressed
    \/ a.provider_blocked

\* Even an authorized dispatch is simulated: the live call is never made.
ExecuteGhl(a) == IF GhlSuppressed(a) THEN SuppressedOutcome(a.scope) ELSE "shadow_only"

-----------------------------------------------------------------------------
(* worker.py *)

SuppressedScopes == {"SHADOW_ONLY", "REPLAY_ONLY", "UNAVAILABLE", "MAINTENANCE",
                     "DUPLICATE_SUPPRESSED"}

ChannelForIntent(intent) ==
    IF intent = "INITIATE_OUTREACH"      THEN "call"
    ELSE IF intent = "RETRY_OUTREACH"    THEN "sms"
    ELSE IF intent = "ESCALATE"          THEN "email"
    ELSE IF intent \in {"CLOSE", "DEFER_PENDING_AI", "HOLD"} THEN "ghl"
    ELSE "call"

\* A job carries what the coordination answered, the student and the attempt; its key
\* names all three.
JobContext(answer, student, attempt) ==
    [config |-> answer.config, mode |-> answer.mode, type |-> answer.type,
     absent |-> answer.absent, hold |-> answer.hold, attempts |-> attempt,
     key |-> <<student, attempt>>, rules |-> answer.rules]

\* The worker knows nothing of the provider: its health keeps the defaults.
ProviderContext(job) ==
    [ProviderRequest(job.mode, job.type, job.config) EXCEPT
        !.absent = job.absent, !.hold = job.hold, !.attempts = job.attempts,
        !.key = job.key, !.rules = job.rules]

Execution(outcome, channel, dispatch) ==
    [outcome |-> outcome, blocked |-> outcome = "blocked",
     delegated |-> outcome = "dispatch_delegated", channel |-> channel, dispatch |-> dispatch]

\* The rules that keep a job from the provider.
Contained(answer) ==
    \/ ~answer.authorized
    \/ answer.scope \in SuppressedScopes
    \/ answer.replay \/ answer.type \in ReplayTypes
    \/ answer.suppressed

ExecuteWorker(answer, student, attempt, seen) ==
    LET job == JobContext(answer, student, attempt)
    IN  IF ~WorkerGate(job)       THEN Execution("blocked", None, None)
        ELSE IF Contained(answer) THEN Execution("suppressed", None, None)
        ELSE IF answer.hold       THEN Execution("blocked", None, None)
        ELSE Execution("dispatch_delegated", ChannelForIntent(answer.intent),
                       ExecuteGhl(AssessProvider(ProviderContext(job), seen)))
=============================================================================
