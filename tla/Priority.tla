------------------------------ MODULE Priority ------------------------------
(***************************************************************************)
(* app/services/priority.py: assess_orchestration_priority, the advisory   *)
(* priority of one student, and the two heuristics the pages show instead, *)
(* score_student and risk_level_for_display.  "seen" are the idempotency   *)
(* keys the module holds in memory.                                        *)
(***************************************************************************)
EXTENDS Evidence

Keys == {"hws_behind_high_risk_threshold", "hws_behind_moderate_threshold",
         "avg_eff_rating_low_risk_threshold", "last_activity_high_risk_days",
         "last_activity_moderate_days", "payment_balance_risk_threshold",
         "prior_escalation_repeat_threshold", "ai_insight_ttl_hours"}
Fields == {"correlation_id", "origin_source", "origin_authority", "actor_identity"}
Types  == {"original", "replay", "regeneration", "recovery"}
Upward == {"MEETING", "OUTREACH", "RESOURCE_DELIVERY"}

PreconditionGate(c, seen) ==
    /\ c.mode \in {"SHADOW", "LIVE"}
    /\ c.type \in Types
    /\ c.config # None
    /\ c.absent \cap Fields = {}
    /\ c.key \notin seen

Registers(c) == IF c.type = "original" /\ c.key # None THEN {c.key} ELSE {}

Record(c, priority, scope, outcome) ==
    [priority |-> priority, scope |-> scope, outcome |-> outcome, tier |-> "UNAVAILABLE",
     blocked |-> FALSE, continues |-> scope # "UNAVAILABLE", degraded |-> FALSE,
     suppressed |-> scope # "AUTHORIZED", emits |-> FALSE]

BlockedRecord(c) ==
    [Record(c, "UNKNOWN", "UNAVAILABLE", "failure") EXCEPT !.blocked = TRUE]
MaintenanceRecord(c) ==
    [Record(c, "UNKNOWN", "MAINTENANCE", "success") EXCEPT !.continues = FALSE]
\* A replay has no priority of its own.
ReplayRecord(c) ==
    LET found == "artifact" \in c.replay
    IN  [Record(c, "UNKNOWN", "REPLAY_ONLY", IF found THEN "success" ELSE "degraded") EXCEPT
            !.degraded = ~found]

\* The caller's staleness flag wins; without one a TTL has to be configured.
ClassifyTier(c) ==
    LET i == c.insight
    IN  IF i.finalized                                      THEN "FINALIZED_COPY"
        ELSE IF i.state \in {"AI_GENERATING", "AI_PENDING"} THEN "IN_FLIGHT"
        ELSE IF i.state # "AI_REVIEWED"                     THEN "UNAVAILABLE"
        ELSE IF i.stale = "yes"                             THEN "STALE"
        ELSE IF i.stale = "unknown" /\ "ai_insight_ttl_hours" \notin DOMAIN c.rules
                                                         THEN "UNAVAILABLE"
        ELSE ByScore(i)

-----------------------------------------------------------------------------
(* RULE 6 and RULE 7.  The LOW factors weigh nothing. *)

Advised(c, tier, advice) == ClassifyTier(c) = tier /\ c.insight.advice = advice

\* Faulty variant: homework is counted from the threshold on, not at it.
HighFactorsAbove(c) ==
    Factor("hws", Above(c, "hws", "hws_behind_high_risk_threshold"))
    \cup Factor("inactivity", Above(c, "inactivity", "last_activity_high_risk_days"))
    \cup Factor("escalations", Recurs(c, "prior_escalation_repeat_threshold"))
    \cup Factor("trend", c.trend = "CRITICAL")
    \cup Factor("ai", Advised(c, "CONFIDENT", "ESCALATE"))

HighFactors(c) ==
    Factor("hws", AtLeast(c, "hws", "hws_behind_high_risk_threshold"))
    \cup Factor("inactivity", Above(c, "inactivity", "last_activity_high_risk_days"))
    \cup Factor("escalations", Recurs(c, "prior_escalation_repeat_threshold"))
    \cup Factor("trend", c.trend = "CRITICAL")
    \cup Factor("ai", Advised(c, "CONFIDENT", "ESCALATE"))

MediumFactors(c) ==
    (Factor("hws", AtLeast(c, "hws", "hws_behind_moderate_threshold"))
     \cup Factor("effort", Below(c, "effort", "avg_eff_rating_low_risk_threshold"))
     \cup Factor("inactivity", Above(c, "inactivity", "last_activity_moderate_days"))
     \cup Factor("balance", Above(c, "balance", "payment_balance_risk_threshold"))
     \cup Factor("trend", c.trend = "DECLINING")
     \cup Factor("ai", Advised(c, "ADVISORY", "ESCALATE"))) \ HighFactors(c)

AggregatePriority(c) == Weigh(HighFactors(c), MediumFactors(c))

\* RULE 8.
AiAdjustment(c, priority) ==
    IF Advised(c, "CONFIDENT", "ESCALATE")                                   THEN "CRITICAL"
    ELSE IF ClassifyTier(c) = "CONFIDENT" /\ c.insight.advice \in Upward     THEN Upgrade(priority)
    ELSE IF Advised(c, "ADVISORY", "ESCALATE")                               THEN Upgrade(priority)
    ELSE priority

Deferred(c) == ClassifyTier(c) = "IN_FLIGHT" /\ c.type = "original"

\* LIVE is SHADOW_ONLY too, and nothing is emitted.
Scored(c) ==
    [Record(c, AiAdjustment(c, AggregatePriority(c)), "SHADOW_ONLY", "shadow_only") EXCEPT
        !.tier = ClassifyTier(c),
        !.degraded = Keys \ DOMAIN c.rules # {}]

AssessPriority(c, seen) ==
    IF ~PreconditionGate(c, seen)      THEN BlockedRecord(c)
    ELSE IF c.maintenance              THEN MaintenanceRecord(c)
    ELSE IF IsReplay(c)                THEN ReplayRecord(c)
    ELSE IF Deferred(c) THEN [Record(c, "UNKNOWN", "SHADOW_ONLY", "deferred") EXCEPT
                             !.tier = "IN_FLIGHT"]
    ELSE Scored(c)

-----------------------------------------------------------------------------
(* What the pages show.  The limits are written in the code: they are the  *)
(* "limits" of a profile here, so that an instance may scale them down.    *)

Fact(c, f) == IF f \in DOMAIN c.facts THEN c.facts[f] ELSE 0

\* Points for a fact past its upper or its lower limit.
Points(past_high, high, past_low, low) ==
    IF past_high THEN high ELSE IF past_low THEN low ELSE 0

Score(c, limits) ==
    Points(Fact(c, "hws") >= limits.hws_high, 40, Fact(c, "hws") >= limits.hws_low, 20)
    + Points(Fact(c, "inactivity") > limits.idle_high, 30,
             Fact(c, "inactivity") > limits.idle_low, 15)
    + Points("effort" \in DOMAIN c.facts /\ c.facts["effort"] < limits.effort, 20, FALSE, 0)
    + Points(Fact(c, "balance") > 0, 10, FALSE, 0)
    + Points(c.state = "INTERVENTION_REQUIRED", 20, c.state = "NO_RESPONSE", 10)

ScoreStudent(c, limits) ==
    LET score == Score(c, limits)
    IN  IF score >= 60      THEN "CRITICAL"
        ELSE IF score >= 40 THEN "HIGH"
        ELSE IF score >= 20 THEN "MEDIUM"
        ELSE "LOW"

\* Faulty variant: long inactivity is not a risk.
RiskLevelForDisplayByHomework(c, limits) ==
    IF Fact(c, "hws") >= limits.hws_high      THEN "HIGH"
    ELSE IF Fact(c, "hws") >= limits.hws_low  THEN "MEDIUM"
    ELSE "LOW"

RiskLevelForDisplay(c, limits) ==
    IF Fact(c, "hws") >= limits.hws_high \/ Fact(c, "inactivity") > limits.idle_high      THEN "HIGH"
    ELSE IF Fact(c, "hws") >= limits.hws_low \/ Fact(c, "inactivity") > limits.idle_low THEN "MEDIUM"
    ELSE "LOW"
=============================================================================
