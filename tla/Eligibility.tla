----------------------------- MODULE Eligibility ----------------------------
(***************************************************************************)
(* assess_orchestration_eligibility (app/services/eligibility.py): in      *)
(* which scope a student may be considered, and how urgently.  The first   *)
(* rule that applies answers; the rule path, the reason codes and the log  *)
(* are left out.                                                           *)
(***************************************************************************)
EXTENDS Evidence

Keys == {"outreach_exclusion_window_hours", "hws_behind_minimum_threshold",
         "avg_eff_rating_minimum_threshold", "last_activity_max_days", "outreach_max_attempts",
         "outreach_retry_window_hours", "payment_balance_risk_threshold", "ai_insight_ttl_hours",
         "prior_escalation_repeat_threshold", "hws_behind_high_risk_threshold",
         "last_activity_high_risk_days", "sql_server_max_sync_age_hours"}
Fields == {"correlation_id", "origin_source", "origin_authority", "actor_identity",
           "attribution_timestamp"}
EligibleScopes == {"OUTREACH", "RETRY", "ESCALATION_CANDIDATE", "REPLAY_CANDIDATE",
                   "PRIORITIZATION_ONLY"}

Preconditions(c) ==
    /\ c.config # None
    /\ c.mode \in {"SHADOW", "LIVE"}
    /\ c.absent \cap Fields = {}
    /\ c.type \in {"original", "replay", "regeneration"}
    /\ IsReplay(c) => "context" \in c.replay

Tier(c) ==
    IF c.insight.finalized                                         THEN "FINALIZED_COPY"
    ELSE IF c.insight.state \in {"AI_GENERATING", "AI_PENDING"}    THEN "IN_FLIGHT"
    ELSE IF c.insight.state # "AI_REVIEWED"                        THEN "UNAVAILABLE"
    ELSE IF "ai_insight_ttl_hours" \notin DOMAIN c.rules           THEN "UNAVAILABLE"
    ELSE IF c.insight.stale = "yes"                                THEN "STALE"
    ELSE ByScore(c.insight)

\* An insight under way is stale to a replay; a replay that is admitted reads its
\* finalized copy.
TierUsed(c) == IF Tier(c) = "IN_FLIGHT" THEN "STALE" ELSE Tier(c)

Assessment(scope, priority, tier) ==
    [scope |-> scope, priority |-> priority, tier |-> tier, blocked |-> FALSE,
     eligible |-> scope \in EligibleScopes, live |-> FALSE, replay_safe |-> TRUE,
     degraded |-> FALSE]

Blocked(c) == [Assessment("NONE", "UNKNOWN", "UNAVAILABLE") EXCEPT !.blocked = TRUE]

\* _emit decides the live permission from the scope alone, whatever the rule had set.
Emit(c, scope, priority, tier) ==
    [Assessment(scope, priority, tier) EXCEPT
        !.live = scope \in EligibleScopes /\ c.mode = "LIVE" /\ ~IsReplay(c),
        !.degraded = Keys \ DOMAIN c.rules # {}]

-----------------------------------------------------------------------------
(* The rules that end an assessment, in their order. *)

\* RULE 7.
InExclusionWindow(c) == Below(c, "since_contact", "outreach_exclusion_window_hours")

\* RULE 10.
\* Faulty variant: a replay in LIVE mode is admitted.
ReplayAdmittedLive(c) == {"artifact", "fingerprint"} \subseteq c.replay
ReplayAdmitted(c) == c.mode # "LIVE" /\ {"artifact", "fingerprint"} \subseteq c.replay

\* RULE 8.
\* Faulty variant: one attempt more than the ceiling.
AttemptsExhaustedLate(c) ==
    "outreach_max_attempts" \in DOMAIN c.rules /\ c.attempts > c.rules["outreach_max_attempts"]
AttemptsExhausted(c) == Exhausted(c, "outreach_max_attempts")

\* RULE 8B to 8D.
ContactScope(c) ==
    IF c.attempts > 0 /\ c.retry                                             THEN "RETRY"
    ELSE IF c.attempts = 0 /\ c.state \in {"ELIGIBLE", "QUEUED", None}       THEN "OUTREACH"
    ELSE "NONE"

-----------------------------------------------------------------------------
(* RULE 9 and RULE 11: how urgent. *)

HighFactors(c) ==
    Factor("hws", AtLeast(c, "hws", "hws_behind_high_risk_threshold"))
    \cup Factor("inactivity", AtLeast(c, "inactivity", "last_activity_high_risk_days"))
    \cup Factor("escalations", Recurs(c, "prior_escalation_repeat_threshold"))
    \cup Factor("trend", c.trend = "CRITICAL")

MediumFactors(c) ==
    (Factor("hws", AtLeast(c, "hws", "hws_behind_minimum_threshold"))
     \cup Factor("effort", Below(c, "effort", "avg_eff_rating_minimum_threshold"))
     \cup Factor("inactivity", AtLeast(c, "inactivity", "last_activity_max_days"))
     \cup Factor("balance", Above(c, "balance", "payment_balance_risk_threshold"))
     \cup Factor("trend", c.trend = "DECLINING")) \ HighFactors(c)

Risk(c) == Weigh(HighFactors(c), MediumFactors(c))

Adjusted(c, tier, priority) ==
    LET advice == c.insight.advice
    IN  IF tier = "CONFIDENT" /\ advice = "ESCALATE"      THEN "CRITICAL"
        ELSE IF tier = "CONFIDENT" /\ advice \in {"MEETING", "OUTREACH", "RESOURCE_DELIVERY"}
             THEN Upgrade(priority)
        ELSE IF tier = "ADVISORY" /\ advice = "ESCALATE"  THEN Upgrade(priority)
        ELSE priority

\* A student nothing excludes: RULE 8B to RULE 12.
Considered(c, scope, tier) ==
    IF scope = "NONE" THEN Emit(c, "NONE", "UNKNOWN", tier)
    ELSE Emit(c, scope, Adjusted(c, tier, Risk(c)), tier)

Assess(c) ==
    LET tier == TierUsed(c)
    IN  IF ~Preconditions(c)            THEN Blocked(c)
        ELSE IF c.state = "CLOSED"      THEN Emit(c, "NONE", "UNKNOWN", "UNAVAILABLE")
        ELSE IF c.hold                  THEN Emit(c, "ESCALATION_CANDIDATE", "CRITICAL", "UNAVAILABLE")
        ELSE IF c.access = "REVOKED"    THEN Emit(c, "ESCALATION_CANDIDATE", "HIGH", "UNAVAILABLE")
        ELSE IF c.access = "SUSPENDED"  THEN Emit(c, "NONE", "UNKNOWN", "UNAVAILABLE")
        ELSE IF Tier(c) = "IN_FLIGHT" /\ c.type = "original"
             THEN Emit(c, "PRIORITIZATION_ONLY", "UNKNOWN", "IN_FLIGHT")
        ELSE IF c.contact = {}          THEN Emit(c, "NONE", "UNKNOWN", tier)
        ELSE IF InExclusionWindow(c)    THEN Emit(c, "NONE", "UNKNOWN", tier)
        ELSE IF IsReplay(c) /\ ~ReplayAdmitted(c)
             THEN [Emit(c, "NONE", "UNKNOWN", tier) EXCEPT
                      !.blocked = TRUE, !.replay_safe = FALSE]
        ELSE IF AttemptsExhausted(c)
             THEN Emit(c, "NONE", "MEDIUM", IF IsReplay(c) THEN "FINALIZED_COPY" ELSE tier)
        ELSE IF IsReplay(c)             THEN Considered(c, "REPLAY_CANDIDATE", "FINALIZED_COPY")
        ELSE Considered(c, ContactScope(c), tier)
=============================================================================
