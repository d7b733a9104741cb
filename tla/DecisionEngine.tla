--------------------------- MODULE DecisionEngine ---------------------------
(***************************************************************************)
(* evaluate_orchestration_intent (app/services/decision_engine.py): what   *)
(* the platform would do with a student next.  It reads its own thresholds *)
(* and derives its own risk; paths, confidences and logs are left out.     *)
(***************************************************************************)
EXTENDS Evidence

Keys == {"outreach_max_attempts", "hws_behind_high_risk_threshold",
         "avg_eff_rating_low_risk_threshold", "last_activity_high_risk_days",
         "payment_balance_risk_threshold", "ai_insight_ttl_hours",
         "prior_escalation_repeat_threshold", "sql_server_max_sync_age_hours"}
Fields == {"correlation_id", "origin_source", "origin_authority", "attribution_timestamp"}

\* The type is not looked at: "recovery" is evaluated like an original.
Preconditions(c) ==
    /\ c.config # None
    /\ c.mode \in {"SHADOW", "LIVE"}
    /\ c.absent \cap Fields = {}
    /\ IsReplay(c) => "fingerprint" \in c.replay

GovernanceScope(c) ==
    IF IsReplay(c)             THEN "REPLAY_ONLY"
    ELSE IF c.mode = "SHADOW"  THEN "SHADOW_ONLY"
    ELSE "AUTHORIZED"

Intent(c, intent) ==
    [intent |-> intent, scope |-> GovernanceScope(c), mode |-> c.mode, risk |-> None,
     urgency |-> "LOW", blocked |-> FALSE]
Escalation(c, urgency) == [Intent(c, "ESCALATE_TO_OPERATOR") EXCEPT !.urgency = urgency]
\* Faulty variant: a blocked evaluation keeps the authority of its mode.
BlockedWithAuthority(c) == [Intent(c, "NO_ELIGIBLE_INTENT") EXCEPT !.blocked = TRUE]
Blocked(c) ==
    [Intent(c, "NO_ELIGIBLE_INTENT") EXCEPT !.scope = "UNAVAILABLE", !.blocked = TRUE]

\* RULE 13.  A replay is SHADOW whatever it asked for.
ReplayIntent(c) ==
    [Intent(c, "NO_ELIGIBLE_INTENT") EXCEPT
        !.mode = "SHADOW",
        !.scope = "REPLAY_ONLY",
        !.blocked = c.mode = "LIVE" \/ "fingerprint" \notin c.replay]

\* Staleness is the caller's flag alone: no TTL is asked for.
Tier(c) ==
    IF c.insight.finalized                                      THEN "FINALIZED_COPY"
    ELSE IF c.insight.state \in {"AI_GENERATING", "AI_PENDING"} THEN "IN_FLIGHT"
    ELSE IF c.insight.state # "AI_REVIEWED"                     THEN "UNAVAILABLE"
    ELSE IF c.insight.stale = "yes"                             THEN "STALE"
    ELSE ByScore(c.insight)

-----------------------------------------------------------------------------
(* RULE 7 *)

Advised(c, tier, advice) == Tier(c) = tier /\ c.insight.advice = advice

HighFactors(c) ==
    Factor("hws", AtLeast(c, "hws", "hws_behind_high_risk_threshold"))
    \cup Factor("inactivity", Above(c, "inactivity", "last_activity_high_risk_days"))
    \cup Factor("escalations", Recurs(c, "prior_escalation_repeat_threshold"))
    \cup Factor("trend", c.trend = "CRITICAL")
    \cup Factor("ai", Advised(c, "CONFIDENT", "ESCALATE"))

MediumFactors(c) ==
    Factor("effort", Below(c, "effort", "avg_eff_rating_low_risk_threshold"))
    \cup Factor("balance", Above(c, "balance", "payment_balance_risk_threshold"))
    \cup Factor("trend", c.trend = "DECLINING")
    \cup Factor("ai", Advised(c, "ADVISORY", "ESCALATE"))

ComputeRisk(c) == Weigh(HighFactors(c), MediumFactors(c))

-----------------------------------------------------------------------------

\* RULE 6 and RULE 11 to RULE 12.
MaxAttempts == "outreach_max_attempts"
RetryEligible(c) ==
    /\ c.attempts > 0
    /\ MaxAttempts \in DOMAIN c.rules /\ c.attempts < c.rules[MaxAttempts]
    /\ c.retry
FirstContact(c) == c.attempts = 0 /\ c.state \in {"ELIGIBLE", "QUEUED", None}

\* RULE 10.
Recommended(c) ==
    /\ Tier(c) \in {"CONFIDENT", "ADVISORY"}
    /\ c.insight.advice \in {"MEETING", "RESOURCE_DELIVERY", "IPBC_FOLLOWUP"}

\* RULE 8 to RULE 14: a student nothing excludes, by risk.
ByRisk(c) ==
    LET risk == ComputeRisk(c)
        intent == IF risk = "CRITICAL"          THEN Escalation(c, "CRITICAL")
                  ELSE IF risk = "HIGH"         THEN Escalation(c, "HIGH")
                  ELSE IF RetryEligible(c)      THEN Intent(c, "RETRY_OUTREACH")
                  ELSE IF Recommended(c)        THEN Intent(c, "RECOMMEND_INTERVENTION")
                  ELSE IF FirstContact(c)       THEN Intent(c, "INITIATE_OUTREACH")
                  ELSE Intent(c, "NO_ELIGIBLE_INTENT")
    IN  [intent EXCEPT !.risk = risk]

\* Faulty variant: the hold is asked for after the insight.
EvaluateHoldLate(c) ==
    IF ~Preconditions(c)            THEN Blocked(c)
    ELSE IF IsReplay(c)             THEN ReplayIntent(c)
    ELSE IF c.state = "CLOSED"      THEN Intent(c, "NO_ELIGIBLE_INTENT")
    ELSE IF c.access = "REVOKED"    THEN Escalation(c, "HIGH")
    ELSE IF c.access = "SUSPENDED"  THEN Intent(c, "NO_ELIGIBLE_INTENT")
    ELSE IF Tier(c) = "IN_FLIGHT" /\ c.type = "original" THEN Intent(c, "DEFER_PENDING_AI")
    ELSE IF c.hold                  THEN Escalation(c, "HIGH")
    ELSE IF Exhausted(c, MaxAttempts) THEN
             [Intent(c, "CLOSE_ORCHESTRATION") EXCEPT !.urgency = "MEDIUM"]
    ELSE ByRisk(c)

Evaluate(c) ==
    IF ~Preconditions(c)            THEN Blocked(c)
    ELSE IF IsReplay(c)             THEN ReplayIntent(c)
    ELSE IF c.state = "CLOSED"      THEN Intent(c, "NO_ELIGIBLE_INTENT")
    ELSE IF c.hold                  THEN Escalation(c, "HIGH")
    ELSE IF c.access = "REVOKED"    THEN Escalation(c, "HIGH")
    ELSE IF c.access = "SUSPENDED"  THEN Intent(c, "NO_ELIGIBLE_INTENT")
    ELSE IF Tier(c) = "IN_FLIGHT" /\ c.type = "original" THEN Intent(c, "DEFER_PENDING_AI")
    ELSE IF Exhausted(c, MaxAttempts) THEN
             [Intent(c, "CLOSE_ORCHESTRATION") EXCEPT !.urgency = "MEDIUM"]
    ELSE ByRisk(c)
=============================================================================
