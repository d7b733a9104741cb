---------------------------- MODULE MCAssessments ---------------------------
(* Instances of Assessments.  Thresholds are scaled down: homework 1 and 2, *)
(* inactivity 1 and 2, effort 1, balance 0, two attempts.                   *)
EXTENDS Assessments, TLC

Each(keys, value) == [k \in keys |-> value]

ShortKeys == {"hws_behind_minimum_threshold", "hws_behind_moderate_threshold",
              "last_activity_max_days", "last_activity_moderate_days",
              "avg_eff_rating_minimum_threshold", "avg_eff_rating_low_risk_threshold",
              "prior_escalation_repeat_threshold"}
AllRules ==
    Each(ShortKeys, 1) @@ Each({"payment_balance_risk_threshold"}, 0)
    @@ Each(E!Keys \cup D!Keys \cup P!Keys \cup O!OutreachKeys, 2)
ChannelRules ==
    [outreach_initial_channel_preference |-> "EMAIL",
     channel_delivery_failure_suspension_threshold |-> 2, ai_llm_provider |-> "llm"]

Original ==
    [mode |-> "LIVE", type |-> "original", config |-> "1", status |-> "ACTIVE", absent |-> {},
     replay |-> {}, rules |-> ChannelRules @@ AllRules, key |-> "k", maintenance |-> FALSE]

\* Version 2 lacks the TTL, the ceiling and a threshold.
Lacking == {"ai_insight_ttl_hours", "outreach_max_attempts", "last_activity_moderate_days"}
Rules2 == <<>> @@ [k \in DOMAIN AllRules \ Lacking |-> AllRules[k]]
Replay == [Original EXCEPT !.mode = "SHADOW", !.type = "replay", !.status = "SUPERSEDED",
                           !.replay = {"context", "artifact", "fingerprint", "versions"}]

\* A live request, one in the shadow, one under version 2, one without attribution, a
\* recovery; a replay, one sent in LIVE mode, one without its artifact in maintenance.
MCRequests ==
    {Original,
     [Original EXCEPT !.mode = "SHADOW"],
     [Original EXCEPT !.config = "2", !.rules = Rules2],
     [Original EXCEPT !.absent = {"attribution_timestamp"}],
     [Original EXCEPT !.type = "recovery"],
     Replay,
     [Replay EXCEPT !.mode = "LIVE"],
     [Replay EXCEPT !.replay = {"context", "fingerprint"}, !.maintenance = TRUE]}

MCFactValues == [hws |-> 0..2, inactivity |-> {0, 2, 3}, effort |-> {0, 1}]

MCHistories == {[escalations |-> 0, trend |-> "STABLE"], [escalations |-> 1, trend |-> "DECLINING"]}

\* Free to be contacted; held; revoked; in the exclusion window, without a telephone;
\* suspended, without any contact data.
Free == [hold |-> FALSE, access |-> "ACTIVE", contact |-> {"phone", "email"}, since |-> 2]
MCStandings ==
    {Free, [Free EXCEPT !.hold = TRUE], [Free EXCEPT !.access = "REVOKED"],
     [Free EXCEPT !.contact = {"email"}, !.since = 1],
     [Free EXCEPT !.contact = {}, !.access = "SUSPENDED"]}

MCOutreaches ==
    {[state |-> "none", attempts |-> 0, retry |-> FALSE],
     [state |-> "NO_RESPONSE", attempts |-> 1, retry |-> TRUE],
     [state |-> "NO_RESPONSE", attempts |-> 2, retry |-> TRUE],
     [state |-> "INTERVENTION_REQUIRED", attempts |-> 2, retry |-> FALSE],
     [state |-> "CLOSED", attempts |-> 1, retry |-> FALSE]}

Reviewed == [state |-> "AI_REVIEWED", finalized |-> FALSE, stale |-> "no", aged |-> FALSE,
             score |-> 70, advice |-> "ESCALATE", model |-> "llm", breaker |-> "CLOSED"]
MCInsights ==
    {[Reviewed EXCEPT !.state = "none"], [Reviewed EXCEPT !.state = "AI_GENERATING"],
     Reviewed, [Reviewed EXCEPT !.advice = "MEETING", !.breaker = "OPEN"],
     [Reviewed EXCEPT !.score = 69, !.model = "other"],
     [Reviewed EXCEPT !.stale = "yes", !.aged = TRUE]}

Fine == [opted_out |-> {}, suspended |-> {}, health |-> <<>>, failures |-> <<>>,
         prefers |-> "none"]
MCLines ==
    {Fine,
     [Fine EXCEPT !.opted_out = {"SMS"}, !.health = [CALL |-> "DEGRADED", EMAIL |-> "HEALTHY"],
                  !.prefers = "CALL"],
     [Fine EXCEPT !.suspended = {"SMS"}, !.failures = [CALL |-> 2], !.prefers = "SMS"]}

ASSUME ThresholdsAgree == EffortAliased /\ CeilingsOrdered

MCLimits == [hws_high |-> 2, hws_low |-> 1, idle_high |-> 2, idle_low |-> 1, effort |-> 1]
=============================================================================
