--------------------------- MODULE InsightAdvisory ---------------------------
(***************************************************************************)
(* assess_ai_orchestration (app/services/ai_insights.py): how far the      *)
(* insight of a student may be used, and whether a snapshot may keep it.   *)
(* It goes by the age of the insight and does not read the staleness flag  *)
(* the other engines are given.  "seen" are the keys held in memory.       *)
(***************************************************************************)
EXTENDS Evidence

Keys == {"ai_insight_ttl_hours", "ai_llm_provider"}
Fields == {"correlation_id", "origin_source", "origin_authority", "actor_identity"}
Types == {"original", "replay", "regeneration"}
InFlight == {"AI_PENDING", "AI_GENERATING", "AI_QUEUED"}

PreconditionGate(c, seen) ==
    /\ c.mode \in {"SHADOW", "LIVE"}
    /\ c.type \in Types
    /\ c.config # None
    /\ c.absent \cap Fields = {}
    /\ c.key \notin seen

Assessment(tier, scope, outcome) ==
    [tier |-> tier, scope |-> scope, outcome |-> outcome, suppressed |-> TRUE,
     recommended |-> None, snapshot |-> FALSE, blocked |-> FALSE, continues |-> TRUE,
     finalized |-> FALSE]

BlockedAssessment ==
    [Assessment("UNAVAILABLE", "UNAVAILABLE", "failure") EXCEPT
        !.blocked = TRUE, !.continues = FALSE]
FinalizedCopy ==
    [Assessment("FINALIZED_COPY", "IMMUTABLE", "success") EXCEPT !.finalized = TRUE]
ReplayAssessment(c) ==
    IF "artifact" \in c.replay THEN FinalizedCopy
    ELSE Assessment("UNAVAILABLE", "UNAVAILABLE", "degraded")
InFlightAssessment ==
    [Assessment("IN_FLIGHT", "DEFERRED", "deferred") EXCEPT !.suppressed = FALSE]
UnavailableAssessment == Assessment("UNAVAILABLE", "UNAVAILABLE", "degraded")

\* RULE 5.  Without a TTL no insight is stale.
\* Faulty variant: nor is it with one.
TierWithoutAge(c) == ByScore(c.insight)
Tier(c) ==
    IF "ai_insight_ttl_hours" \in DOMAIN c.rules /\ c.insight.aged THEN "STALE"
    ELSE ByScore(c.insight)

ProviderDivergence(c) ==
    /\ c.insight.model # None
    /\ "ai_llm_provider" \in DOMAIN c.rules
    /\ c.insight.model # c.rules["ai_llm_provider"]

\* RULE 10; the insight has been reviewed and the request is an original.
EligibleForSnapshot(c) == Tier(c) = "CONFIDENT" /\ ~ProviderDivergence(c) /\ ~c.hold

\* RULE 6 to RULE 11: only an insight to be trusted recommends anything.
Advice(c) ==
    [Assessment(Tier(c), IF Tier(c) = "CONFIDENT" THEN "FULL" ELSE "LIMITED",
                IF Keys \subseteq DOMAIN c.rules THEN "success" ELSE "degraded") EXCEPT
        !.suppressed = FALSE,
        !.recommended = IF Tier(c) = "CONFIDENT" THEN c.insight.advice ELSE None,
        !.snapshot = EligibleForSnapshot(c)]

AssessAi(c, seen) ==
    IF ~PreconditionGate(c, seen)               THEN BlockedAssessment
    ELSE IF c.insight.finalized                 THEN FinalizedCopy
    ELSE IF IsReplay(c)                         THEN ReplayAssessment(c)
    ELSE IF c.insight.state \in InFlight        THEN InFlightAssessment
    ELSE IF c.insight.state # "AI_REVIEWED"     THEN UnavailableAssessment
    ELSE IF c.insight.breaker = "OPEN"          THEN UnavailableAssessment
    ELSE Advice(c)
=============================================================================
