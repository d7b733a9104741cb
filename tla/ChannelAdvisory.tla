--------------------------- MODULE ChannelAdvisory --------------------------
(***************************************************************************)
(* assess_channel_advisory (app/services/channel_selector.py): through     *)
(* which channels a student may be contacted, in which order.  Besides the *)
(* fields of Evidence a case has "line", the state of the channels:        *)
(*   opted_out, suspended   sets of channels                               *)
(*   health, failures       partial functions on channels                  *)
(*   prefers                the channel the insight names, or None         *)
(* and its facts may hold "engagement".                                    *)
(***************************************************************************)
EXTENDS Evidence, Sequences

AllChannels == <<"CALL", "SMS", "EMAIL">>
Channels    == {"CALL", "SMS", "EMAIL"}
Keys == {"outreach_initial_channel_preference", "channel_delivery_failure_suspension_threshold",
         "call_engagement_score_threshold", "sms_engagement_score_threshold",
         "email_engagement_score_threshold", "channel_specific_cooldown_hours",
         "ai_insight_ttl_hours", "channel_opt_out_respect_period_hours"}
Fields == {"correlation_id", "origin_source", "origin_authority", "actor_identity",
           "attribution_timestamp"}

Preconditions(c) ==
    /\ c.config # None
    /\ c.type = "original" => c.status = "ACTIVE"
    /\ c.mode \in {"SHADOW", "LIVE"}
    /\ c.absent \cap Fields = {}
    /\ c.type \in {"original", "replay", "regeneration"}
    /\ IsReplay(c) => "context" \in c.replay

\* The TTL is asked for first, and the age of the insight counts besides the flag.
Tier(c) ==
    IF c.insight.finalized                                      THEN "FINALIZED_COPY"
    ELSE IF "ai_insight_ttl_hours" \notin DOMAIN c.rules        THEN "UNAVAILABLE"
    ELSE IF c.insight.state \in {"AI_GENERATING", "AI_PENDING"} THEN "IN_FLIGHT"
    ELSE IF c.insight.state # "AI_REVIEWED"                     THEN "UNAVAILABLE"
    ELSE IF c.insight.stale = "yes" \/ c.insight.aged           THEN "STALE"
    ELSE ByScore(c.insight)

-----------------------------------------------------------------------------
(* The gates, each on the channels the one before left. *)

\* RULE 4: CALL and SMS need a phone number, EMAIL an address.
Reachable(c) == {ch \in Channels : IF ch = "EMAIL" THEN "email" \in c.contact
                                                   ELSE "phone" \in c.contact}
\* RULE 6.
Consenting(c) == Reachable(c) \ c.line.opted_out

\* RULE 7: an unknown provider counts as healthy.
Health(c, ch) == IF ch \in DOMAIN c.line.health THEN c.line.health[ch] ELSE "HEALTHY"
Working(c) == {ch \in Consenting(c) : Health(c, ch) # "UNAVAILABLE"} \ c.line.suspended

\* RULE 10: no count is no failure.
Failures(c, ch) == IF ch \in DOMAIN c.line.failures THEN c.line.failures[ch] ELSE 0
Failed(c) ==
    LET key == "channel_delivery_failure_suspension_threshold"
    IN  {ch \in Channels : key \in DOMAIN c.rules /\ Failures(c, ch) >= c.rules[key]}
\* Faulty variant: what has failed too often stays.
OpenDespiteFailures(c) == Working(c)
Open(c) == Working(c) \ Failed(c)

-----------------------------------------------------------------------------
(* The order: degraded channels last, then the channel the student answers *)
(* on, or the configured one, then the one the insight prefers.            *)

\* A channel of the list is taken out and inserted at its head.
ToFront(ch, seq) ==
    LET at == CHOOSE i \in DOMAIN seq : seq[i] = ch
    IN  [i \in DOMAIN seq |-> IF i = 1 THEN ch ELSE IF i <= at THEN seq[i - 1] ELSE seq[i]]

\* Those of a set of channels, in the order of AllChannels.
Kept(ch, set) == IF ch \in set THEN <<ch>> ELSE <<>>
Listed(set) ==
    Kept(AllChannels[1], set) \o (Kept(AllChannels[2], set) \o Kept(AllChannels[3], set))

DegradedLast(c) ==
    LET degraded == {ch \in Channels : Health(c, ch) = "DEGRADED"}
    IN  Listed(Open(c) \ degraded) \o Listed(Open(c) \cap degraded)

Engaged(c) ==
    LET reached(ch, key) == ch \in Open(c) /\ AtLeast(c, "engagement", key)
    IN  IF reached("CALL", "call_engagement_score_threshold")        THEN "CALL"
        ELSE IF reached("SMS", "sms_engagement_score_threshold")     THEN "SMS"
        ELSE IF reached("EMAIL", "email_engagement_score_threshold") THEN "EMAIL"
        ELSE None

Configured(c) ==
    LET key == "outreach_initial_channel_preference"
    IN  IF key \in DOMAIN c.rules /\ c.rules[key] \in Open(c) THEN c.rules[key] ELSE None

Prioritized(c) ==
    IF Engaged(c) # None         THEN ToFront(Engaged(c), DegradedLast(c))
    ELSE IF Configured(c) # None THEN ToFront(Configured(c), DegradedLast(c))
    ELSE DegradedLast(c)

\* RULE 12: an advisory insight does not overrule what the student answers on.
AiMoves(c) ==
    /\ ~IsReplay(c)
    /\ c.line.prefers \in Open(c)
    /\ Tier(c) = "CONFIDENT" \/ (Tier(c) = "ADVISORY" /\ Engaged(c) = None)

Candidates(c) ==
    IF AiMoves(c) THEN ToFront(c.line.prefers, Prioritized(c)) ELSE Prioritized(c)

Preferred == [CALL |-> "CALL_PREFERRED", SMS |-> "SMS_PREFERRED", EMAIL |-> "EMAIL_PREFERRED"]
DeliveryScopes == {"CALL_PREFERRED", "SMS_PREFERRED", "EMAIL_PREFERRED", "MULTI_CHANNEL_ELIGIBLE"}

-----------------------------------------------------------------------------
Advisory(scope, produced) ==
    [scope |-> scope, produced |-> produced, candidates |-> <<>>, blocked |-> FALSE,
     escalation |-> None, live |-> FALSE, governance |-> "SHADOW_ONLY"]

Blocked(c) == [Advisory("NONE", FALSE) EXCEPT !.blocked = TRUE]

\* emit_assessment
Emit(c, advisory) ==
    LET live == /\ advisory.produced /\ advisory.scope \in DeliveryScopes
                /\ c.mode = "LIVE" /\ ~IsReplay(c) /\ ~advisory.blocked
    IN  [advisory EXCEPT
            !.live = live,
            !.governance = IF IsReplay(c)      THEN "REPLAY_ONLY"
                           ELSE IF live        THEN "AUTHORIZED"
                           ELSE "SHADOW_ONLY"]

Escalated(scope, urgency) == [Advisory(scope, TRUE) EXCEPT !.escalation = urgency]

\* RULE 9.
ReplayAdmitted(c) == c.mode # "LIVE" /\ {"artifact", "fingerprint"} \subseteq c.replay

\* RULE 13.
Scope(c) ==
    IF IsReplay(c)      THEN "REPLAY_CHANNEL_CANDIDATE"
    ELSE IF Len(Candidates(c)) = 1 \/ Engaged(c) # None \/ AiMoves(c)
        THEN Preferred[Candidates(c)[1]]
    ELSE "MULTI_CHANNEL_ELIGIBLE"

\* RULE 8 asks for no channel left, which RULE 7 has answered already.
Advise(c) ==
    IF ~Preconditions(c)          THEN Blocked(c)
    ELSE IF c.state = "CLOSED"    THEN Emit(c, Advisory("NONE", FALSE))
    ELSE IF c.hold                THEN Emit(c, Escalated("NONE", "CRITICAL"))
    ELSE IF Reachable(c) = {}     THEN Emit(c, Advisory("NONE", FALSE))
    ELSE IF Consenting(c) = {}    THEN Emit(c, Escalated("CHANNEL_EXHAUSTED", "MEDIUM"))
    ELSE IF Working(c) = {}       THEN Emit(c, Escalated("CHANNEL_EXHAUSTED", "HIGH"))
    ELSE IF IsReplay(c) /\ ~ReplayAdmitted(c)
        THEN Emit(c, [Advisory("NONE", FALSE) EXCEPT !.blocked = TRUE])
    ELSE IF Open(c) = {}
        THEN Emit(c, Escalated(IF IsReplay(c) THEN "REPLAY_CHANNEL_CANDIDATE"
                               ELSE "CHANNEL_EXHAUSTED", "HIGH"))
    ELSE Emit(c, [Advisory(Scope(c), TRUE) EXCEPT !.candidates = Candidates(c)])
=============================================================================
