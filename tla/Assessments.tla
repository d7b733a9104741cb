---------------------------- MODULE Assessments -----------------------------
(***************************************************************************)
(* One student and one request, assessed by every engine in each state the *)
(* student gets into: the eligibility, decision, priority, channel and     *)
(* insight engines, the coordination of an outreach (outreach.py), the     *)
(* provider's gate (ghl.py) and the two heuristics of the pages.  The      *)
(* engines are functions that write nothing; each has thresholds, gates    *)
(* and a reading of the AI insight of its own, and the properties are      *)
(* about what they say of the same student.                                *)
(***************************************************************************)
EXTENDS Integers, Sequences

CONSTANTS
    Requests,     \* [mode, type, config, status, absent, replay, rules, key, maintenance]
    FactValues,   \* the values of each fact: fact -> set of numbers
    Nullable,     \* the facts SQL Server may have no value for
    Histories,    \* [escalations, trend]
    Standings,    \* [hold, access, contact, since]: since the last contact, in hours
    Outreaches,   \* [state, attempts, retry]
    InsightStates,\* [state, finalized, stale, aged, score, advice, model, breaker]
    Lines,        \* [opted_out, suspended, health, failures, prefers]
    Limits        \* the limits written into priority.py

E == INSTANCE Eligibility
D == INSTANCE DecisionEngine
P == INSTANCE Priority
H == INSTANCE ChannelAdvisory
A == INSTANCE InsightAdvisory
O == INSTANCE Coordination

\* The thresholds an engine compares a number with.
Thresholds == E!Keys \cup D!Keys \cup P!Keys \cup O!OutreachKeys

ASSUME AssessmentsAssumption ==
    /\ \A f \in DOMAIN FactValues : FactValues[f] \subseteq Int
    /\ \A s \in Standings : s.since \in Int
    /\ \A h \in Histories : h.escalations \in Int
    /\ \A o \in Outreaches : o.attempts \in Int
    /\ \A r \in Requests : \A k \in DOMAIN r.rules \cap Thresholds : r.rules[k] \in Int
    /\ Limits \in [{"hws_high", "hws_low", "idle_high", "idle_low", "effort"} -> Int]

VARIABLES request, facts, history, standing, outreach, insight, line
vars == <<request, facts, history, standing, outreach, insight, line>>

Case ==
    [mode |-> request.mode, type |-> request.type, config |-> request.config,
     status |-> request.status, absent |-> request.absent, replay |-> request.replay,
     rules |-> request.rules, key |-> request.key, maintenance |-> request.maintenance,
     facts |-> [f \in DOMAIN facts \cup {"since_contact"} |->
                   IF f = "since_contact" THEN standing.since ELSE facts[f]],
     escalations |-> history.escalations, trend |-> history.trend,
     hold |-> standing.hold, access |-> standing.access, contact |-> standing.contact,
     state |-> outreach.state, attempts |-> outreach.attempts, retry |-> outreach.retry,
     insight |-> insight, line |-> line]

\* The same case as the coordination and the provider are given it.
OutreachCase ==
    [mode |-> Case.mode, type |-> Case.type, config |-> Case.config, absent |-> Case.absent,
     key |-> Case.key, maintenance |-> Case.maintenance, hold |-> Case.hold,
     source |-> "artifact" \in Case.replay, lag |-> 0, rules |-> Case.rules,
     breaker |-> "CLOSED", state |-> Case.state, ai |-> D!Tier(Case),
     attempts |-> Case.attempts, outage |-> FALSE]

eligibility  == E!Assess(Case)
decision     == D!Evaluate(Case)
priority     == P!AssessPriority(Case, {})
advisory     == H!Advise(Case)
guidance     == A!AssessAi(Case, {})
coordination == O!CoordinateOutreach(OutreachCase, {})
dispatch     == O!ExecuteGhl(O!AssessProvider(OutreachCase, {}))

-----------------------------------------------------------------------------
(* What is known of the student changes between two evaluations, one thing *)
(* at a time: the nightly sync, an operator, a call, a generated insight.  *)

\* A value for each fact.
AnyFacts ==
    {g \in [DOMAIN FactValues -> UNION {FactValues[f] : f \in DOMAIN FactValues}] :
        \A f \in DOMAIN FactValues : g[f] \in FactValues[f]}

Init ==
    /\ request \in Requests
    /\ facts \in {g \in AnyFacts : \A f \in DOMAIN g : \A v \in FactValues[f] : g[f] <= v}
    /\ history \in Histories
    /\ standing \in Standings
    /\ outreach \in Outreaches
    /\ insight \in InsightStates
    /\ line \in Lines

SyncFact(f, v) ==
    /\ f \in DOMAIN facts /\ facts[f] # v
    /\ facts' = [facts EXCEPT ![f] = v]
    /\ UNCHANGED <<request, history, standing, outreach, insight, line>>

\* SQL Server has no value for a fact any more.
SyncNull(f) ==
    /\ DOMAIN facts = DOMAIN FactValues
    /\ facts' = [g \in DOMAIN facts \ {f} |-> facts[g]]
    /\ UNCHANGED <<request, history, standing, outreach, insight, line>>

Record(h) ==
    /\ history' = h /\ h # history
    /\ UNCHANGED <<request, facts, standing, outreach, insight, line>>

Restrict(s) ==
    /\ standing' = s /\ s # standing
    /\ UNCHANGED <<request, facts, history, outreach, insight, line>>

Contact(o) ==
    /\ outreach' = o /\ o # outreach
    /\ UNCHANGED <<request, facts, history, standing, insight, line>>

Advance(i) ==
    /\ insight' = i /\ i # insight
    /\ UNCHANGED <<request, facts, history, standing, outreach, line>>

Report(l) ==
    /\ line' = l /\ l # line
    /\ UNCHANGED <<request, facts, history, standing, outreach, insight>>

Next ==
    \/ \E f \in DOMAIN FactValues : \E v \in FactValues[f] : SyncFact(f, v)
    \/ \E f \in Nullable : SyncNull(f)
    \/ \E h \in Histories : Record(h)
    \/ \E s \in Standings : Restrict(s)
    \/ \E o \in Outreaches : Contact(o)
    \/ \E i \in InsightStates : Advance(i)
    \/ \E l \in Lines : Report(l)

Spec == Init /\ [][Next]_vars

-----------------------------------------------------------------------------
Known(level) == level \in {"LOW", "MEDIUM", "HIGH", "CRITICAL"}
AtLeastAsHigh(a, b) == Known(a) /\ Known(b) => P!Rank(a) >= P!Rank(b)

\* What every engine may answer; and one that blocks a case grants nothing with it
\* (the Blocked records of the engines).
TypeOK ==
    LET e == eligibility  d == decision  p == priority  a == advisory  g == guidance
    IN  /\ e.scope \in E!EligibleScopes \cup {"NONE"}
        /\ e.blocked => e.scope = "NONE" /\ ~e.live
        /\ d.scope \in {"AUTHORIZED", "SHADOW_ONLY", "REPLAY_ONLY", "UNAVAILABLE"}
        /\ d.blocked => d.scope \in {"REPLAY_ONLY", "UNAVAILABLE"}
        /\ Known(p.priority) \/ p.priority = "UNKNOWN"
        /\ p.blocked => p.priority = "UNKNOWN" /\ ~p.continues
        /\ a.scope \in H!DeliveryScopes \cup {"CHANNEL_EXHAUSTED", "REPLAY_CHANNEL_CANDIDATE",
                                              "NONE"}
        /\ a.blocked => ~a.live /\ a.candidates = <<>>
        /\ g.tier \in {"CONFIDENT", "ADVISORY", "STALE", "IN_FLIGHT", "UNAVAILABLE",
                       "FINALIZED_COPY"}
        /\ g.blocked => ~g.continues /\ g.suppressed

\* A compliance hold stops outreach in every engine (RULE 2 of each, in its own place in
\* each): nobody contacts, retries, recommends or waits for the insight, no channel is
\* offered, and the provider is not reached.
HoldAgreed ==
    standing.hold =>
        /\ eligibility.scope \in {"NONE", "ESCALATION_CANDIDATE"}
        /\ decision.intent \in {"ESCALATE_TO_OPERATOR", "NO_ELIGIBLE_INTENT"}
        /\ advisory.candidates = <<>> /\ ~advisory.live
        /\ coordination.continues => coordination.replay
        /\ dispatch \in {"blocked", "suppressed_replay"}

\* A replay has no effect on live outreach, whichever engine is asked and whatever mode
\* it is sent in (RULE 10 of eligibility.py, RULE 13 of decision_engine.py, RULE 2 of
\* priority.py, RULE 9 of channel_selector.py, RULE 2 of ai_insights.py, RULE 1 of ghl.py).
ReplayContained ==
    E!IsReplay(Case) =>
        /\ eligibility.scope \notin {"OUTREACH", "RETRY"} /\ ~eligibility.live
        /\ Case.mode = "LIVE" => eligibility.scope # "REPLAY_CANDIDATE"
        /\ decision.intent = "NO_ELIGIBLE_INTENT"
        /\ ~decision.blocked => decision.scope = "REPLAY_ONLY" /\ decision.mode = "SHADOW"
        /\ priority.priority = "UNKNOWN"
        /\ ~advisory.live
        /\ Case.mode = "LIVE" => advisory.candidates = <<>>
        /\ guidance.suppressed /\ guidance.recommended = "none" /\ ~guidance.snapshot
        /\ coordination.suppressed
        /\ dispatch \in {"blocked", "suppressed_replay"}

\* Two names of what spec/01_requirements.md:1669 and 1672 take for one threshold, and the
\* two ceilings on the attempts of an outreach: the values a configuration should give them.
EffortAliased ==
    \A r \in Requests :
        "avg_eff_rating_low_risk_threshold" \in DOMAIN r.rules =>
            /\ "avg_eff_rating_minimum_threshold" \in DOMAIN r.rules
            /\ r.rules["avg_eff_rating_low_risk_threshold"]
                   <= r.rules["avg_eff_rating_minimum_threshold"]
Ceilings == {"outreach_max_attempts", "outreach_max_retry_attempts"}
CeilingsOrdered ==
    \A r \in Requests :
        Ceilings \subseteq DOMAIN r.rules =>
            r.rules["outreach_max_retry_attempts"] <= r.rules["outreach_max_attempts"]

\* The decision stays within the scope the eligibility assessment gives the same student:
\* first contact in OUTREACH, a retry in RETRY, a student given up in no scope at all;
\* nor does the coordination retry a student the decision gives up.  (Reachable students
\* outside the exclusion window, which only eligibility.py asks for.)
IntentWithinScope ==
    request.type = "original" /\ standing.contact # {} /\ ~E!InExclusionWindow(Case) =>
        LET e == eligibility  d == decision  intent == d.intent
        IN  ~e.blocked /\ ~d.blocked =>
               /\ intent = "INITIATE_OUTREACH" => e.scope = "OUTREACH"
               /\ intent = "RETRY_OUTREACH" => e.scope = "RETRY"
               /\ intent = "DEFER_PENDING_AI" => e.scope = "PRIORITIZATION_ONLY"
               /\ intent = "CLOSE_ORCHESTRATION" => e.scope = "NONE"
               /\ intent = "CLOSE_ORCHESTRATION" /\ Ceilings \subseteq DOMAIN request.rules
                      => coordination.intent \notin {"INITIATE_OUTREACH", "RETRY_OUTREACH"}

\* Neither the eligibility nor the priority engine takes a student to be calmer than the
\* decision engine does, though each counts its own factors against its own thresholds
\* and applies the insight its own way (_compute_risk against RULE 9 and RULE 11, and
\* against RULE 6 to RULE 8) - provided they agree on how far the insight is to be trusted.
RisksOrdered ==
    LET risk == decision.risk
    IN  risk # "none" =>
           /\ P!ClassifyTier(Case) = D!Tier(Case) => AtLeastAsHigh(priority.priority, risk)
           /\ E!Tier(Case) = D!Tier(Case) =>
                  LET e == eligibility
                  IN  e.scope \in {"OUTREACH", "RETRY"} => AtLeastAsHigh(e.priority, risk)

\* All engines trust the same insights: with a TTL, and a staleness flag that tells the
\* truth about it, the four that are given the flag read an insight alike, and what
\* ai_insights.py lets recommend or be kept in a snapshot by its age alone is what they
\* trust, unless the circuit of the LLM is open (RULE 5 to RULE 10 of ai_insights.py
\* against _assess_ai_tier and _classify_ai_tier of the others).
Trust == {E!Tier(Case), D!Tier(Case), P!ClassifyTier(Case), H!Tier(Case)}
InsightTrustedAlike ==
    /\ ~guidance.blocked /\ request.type = "original"
    /\ "ai_insight_ttl_hours" \in DOMAIN request.rules
    /\ (insight.stale = "yes") = insight.aged
    => /\ \A a, b \in Trust : a = b
       /\ guidance.recommended # "none" \/ guidance.snapshot => "CONFIDENT" \in Trust
       /\ "CONFIDENT" \in Trust /\ insight.breaker # "OPEN"
             => guidance.recommended = insight.advice

\* A channel is offered if and only if nothing closes it, the insight's preference included:
\* moving a channel to the front neither adds nor loses one (RULE 4 to RULE 12).
Closed(ch) ==
    \/ ch # "EMAIL" /\ "phone" \notin Case.contact
    \/ ch = "EMAIL" /\ "email" \notin Case.contact
    \/ ch \in line.opted_out \cup line.suspended \cup H!Failed(Case)
    \/ ch \in DOMAIN line.health /\ line.health[ch] = "UNAVAILABLE"
OpenChannelsOnly ==
    LET offered == advisory.candidates
    IN  /\ \A i, j \in DOMAIN offered : offered[i] = offered[j] => i = j
        /\ offered # <<>> =>
               {offered[i] : i \in DOMAIN offered} = {ch \in H!Channels : ~Closed(ch)}

\* The two heuristics of the pages do not contradict each other: who is CRITICAL in the
\* work queue is not LOW on the student's page, who is HIGH there is not LOW in the queue
\* (score_student against risk_level_for_display).
DisplaysAgree ==
    LET queue == P!ScoreStudent(Case, Limits)
        page  == P!RiskLevelForDisplay(Case, Limits)
    IN  /\ queue = "CRITICAL" => page # "LOW"
        /\ page = "HIGH" => queue # "LOW"

\* Worse facts about the student, everything else as it was, never make any engine or page
\* calmer, and an escalation stays one: a fact that crosses a threshold leaves one set of
\* factors for the other, and the thresholds are compared with >= in one engine, > in another.
Worse ==
    /\ facts' # facts /\ DOMAIN facts' = DOMAIN facts
    /\ \A f \in DOMAIN facts : IF f = "effort" THEN facts'[f] <= facts[f]
                                                   ELSE facts'[f] >= facts[f]
    /\ UNCHANGED <<request, history, standing, outreach, insight, line>>
NeverCalmer(c, d) ==
    /\ AtLeastAsHigh(E!Assess(d).priority, E!Assess(c).priority)
    /\ AtLeastAsHigh(P!AssessPriority(d, {}).priority, P!AssessPriority(c, {}).priority)
    /\ AtLeastAsHigh(D!Evaluate(d).risk, D!Evaluate(c).risk)
    /\ AtLeastAsHigh(P!ScoreStudent(d, Limits), P!ScoreStudent(c, Limits))
    /\ AtLeastAsHigh(P!RiskLevelForDisplay(d, Limits), P!RiskLevelForDisplay(c, Limits))
    /\ D!Evaluate(c).intent = "ESCALATE_TO_OPERATOR" => D!Evaluate(d).intent = "ESCALATE_TO_OPERATOR"
WorseNeverCalmer == [][Worse => NeverCalmer(Case, Case')]_vars

\* eligibility.py says of a compliance hold that it never permits live outreach
\* (RULE 2 sets live_outreach_permitted to False).
HoldNeverLive == Case.hold => ~eligibility.live
=============================================================================
