----------------------------- MODULE RiskProofs -----------------------------
(***************************************************************************)
(* How urgent the engines of Assessments take a student to be, against     *)
(* each other and when the facts get worse, for all thresholds.  Each      *)
(* counts high and medium factors; the argument is that Weigh is monotone  *)
(* in both, with a factor allowed to move from medium to high, and that    *)
(* the factors of one engine are among those of another.                   *)
(***************************************************************************)
EXTENDS Assessments, TLAPS

-----------------------------------------------------------------------------
(* The scale *)

\* The four levels in their order, and what one step up from each is (_upgrade_risk in
\* eligibility.py and priority.py).
LEMMA Ranks ==
    /\ P!Rank("LOW") = 1 /\ P!Rank("MEDIUM") = 2 /\ P!Rank("HIGH") = 3 /\ P!Rank("CRITICAL") = 4
    /\ P!Upgrade("LOW") = "MEDIUM" /\ P!Upgrade("MEDIUM") = "HIGH"
    /\ P!Upgrade("HIGH") = "CRITICAL" /\ P!Upgrade("CRITICAL") = "CRITICAL"
<1>1. P!Levels[1] = "LOW" /\ P!Levels[2] = "MEDIUM" /\ P!Levels[3] = "HIGH"
      /\ P!Levels[4] = "CRITICAL"
  BY DEF P!Levels
<1>2. \A i \in 1 .. 4 : i = 1 \/ i = 2 \/ i = 3 \/ i = 4
  OBVIOUS
<1>3. P!Rank("LOW") = 1
  BY <1>1, <1>2 DEF P!Rank
<1>4. P!Rank("MEDIUM") = 2
  BY <1>1, <1>2 DEF P!Rank
<1>5. P!Rank("HIGH") = 3
  BY <1>1, <1>2 DEF P!Rank
<1>6. P!Rank("CRITICAL") = 4
  BY <1>1, <1>2 DEF P!Rank
<1>. QED
  BY <1>1, <1>3, <1>4, <1>5, <1>6 DEF P!Upgrade

\* The engines weigh and rank alike.
LEMMA SameScale ==
    /\ \A high, medium : E!Weigh(high, medium) = P!Weigh(high, medium)
    /\ \A high, medium : D!Weigh(high, medium) = P!Weigh(high, medium)
    /\ \A level : E!Upgrade(level) = P!Upgrade(level)
<1>1. ASSUME NEW high, NEW medium
      PROVE  E!Weigh(high, medium) = P!Weigh(high, medium)
  BY DEF E!Weigh, P!Weigh, E!Several, P!Several
<1>2. ASSUME NEW high, NEW medium
      PROVE  D!Weigh(high, medium) = P!Weigh(high, medium)
  BY DEF D!Weigh, P!Weigh, D!Several, P!Several
<1>3. ASSUME NEW level
      PROVE  E!Upgrade(level) = P!Upgrade(level)
  BY DEF E!Upgrade, P!Upgrade, E!Levels, P!Levels, E!Rank, P!Rank
<1>. QED
  BY <1>1, <1>2, <1>3

\* The four answers of Weigh, which every engine gives the same way.
LEMMA Weighing ==
    ASSUME NEW high, NEW medium
    PROVE  LET two == P!Several(high)
               risk == P!Weigh(high, medium)
           IN  \/ two /\ risk = "CRITICAL"
               \/ ~two /\ high # {} /\ medium # {} /\ risk = "HIGH"
               \/ ~two /\ (high = {} \/ medium = {}) /\ (high # {} \/ medium # {})
                       /\ risk = "MEDIUM"
               \/ ~two /\ high = {} /\ medium = {} /\ risk = "LOW"
BY DEF P!Weigh

\* A weight is one of the four levels.
LEMMA Weights ==
    ASSUME NEW high, NEW medium
    PROVE  Known(P!Weigh(high, medium))
BY DEF P!Weigh, Known

\* A step up keeps the order of two levels.
LEMMA Upgrades ==
    ASSUME NEW a, NEW b, Known(a), Known(b), P!Rank(a) >= P!Rank(b)
    PROVE  /\ Known(P!Upgrade(a)) /\ P!Rank(P!Upgrade(a)) >= P!Rank(a)
           /\ P!Rank(P!Upgrade(a)) >= P!Rank(P!Upgrade(b))
BY Ranks DEF Known

\* With more high factors, and no factor lost, a student is not weighed lighter: a medium
\* factor may have become a high one.
LEMMA WeighMonotone ==
    ASSUME NEW high, NEW medium, NEW more, NEW other,
           high \subseteq more, medium \subseteq more \cup other, high \cap medium = {}
    PROVE  P!Rank(P!Weigh(more, other)) >= P!Rank(P!Weigh(high, medium))
<1>. DEFINE before == P!Weigh(high, medium)
            after == P!Weigh(more, other)
<1>2. CASE P!Several(high)
  <2>1. P!Several(more)
    BY <1>2 DEF P!Several
  <2>. QED
    BY <1>2, <2>1, Weighing, Ranks
<1>3. CASE high # {} /\ medium # {} /\ before = "HIGH"
  <2>1. PICK x \in high, y \in medium : TRUE
    BY <1>3
  <2>2. y \in other \/ P!Several(more)
    BY DEF P!Several
  <2>3. more # {} /\ (other # {} \/ P!Several(more))
    BY <2>1, <2>2
  <2>4. after \in {"HIGH", "CRITICAL"}
    BY <2>3, Weighing
  <2>. QED
    BY <1>3, <2>4, Ranks
<1>4. CASE (high # {} \/ medium # {}) /\ before = "MEDIUM"
  <2>1. more # {} \/ other # {}
    BY <1>4
  <2>2. after \in {"MEDIUM", "HIGH", "CRITICAL"}
    BY <2>1, Weighing
  <2>. QED
    BY <1>4, <2>2, Ranks
<1>5. CASE before = "LOW"
  <2>1. after \in {"LOW", "MEDIUM", "HIGH", "CRITICAL"}
    BY Weighing
  <2>. QED
    BY <1>5, <2>1, Ranks
<1>. QED
  BY <1>2, <1>3, <1>4, <1>5, Weighing

\* One medium factor more makes a risk at most one level higher.
LEMMA OneFactor ==
    ASSUME NEW high, NEW medium, NEW x
    PROVE  P!Rank(P!Upgrade(P!Weigh(high, medium))) >= P!Rank(P!Weigh(high, medium \cup {x}))
<1>1. CASE P!Several(high)
  BY <1>1, Ranks DEF P!Weigh
<1>2. CASE ~(P!Several(high)) /\ high # {}
  BY <1>2, Ranks DEF P!Weigh
<1>3. CASE ~(P!Several(high)) /\ high = {}
  BY <1>3, Ranks DEF P!Weigh
<1>. QED
  BY <1>1, <1>2, <1>3

\* What is compared in a case are numbers.
Numbers(c) ==
    /\ \A f \in DOMAIN c.facts : c.facts[f] \in Int
    /\ \A k \in DOMAIN c.rules \cap Thresholds : c.rules[k] \in Int
    /\ c.escalations \in Int /\ c.attempts \in Int

\* With numbers to compare, the engines hold a fact against a threshold alike, and what is
\* above it is at least at it.
LEMMA Comparisons ==
    ASSUME NEW c, Numbers(c), NEW f, NEW k \in Thresholds
    PROVE  /\ E!AtLeast(c, f, k) <=> P!AtLeast(c, f, k)
           /\ D!AtLeast(c, f, k) <=> P!AtLeast(c, f, k)
           /\ D!Above(c, f, k) <=> P!Above(c, f, k)
           /\ E!Above(c, f, k) <=> P!Above(c, f, k)
           /\ D!Below(c, f, k) <=> P!Below(c, f, k)
           /\ E!Recurs(c, k) <=> P!Recurs(c, k)
           /\ D!Recurs(c, k) <=> P!Recurs(c, k)
           /\ P!Above(c, f, k) => P!AtLeast(c, f, k)
BY DEF Numbers, E!AtLeast, D!AtLeast, P!AtLeast, D!Above, E!Above, P!Above, D!Below, P!Below,
       E!Recurs, D!Recurs, P!Recurs, E!Known, D!Known, P!Known

\* What the lemmas below compare with is in Thresholds.
LEMMA Keys ==
    {"hws_behind_high_risk_threshold", "last_activity_high_risk_days",
     "prior_escalation_repeat_threshold", "avg_eff_rating_low_risk_threshold",
     "payment_balance_risk_threshold", "avg_eff_rating_minimum_threshold",
     "outreach_max_attempts", "outreach_max_retry_attempts"} \subseteq Thresholds
BY DEF Thresholds, E!Keys, D!Keys, P!Keys, O!OutreachKeys

\* No factor is high and medium at once in decision_engine.py.
LEMMA DecisionFactors ==
    ASSUME NEW c
    PROVE  D!HighFactors(c) \cap D!MediumFactors(c) = {}
BY DEF D!HighFactors, D!MediumFactors, D!Factor, D!Advised

\* decision_engine.py: a risk is computed only after RULE 6, for a request that is neither a
\* replay nor waiting for the insight.
LEMMA RiskComputed ==
    ASSUME NEW c, D!Evaluate(c).risk # "none"
    PROVE  /\ D!Evaluate(c).risk = D!ComputeRisk(c)
           /\ ~D!IsReplay(c) /\ ~(D!Tier(c) = "IN_FLIGHT" /\ c.type = "original")
BY DEF D!Evaluate, D!ByRisk, D!Intent, D!Escalation, D!Blocked, D!ReplayIntent, D!None

\* priority.py counts all the factors decision_engine.py counts, and its adjustment for the
\* insight only raises the result (RULE 6 to RULE 8 against RULE 7).
LEMMA PriorityNotCalmer ==
    ASSUME NEW c, Numbers(c), P!ClassifyTier(c) = D!Tier(c),
           Known(P!AssessPriority(c, {}).priority)
    PROVE  P!Rank(P!AssessPriority(c, {}).priority) >= P!Rank(D!ComputeRisk(c))
<1>. DEFINE weight == P!AggregatePriority(c)
<1>1. P!AssessPriority(c, {}).priority = P!AiAdjustment(c, weight)
  BY DEF P!AssessPriority, P!BlockedRecord, P!MaintenanceRecord, P!ReplayRecord, P!Scored,
         P!Record, Known
<1>2. D!HighFactors(c) \subseteq P!HighFactors(c)
  BY Comparisons, Keys DEF D!HighFactors, P!HighFactors, D!Factor, P!Factor, D!Advised, P!Advised
<1>3. D!MediumFactors(c) \subseteq P!HighFactors(c) \cup P!MediumFactors(c)
  BY Comparisons, Keys DEF D!MediumFactors, P!MediumFactors, D!Factor, P!Factor, D!Advised,
     P!Advised
<1>4. P!Rank(weight) >= P!Rank(D!ComputeRisk(c))
  BY <1>2, <1>3, DecisionFactors, WeighMonotone, SameScale
     DEF D!ComputeRisk, P!AggregatePriority
<1>5. Known(weight) /\ Known(D!ComputeRisk(c))
  BY Weights, SameScale DEF P!AggregatePriority, D!ComputeRisk
<1>6. P!AiAdjustment(c, weight) \in {weight, P!Upgrade(weight), "CRITICAL"}
  BY DEF P!AiAdjustment
<1>. HIDE DEF weight
<1>. QED
  BY <1>1, <1>4, <1>5, <1>6, Ranks DEF Known

\* EffortAliased, of one case.
Aliased(c) ==
    "avg_eff_rating_low_risk_threshold" \in DOMAIN c.rules =>
        /\ "avg_eff_rating_minimum_threshold" \in DOMAIN c.rules
        /\ c.rules["avg_eff_rating_low_risk_threshold"]
               <= c.rules["avg_eff_rating_minimum_threshold"]

\* An effort that is low for decision_engine.py is low for eligibility.py, which names its
\* threshold differently.
LEMMA EffortSeen ==
    ASSUME NEW c, Numbers(c), Aliased(c),
           D!Below(c, "effort", "avg_eff_rating_low_risk_threshold")
    PROVE  E!Below(c, "effort", "avg_eff_rating_minimum_threshold")
<1>. DEFINE low == "avg_eff_rating_low_risk_threshold"
            least == "avg_eff_rating_minimum_threshold"
<1>1. /\ "effort" \in DOMAIN c.facts /\ low \in DOMAIN c.rules
      /\ c.facts["effort"] < c.rules[low]
  BY DEF D!Below, D!Known
<1>2. least \in DOMAIN c.rules /\ c.rules[low] <= c.rules[least]
  BY <1>1 DEF Aliased
<1>3. c.facts["effort"] \in Int /\ c.rules[low] \in Int /\ c.rules[least] \in Int
  BY <1>1, <1>2, Keys DEF Numbers
<1>4. c.facts["effort"] < c.rules[least]
  BY <1>1, <1>2, <1>3
<1>. QED
  BY <1>1, <1>2, <1>4 DEF E!Below, E!Known

\* eligibility.py counts every factor of decision_engine.py but the insight's advice, and
\* RULE 11 makes up for that: a trusted ESCALATE is critical, an advisory one a step up.
LEMMA EligibilityNotCalmer ==
    ASSUME NEW c, Numbers(c), Aliased(c), E!Tier(c) = D!Tier(c),
           E!Assess(c).scope \in {"OUTREACH", "RETRY"}
    PROVE  P!Rank(E!Assess(c).priority) >= P!Rank(D!ComputeRisk(c))
<1>. DEFINE weight == E!Risk(c)
            high == D!HighFactors(c) \ {"ai"}
            medium == D!MediumFactors(c) \ {"ai"}
<1>1. E!Assess(c).priority = E!Adjusted(c, E!TierUsed(c), weight)
  BY DEF E!Assess, E!Blocked, E!Emit, E!Assessment, E!Considered, E!ContactScope
<1>2. E!TierUsed(c) = D!Tier(c) \/ E!TierUsed(c) = "STALE"
  BY DEF E!TierUsed
<1>3. D!Tier(c) \in {"CONFIDENT", "ADVISORY"} => E!TierUsed(c) = D!Tier(c)
  BY DEF E!TierUsed
<1>4. high \subseteq E!HighFactors(c)
  BY Comparisons, Keys DEF D!HighFactors, E!HighFactors, D!Factor, E!Factor
<1>5. medium \subseteq E!HighFactors(c) \cup E!MediumFactors(c)
  BY Comparisons, EffortSeen, Keys DEF D!MediumFactors, E!MediumFactors, D!Factor, E!Factor
<1>6. P!Rank(weight) >= P!Rank(P!Weigh(high, medium))
  BY <1>4, <1>5, DecisionFactors, WeighMonotone, SameScale DEF E!Risk
<1>7. Known(weight) /\ Known(P!Weigh(high, medium)) /\ Known(D!ComputeRisk(c))
  BY Weights, SameScale DEF E!Risk, D!ComputeRisk
<1>8. CASE D!Advised(c, "CONFIDENT", "ESCALATE")
  <2>1. E!Adjusted(c, E!TierUsed(c), weight) = "CRITICAL"
    BY <1>3, <1>8 DEF D!Advised, E!Adjusted
  <2>. QED
    BY <1>1, <1>7, <2>1, Ranks DEF Known
<1>9. CASE D!Advised(c, "ADVISORY", "ESCALATE")
  <2>1. E!Adjusted(c, E!TierUsed(c), weight) = P!Upgrade(weight)
    BY <1>3, <1>9, SameScale DEF D!Advised, E!Adjusted
  <2>2. D!HighFactors(c) = high /\ D!MediumFactors(c) = medium \cup {"ai"}
    BY <1>9 DEF D!HighFactors, D!MediumFactors, D!Factor, D!Advised
  <2>3. D!ComputeRisk(c) = P!Weigh(high, medium \cup {"ai"})
    BY <2>2, SameScale DEF D!ComputeRisk
  <2>4. P!Rank(P!Upgrade(P!Weigh(high, medium))) >= P!Rank(D!ComputeRisk(c))
    BY <2>3, OneFactor
  <2>. HIDE DEF weight, high, medium
  <2>5. P!Rank(P!Upgrade(weight)) >= P!Rank(P!Upgrade(P!Weigh(high, medium)))
    BY <1>6, <1>7, Upgrades
  <2>6. Known(P!Upgrade(weight)) /\ Known(P!Upgrade(P!Weigh(high, medium)))
    BY <1>7, Ranks DEF Known
  <2>. QED
    BY <1>1, <1>7, <2>1, <2>4, <2>5, <2>6, Ranks DEF Known
<1>10. CASE ~D!Advised(c, "CONFIDENT", "ESCALATE") /\ ~D!Advised(c, "ADVISORY", "ESCALATE")
  <2>1. D!HighFactors(c) = high /\ D!MediumFactors(c) = medium
    BY <1>10 DEF D!HighFactors, D!MediumFactors, D!Factor
  <2>2. D!ComputeRisk(c) = P!Weigh(high, medium)
    BY <2>1, SameScale DEF D!ComputeRisk
  <2>3. E!Adjusted(c, E!TierUsed(c), weight) \in {weight, P!Upgrade(weight), "CRITICAL"}
    BY SameScale DEF E!Adjusted
  <2>. HIDE DEF weight, high, medium
  <2>. QED
    BY <1>1, <1>6, <1>7, <2>2, <2>3, Ranks DEF Known
<1>. QED
  BY <1>8, <1>9, <1>10

-----------------------------------------------------------------------------
(* The cases that arise *)

\* Everything is drawn from the sets of the instance.
Drawn ==
    /\ request \in Requests /\ history \in Histories /\ standing \in Standings
    /\ outreach \in Outreaches
    /\ DOMAIN facts \subseteq DOMAIN FactValues
    /\ \A f \in DOMAIN facts : facts[f] \in FactValues[f]

\* Every step draws what it changes from the set it comes from.
LEMMA DrawnAlways == Spec => []Drawn
<1>1. Init => Drawn
  BY DEF Init, Drawn, AnyFacts
<1>2. Drawn /\ [Next]_vars => Drawn'
  <2>. SUFFICES ASSUME Drawn, [Next]_vars PROVE Drawn'
    OBVIOUS
  <2>1. ASSUME NEW f \in DOMAIN FactValues, NEW v \in FactValues[f], SyncFact(f, v)
        PROVE  Drawn'
    BY <2>1 DEF SyncFact, Drawn
  <2>2. ASSUME NEW f \in Nullable, SyncNull(f)
        PROVE  Drawn'
    BY <2>2 DEF SyncNull, Drawn
  <2>3. ASSUME NEW h \in Histories, Record(h)
        PROVE  Drawn'
    BY <2>3 DEF Record, Drawn
  <2>4. ASSUME NEW s \in Standings, Restrict(s)
        PROVE  Drawn'
    BY <2>4 DEF Restrict, Drawn
  <2>5. ASSUME NEW o \in Outreaches, Contact(o)
        PROVE  Drawn'
    BY <2>5 DEF Contact, Drawn
  <2>6. ASSUME NEW i \in InsightStates, Advance(i)
        PROVE  Drawn'
    BY <2>6 DEF Advance, Drawn
  <2>7. ASSUME NEW l \in Lines, Report(l)
        PROVE  Drawn'
    BY <2>7 DEF Report, Drawn
  <2>8. CASE UNCHANGED vars
    BY <2>8 DEF vars, Drawn
  <2>. QED
    BY <2>1, <2>2, <2>3, <2>4, <2>5, <2>6, <2>7, <2>8 DEF Next
<1>. QED
  BY <1>1, <1>2, PTL DEF Spec

\* What the engines compare are numbers.
LEMMA CaseNumbers == Drawn => Numbers(Case)
<1>. SUFFICES ASSUME Drawn PROVE Numbers(Case)
  OBVIOUS
<1>1. \A f \in DOMAIN facts : facts[f] \in Int
  BY AssessmentsAssumption DEF Drawn
<1>2. standing.since \in Int /\ history.escalations \in Int /\ outreach.attempts \in Int
  BY AssessmentsAssumption DEF Drawn
<1>3. \A k \in DOMAIN request.rules \cap Thresholds : request.rules[k] \in Int
  BY AssessmentsAssumption DEF Drawn
<1>4. /\ Case.rules = request.rules /\ Case.escalations = history.escalations
      /\ Case.attempts = outreach.attempts
      /\ Case.facts = [f \in DOMAIN facts \cup {"since_contact"} |->
                          IF f = "since_contact" THEN standing.since ELSE facts[f]]
  BY DEF Case
<1>5. \A f \in DOMAIN Case.facts : Case.facts[f] \in Int
  BY <1>1, <1>2, <1>4
<1>. QED
  BY <1>2, <1>3, <1>4, <1>5 DEF Numbers

-----------------------------------------------------------------------------
(* The engines against each other *)

\* No engine is calmer than decision_engine.py about a student, for any thresholds, as long as
\* the two names of the effort threshold are given values in step.
THEOREM RisksInOrder == EffortAliased /\ Spec => []RisksOrdered
<1>. SUFFICES ASSUME EffortAliased PROVE Spec => []RisksOrdered
  OBVIOUS
<1>1. Drawn => RisksOrdered
  <2>. SUFFICES ASSUME Drawn, decision.risk # "none" PROVE RisksOrdered
    BY DEF RisksOrdered
  <2>1. Numbers(Case)
    BY CaseNumbers
  <2>2. Aliased(Case)
    BY DEF Aliased, EffortAliased, Drawn, Case
  <2>3. decision.risk = D!ComputeRisk(Case)
    BY RiskComputed DEF decision
  <2>. QED
    BY <2>1, <2>2, <2>3, PriorityNotCalmer, EligibilityNotCalmer
       DEF RisksOrdered, AtLeastAsHigh, priority, eligibility
<1>. QED
  BY <1>1, DrawnAlways, PTL

-----------------------------------------------------------------------------
(* The decision within the scope *)

\* RULE 3 to RULE 8 of eligibility.py and of decision_engine.py exclude the same students,
\* and read the attempts against the same ceiling.
LEMMA ScopeOfIntent ==
    ASSUME NEW c, c.type = "original", c.contact # {}, ~E!InExclusionWindow(c), Numbers(c),
           ~E!Assess(c).blocked, ~D!Evaluate(c).blocked
    PROVE  LET scope == E!Assess(c).scope
               intent == D!Evaluate(c).intent
           IN  /\ intent = "INITIATE_OUTREACH" => scope = "OUTREACH"
               /\ intent = "RETRY_OUTREACH" => scope = "RETRY"
               /\ intent = "DEFER_PENDING_AI" => scope = "PRIORITIZATION_ONLY"
               /\ intent = "CLOSE_ORCHESTRATION" =>
                      scope = "NONE" /\ D!Exhausted(c, "outreach_max_attempts")
<1>. DEFINE intent == D!Evaluate(c).intent
            scope == E!Assess(c).scope
<1>1. ~D!IsReplay(c) /\ ~E!IsReplay(c)
  BY DEF D!IsReplay, E!IsReplay, D!ReplayTypes, E!ReplayTypes
<1>2. D!Preconditions(c) /\ E!Preconditions(c)
  BY DEF D!Evaluate, D!Blocked, D!Intent, E!Assess, E!Blocked, E!Assessment
<1>3. D!Tier(c) = "IN_FLIGHT" <=> E!Tier(c) = "IN_FLIGHT"
  BY DEF D!Tier, E!Tier, D!ByScore, E!ByScore
<1>4. D!Exhausted(c, "outreach_max_attempts") <=> E!AttemptsExhausted(c)
  BY DEF E!AttemptsExhausted, E!Exhausted, D!Exhausted
<1>5. ASSUME NEW s, NEW p, NEW t PROVE E!Emit(c, s, p, t).scope = s
  BY DEF E!Emit, E!Assessment
<1>6. ASSUME NEW s, NEW t PROVE E!Considered(c, s, t).scope = s
  BY <1>5 DEF E!Considered
<1>7. D!ByRisk(c).intent \in {"ESCALATE_TO_OPERATOR", "RETRY_OUTREACH",
          "RECOMMEND_INTERVENTION", "INITIATE_OUTREACH", "NO_ELIGIBLE_INTENT"}
      /\ (D!ByRisk(c).intent = "RETRY_OUTREACH" => D!RetryEligible(c))
      /\ (D!ByRisk(c).intent = "INITIATE_OUTREACH" => D!FirstContact(c))
  BY DEF D!ByRisk, D!Intent, D!Escalation
<1>8. /\ D!RetryEligible(c) => E!ContactScope(c) = "RETRY"
      /\ D!FirstContact(c) => E!ContactScope(c) = "OUTREACH"
  BY DEF D!RetryEligible, D!FirstContact, E!ContactScope, Numbers, D!None, E!None
<1>9. CASE c.state = "CLOSED" \/ c.hold \/ c.access = "REVOKED" \/ c.access = "SUSPENDED"
  <2>1. intent \in {"NO_ELIGIBLE_INTENT", "ESCALATE_TO_OPERATOR"}
    BY <1>1, <1>2, <1>9 DEF D!Evaluate, D!Intent, D!Escalation
  <2>. QED
    BY <2>1
<1>10. CASE ~(c.state = "CLOSED" \/ c.hold \/ c.access = "REVOKED" \/ c.access = "SUSPENDED")
  <2>1. CASE D!Tier(c) = "IN_FLIGHT"
    <3>1. intent = "DEFER_PENDING_AI"
      BY <1>1, <1>2, <1>10, <2>1 DEF D!Evaluate, D!Intent
    <3>2. scope = "PRIORITIZATION_ONLY"
      BY <1>1, <1>2, <1>3, <1>5, <1>10, <2>1 DEF E!Assess
    <3>. QED
      BY <3>1, <3>2
  <2>2. CASE D!Tier(c) # "IN_FLIGHT" /\ E!AttemptsExhausted(c)
    <3>1. intent = "CLOSE_ORCHESTRATION"
      BY <1>1, <1>2, <1>4, <1>10, <2>2 DEF D!Evaluate, D!Intent, D!MaxAttempts
    <3>2. scope = "NONE"
      BY <1>1, <1>2, <1>3, <1>5, <1>10, <2>2 DEF E!Assess
    <3>. QED
      BY <1>4, <2>2, <3>1, <3>2
  <2>3. CASE D!Tier(c) # "IN_FLIGHT" /\ ~E!AttemptsExhausted(c)
    <3>1. intent = D!ByRisk(c).intent
      BY <1>1, <1>2, <1>4, <1>10, <2>3 DEF D!Evaluate, D!MaxAttempts
    <3>2. scope = E!ContactScope(c)
      BY <1>1, <1>2, <1>3, <1>6, <1>10, <2>3 DEF E!Assess
    <3>. QED
      BY <1>7, <1>8, <3>1, <3>2
  <2>. QED
    BY <2>1, <2>2, <2>3
<1>. QED
  BY <1>9, <1>10

\* outreach.py: with the attempts used up nothing is started or retried.
LEMMA NotRetried ==
    ASSUME NEW ctx, NEW seen, O!AttemptsUsedUp(ctx)
    PROVE  O!CoordinateOutreach(ctx, seen).intent
               \notin {"INITIATE_OUTREACH", "RETRY_OUTREACH"}
<1>1. O!OutreachCoordinated(ctx).intent = O!ClassifyIntent(ctx)
  BY DEF O!OutreachCoordinated, O!ScopedAnswer, O!Answer
<1>2. O!ClassifyIntent(ctx) \in {"HOLD", "DEFER_PENDING_AI", "ESCALATE"}
  BY DEF O!ClassifyIntent
<1>3. /\ O!OutreachBlocked(ctx).intent = "none" /\ O!OutreachMaintenance(ctx).intent = "none"
      /\ O!OutreachReplay(ctx).intent = "none"
  BY DEF O!OutreachBlocked, O!BlockedAnswer, O!OutreachMaintenance, O!MaintenanceAnswer,
         O!OutreachReplay, O!ReplayAnswer, O!Answer, O!None
<1>. QED
  BY <1>1, <1>2, <1>3 DEF O!CoordinateOutreach

\* What decision_engine.py intends lies in the scope eligibility.py gives the student, and
\* outreach.py does not retry whom it gives up unless its own ceiling is the higher.
THEOREM IntentsInScope == CeilingsOrdered /\ Spec => []IntentWithinScope
<1>. SUFFICES ASSUME CeilingsOrdered PROVE Spec => []IntentWithinScope
  OBVIOUS
<1>1. Drawn => IntentWithinScope
  <2>. SUFFICES ASSUME Drawn, request.type = "original", standing.contact # {},
                       ~E!InExclusionWindow(Case), ~eligibility.blocked, ~decision.blocked
                PROVE  IntentWithinScope
    BY DEF IntentWithinScope
  <2>1. Numbers(Case)
    BY CaseNumbers
  <2>2. /\ Case.type = "original" /\ Case.contact = standing.contact
        /\ Case.rules = request.rules /\ Case.attempts = outreach.attempts
    BY DEF Case
  <2>3. OutreachCase.rules = Case.rules /\ OutreachCase.attempts = Case.attempts
    BY DEF OutreachCase
  <2>4. ASSUME D!Exhausted(Case, "outreach_max_attempts"), Ceilings \subseteq DOMAIN request.rules
        PROVE  O!AttemptsUsedUp(OutreachCase)
    <3>1. request.rules["outreach_max_retry_attempts"] <= request.rules["outreach_max_attempts"]
      BY <2>4 DEF CeilingsOrdered, Drawn
    <3>2. /\ request.rules["outreach_max_retry_attempts"] \in Int
          /\ request.rules["outreach_max_attempts"] \in Int
          /\ Case.attempts \in Int
      BY <2>1, <2>2, <2>4, Keys DEF Numbers, Ceilings
    <3>3. Case.attempts >= request.rules["outreach_max_attempts"]
      BY <2>2, <2>4 DEF D!Exhausted
    <3>4. Case.attempts >= request.rules["outreach_max_retry_attempts"]
      BY <3>1, <3>2, <3>3
    <3>. QED
      BY <2>2, <2>3, <2>4, <3>4 DEF O!AttemptsUsedUp, Ceilings
  <2>. QED
    BY <2>1, <2>2, <2>4, ScopeOfIntent, NotRetried
       DEF IntentWithinScope, eligibility, decision, coordination
<1>. QED
  BY <1>1, DrawnAlways, PTL

-----------------------------------------------------------------------------
(* Worse facts *)

\* Two cases that differ in their facts only.
Alike(c, d) ==
    /\ c.mode = d.mode /\ c.type = d.type /\ c.config = d.config /\ c.absent = d.absent
    /\ c.replay = d.replay /\ c.rules = d.rules /\ c.key = d.key
    /\ c.maintenance = d.maintenance /\ c.escalations = d.escalations /\ c.trend = d.trend
    /\ c.hold = d.hold /\ c.access = d.access /\ c.contact = d.contact /\ c.state = d.state
    /\ c.attempts = d.attempts /\ c.retry = d.retry /\ c.insight = d.insight

\* The second one's facts are no better.
WorseFacts(c, d) ==
    /\ DOMAIN d.facts = DOMAIN c.facts
    /\ "since_contact" \in DOMAIN c.facts => d.facts["since_contact"] = c.facts["since_contact"]
    /\ \A f \in DOMAIN c.facts : IF f = "effort" THEN d.facts[f] <= c.facts[f]
                                                  ELSE d.facts[f] >= c.facts[f]

\* What is past a threshold stays past it.
LEMMA Crossed ==
    ASSUME NEW c, NEW d, Numbers(c), Numbers(d), Alike(c, d), WorseFacts(c, d),
           NEW f, NEW k \in Thresholds
    PROVE  /\ f # "effort" /\ P!AtLeast(c, f, k) => P!AtLeast(d, f, k)
           /\ f # "effort" /\ P!Above(c, f, k) => P!Above(d, f, k)
           /\ P!Below(c, "effort", k) => P!Below(d, "effort", k)
           /\ E!Below(c, "effort", k) => E!Below(d, "effort", k)
           /\ P!Recurs(c, k) <=> P!Recurs(d, k)
<1>1. /\ f \in DOMAIN c.facts => c.facts[f] \in Int /\ d.facts[f] \in Int
      /\ k \in DOMAIN c.rules => c.rules[k] \in Int
      /\ "effort" \in DOMAIN c.facts => c.facts["effort"] \in Int /\ d.facts["effort"] \in Int
  BY DEF Numbers, Alike, WorseFacts
<1>2. f # "effort" /\ P!AtLeast(c, f, k) => P!AtLeast(d, f, k)
  BY <1>1 DEF P!AtLeast, P!Known, Alike, WorseFacts
<1>3. f # "effort" /\ P!Above(c, f, k) => P!Above(d, f, k)
  BY <1>1 DEF P!Above, P!Known, Alike, WorseFacts
<1>4. P!Below(c, "effort", k) => P!Below(d, "effort", k)
  BY <1>1 DEF P!Below, P!Known, Alike, WorseFacts
<1>5. E!Below(c, "effort", k) => E!Below(d, "effort", k)
  BY <1>1 DEF E!Below, E!Known, Alike, WorseFacts
<1>6. P!Recurs(c, k) <=> P!Recurs(d, k)
  BY DEF P!Recurs, Alike
<1>. QED
  BY <1>2, <1>3, <1>4, <1>5, <1>6

\* The thresholds only one engine reads.
LEMMA MoreKeys ==
    {"hws_behind_minimum_threshold", "last_activity_max_days", "hws_behind_moderate_threshold",
     "last_activity_moderate_days"} \subseteq Thresholds
BY DEF Thresholds, E!Keys, P!Keys

\* eligibility.py, RULE 9 and RULE 11: no fact is asked for that a worse one fails, and
\* nothing before them reads a fact but the last contact.
LEMMA EligibilityRises ==
    ASSUME NEW c, NEW d, Numbers(c), Numbers(d), Alike(c, d), WorseFacts(c, d)
    PROVE  AtLeastAsHigh(E!Assess(d).priority, E!Assess(c).priority)
<1>. DEFINE tier == E!TierUsed(c)
<1>1. E!HighFactors(c) \subseteq E!HighFactors(d)
  BY Comparisons, Crossed, Keys DEF E!HighFactors, E!Factor, Alike
<1>2. E!MediumFactors(c) \subseteq E!HighFactors(d) \cup E!MediumFactors(d)
  BY Comparisons, Crossed, Keys, MoreKeys DEF E!MediumFactors, E!Factor, Alike
<1>3. E!HighFactors(c) \cap E!MediumFactors(c) = {}
  BY DEF E!MediumFactors
<1>4. /\ P!Rank(E!Risk(d)) >= P!Rank(E!Risk(c)) /\ Known(E!Risk(c)) /\ Known(E!Risk(d))
  BY <1>1, <1>2, <1>3, WeighMonotone, Weights, SameScale DEF E!Risk
<1>5. ASSUME NEW t
      PROVE  AtLeastAsHigh(E!Adjusted(d, t, E!Risk(d)), E!Adjusted(c, t, E!Risk(c)))
  <2>1. c.insight = d.insight
    BY DEF Alike
  <2>2. \/ /\ E!Adjusted(c, t, E!Risk(c)) = "CRITICAL" /\ E!Adjusted(d, t, E!Risk(d)) = "CRITICAL"
        \/ /\ E!Adjusted(c, t, E!Risk(c)) = P!Upgrade(E!Risk(c))
           /\ E!Adjusted(d, t, E!Risk(d)) = P!Upgrade(E!Risk(d))
        \/ /\ E!Adjusted(c, t, E!Risk(c)) = E!Risk(c)
           /\ E!Adjusted(d, t, E!Risk(d)) = E!Risk(d)
    BY <2>1, SameScale DEF E!Adjusted
  <2>3. P!Rank(P!Upgrade(E!Risk(d))) >= P!Rank(P!Upgrade(E!Risk(c)))
    BY <1>4, Upgrades
  <2>. QED
    BY <1>4, <2>2, <2>3, Ranks DEF AtLeastAsHigh
<1>6. ASSUME NEW e, NEW s, NEW p, NEW t PROVE E!Emit(e, s, p, t).priority = p
  BY DEF E!Emit, E!Assessment
<1>7. /\ E!Preconditions(c) <=> E!Preconditions(d)
      /\ E!Tier(c) = E!Tier(d) /\ E!TierUsed(c) = E!TierUsed(d)
      /\ E!InExclusionWindow(c) <=> E!InExclusionWindow(d)
      /\ E!IsReplay(c) <=> E!IsReplay(d)
      /\ E!ReplayAdmitted(c) <=> E!ReplayAdmitted(d)
      /\ E!AttemptsExhausted(c) <=> E!AttemptsExhausted(d)
      /\ E!ContactScope(c) = E!ContactScope(d)
  BY DEF E!Preconditions, E!Tier, E!TierUsed, E!ByScore, E!InExclusionWindow, E!Below, E!Known,
         E!IsReplay, E!ReplayAdmitted, E!AttemptsExhausted, E!Exhausted, E!ContactScope, Alike,
         WorseFacts
<1>8. ASSUME NEW s, NEW t
      PROVE  AtLeastAsHigh(E!Considered(d, s, t).priority, E!Considered(c, s, t).priority)
  BY <1>5, <1>6, Ranks DEF E!Considered, AtLeastAsHigh, Known
<1>9. \/ E!Assess(c).priority = E!Assess(d).priority
      \/ \E s, t : /\ E!Assess(c) = E!Considered(c, s, t)
                   /\ E!Assess(d) = E!Considered(d, s, t)
  <2>1. c.state = d.state /\ c.hold = d.hold /\ c.access = d.access /\ c.contact = d.contact
        /\ c.type = d.type
    BY DEF Alike
  <2>2. E!Blocked(c) = E!Blocked(d)
    BY DEF E!Blocked
  <2>3. [E!Emit(c, "NONE", "UNKNOWN", tier) EXCEPT
             !.blocked = TRUE, !.replay_safe = FALSE].priority
        = [E!Emit(d, "NONE", "UNKNOWN", tier) EXCEPT
             !.blocked = TRUE, !.replay_safe = FALSE].priority
    BY DEF E!Emit, E!Assessment
  <2>. QED
    BY <1>6, <1>7, <2>1, <2>2, <2>3 DEF E!Assess
<1>. QED
  BY <1>8, <1>9, Ranks DEF AtLeastAsHigh, Known

\* decision_engine.py, RULE 7 to RULE 9: what escalates stays escalated.
LEMMA DecisionRises ==
    ASSUME NEW c, NEW d, Numbers(c), Numbers(d), Alike(c, d), WorseFacts(c, d)
    PROVE  /\ AtLeastAsHigh(D!Evaluate(d).risk, D!Evaluate(c).risk)
           /\ D!Evaluate(c).intent = "ESCALATE_TO_OPERATOR"
                  => D!Evaluate(d).intent = "ESCALATE_TO_OPERATOR"
<1>1. D!Tier(c) = D!Tier(d)
  BY DEF D!Tier, D!ByScore, Alike
<1>2. D!HighFactors(c) \subseteq D!HighFactors(d)
  BY <1>1, Comparisons, Crossed, Keys DEF D!HighFactors, D!Factor, D!Advised, Alike
<1>3. D!MediumFactors(c) \subseteq D!MediumFactors(d)
  BY <1>1, Comparisons, Crossed, Keys DEF D!MediumFactors, D!Factor, D!Advised, Alike
<1>4. /\ P!Rank(D!ComputeRisk(d)) >= P!Rank(D!ComputeRisk(c))
      /\ Known(D!ComputeRisk(c)) /\ Known(D!ComputeRisk(d))
  BY <1>2, <1>3, DecisionFactors, WeighMonotone, Weights, SameScale DEF D!ComputeRisk
<1>5. ASSUME NEW e, Known(D!ComputeRisk(e))
      PROVE  /\ D!ByRisk(e).risk = D!ComputeRisk(e)
             /\ D!ByRisk(e).intent = "ESCALATE_TO_OPERATOR"
                    <=> D!ComputeRisk(e) \in {"HIGH", "CRITICAL"}
  BY <1>5 DEF D!ByRisk, D!Escalation, D!Intent
<1>6. \/ /\ D!Evaluate(c).risk = D!Evaluate(d).risk
         /\ D!Evaluate(c).intent = D!Evaluate(d).intent
      \/ D!Evaluate(c) = D!ByRisk(c) /\ D!Evaluate(d) = D!ByRisk(d)
  <2>1. /\ D!Preconditions(c) <=> D!Preconditions(d)
        /\ D!IsReplay(c) <=> D!IsReplay(d)
        /\ D!Exhausted(c, D!MaxAttempts) <=> D!Exhausted(d, D!MaxAttempts)
    BY DEF D!Preconditions, D!IsReplay, D!Exhausted, Alike
  <2>2. ASSUME NEW i
        PROVE  D!Intent(c, i) = D!Intent(d, i)
    BY DEF D!Intent, D!GovernanceScope, D!IsReplay, Alike
  <2>3. ASSUME NEW u PROVE D!Escalation(c, u) = D!Escalation(d, u)
    BY <2>2 DEF D!Escalation
  <2>4. D!ReplayIntent(c) = D!ReplayIntent(d) /\ D!Blocked(c) = D!Blocked(d)
    BY <2>2 DEF D!ReplayIntent, D!Blocked, Alike
  <2>5. c.state = d.state /\ c.hold = d.hold /\ c.access = d.access /\ c.type = d.type
    BY DEF Alike
  <2>. QED
    BY <1>1, <2>1, <2>2, <2>3, <2>4, <2>5 DEF D!Evaluate
<1>. QED
  BY <1>4, <1>5, <1>6, Ranks DEF AtLeastAsHigh, Known

\* priority.py, RULE 6 to RULE 8.
LEMMA PriorityRises ==
    ASSUME NEW c, NEW d, Numbers(c), Numbers(d), Alike(c, d), WorseFacts(c, d)
    PROVE  AtLeastAsHigh(P!AssessPriority(d, {}).priority, P!AssessPriority(c, {}).priority)
<1>. DEFINE before == P!AggregatePriority(c)
            after == P!AggregatePriority(d)
<1>1. P!ClassifyTier(c) = P!ClassifyTier(d)
  BY DEF P!ClassifyTier, P!ByScore, Alike
<1>2. P!HighFactors(c) \subseteq P!HighFactors(d)
  BY <1>1, Crossed, Keys DEF P!HighFactors, P!Factor, P!Advised, Alike
<1>3. P!MediumFactors(c) \subseteq P!HighFactors(d) \cup P!MediumFactors(d)
  BY <1>1, Crossed, Keys, MoreKeys DEF P!MediumFactors, P!Factor, P!Advised, Alike
<1>4. P!HighFactors(c) \cap P!MediumFactors(c) = {}
  BY DEF P!MediumFactors
<1>5. P!Rank(after) >= P!Rank(before) /\ Known(before) /\ Known(after)
  BY <1>2, <1>3, <1>4, WeighMonotone, Weights DEF P!AggregatePriority
<1>6. \/ P!AiAdjustment(c, before) = "CRITICAL" /\ P!AiAdjustment(d, after) = "CRITICAL"
      \/ /\ P!AiAdjustment(c, before) = P!Upgrade(before)
         /\ P!AiAdjustment(d, after) = P!Upgrade(after)
      \/ P!AiAdjustment(c, before) = before /\ P!AiAdjustment(d, after) = after
  BY <1>1 DEF P!AiAdjustment, P!Advised, Alike
<1>7. ASSUME NEW e
      PROVE  P!Scored(e).priority = P!AiAdjustment(e, P!AggregatePriority(e))
  BY DEF P!Scored, P!Record
<1>8. \/ P!AssessPriority(c, {}).priority = "UNKNOWN"
      \/ /\ P!AssessPriority(c, {}) = P!Scored(c)
         /\ P!AssessPriority(d, {}) = P!Scored(d)
  <2>1. /\ P!PreconditionGate(c, {}) <=> P!PreconditionGate(d, {})
        /\ P!IsReplay(c) <=> P!IsReplay(d)
        /\ c.maintenance = d.maintenance
        /\ P!Deferred(c) <=> P!Deferred(d)
    BY <1>1 DEF P!PreconditionGate, P!IsReplay, P!Deferred, Alike
  <2>2. /\ P!BlockedRecord(c).priority = "UNKNOWN" /\ P!MaintenanceRecord(c).priority = "UNKNOWN"
        /\ P!ReplayRecord(c).priority = "UNKNOWN"
    BY DEF P!BlockedRecord, P!MaintenanceRecord, P!ReplayRecord, P!Record
  <2>3. [P!Record(c, "UNKNOWN", "SHADOW_ONLY", "deferred") EXCEPT !.tier = "IN_FLIGHT"].priority
        = "UNKNOWN"
    BY DEF P!Record
  <2>. QED
    BY <2>1, <2>2, <2>3 DEF P!AssessPriority
<1>. HIDE DEF before, after
<1>9. P!Rank(P!Upgrade(after)) >= P!Rank(P!Upgrade(before))
  BY <1>5, Upgrades
<1>10. AtLeastAsHigh(P!AiAdjustment(d, after), P!AiAdjustment(c, before))
  BY <1>5, <1>6, <1>9, Ranks DEF AtLeastAsHigh, Known
<1>. QED
  BY <1>7, <1>8, <1>10 DEF AtLeastAsHigh, Known, before, after

\* score_student adds no fewer points and risk_level_for_display answers no lower.
LEMMA PagesRise ==
    ASSUME NEW c, NEW d, Numbers(c), Numbers(d), Alike(c, d), WorseFacts(c, d)
    PROVE  /\ AtLeastAsHigh(P!ScoreStudent(d, Limits), P!ScoreStudent(c, Limits))
           /\ AtLeastAsHigh(P!RiskLevelForDisplay(d, Limits), P!RiskLevelForDisplay(c, Limits))
<1>. DEFINE homework(e) == P!Points(P!Fact(e, "hws") >= Limits.hws_high, 40,
                                    P!Fact(e, "hws") >= Limits.hws_low, 20)
            idle(e) == P!Points(P!Fact(e, "inactivity") > Limits.idle_high, 30,
                                P!Fact(e, "inactivity") > Limits.idle_low, 15)
            effort(e) == P!Points("effort" \in DOMAIN e.facts
                                      /\ e.facts["effort"] < Limits.effort, 20, FALSE, 0)
            balance(e) == P!Points(P!Fact(e, "balance") > 0, 10, FALSE, 0)
            state(e) == P!Points(e.state = "INTERVENTION_REQUIRED", 20,
                                 e.state = "NO_RESPONSE", 10)
<1>1. /\ Limits.hws_high \in Int /\ Limits.hws_low \in Int /\ Limits.idle_high \in Int
      /\ Limits.idle_low \in Int /\ Limits.effort \in Int
  BY AssessmentsAssumption
<1>2. ASSUME NEW f, f # "effort"
      PROVE  /\ P!Fact(c, f) \in Int /\ P!Fact(d, f) \in Int
             /\ P!Fact(d, f) >= P!Fact(c, f)
  BY <1>2 DEF P!Fact, Numbers, WorseFacts
<1>3. /\ P!Fact(c, "hws") >= Limits.hws_high => P!Fact(d, "hws") >= Limits.hws_high
      /\ P!Fact(c, "hws") >= Limits.hws_low => P!Fact(d, "hws") >= Limits.hws_low
  BY <1>1, <1>2
<1>4. /\ P!Fact(c, "inactivity") > Limits.idle_high => P!Fact(d, "inactivity") > Limits.idle_high
      /\ P!Fact(c, "inactivity") > Limits.idle_low => P!Fact(d, "inactivity") > Limits.idle_low
  BY <1>1, <1>2
<1>5. P!Fact(c, "balance") > 0 => P!Fact(d, "balance") > 0
  BY <1>2
<1>6. "effort" \in DOMAIN c.facts /\ c.facts["effort"] < Limits.effort
         => "effort" \in DOMAIN d.facts /\ d.facts["effort"] < Limits.effort
  BY <1>1 DEF Numbers, WorseFacts
<1>7. homework(d) >= homework(c) /\ homework(c) \in Int /\ homework(d) \in Int
  BY <1>3 DEF P!Points
<1>8. idle(d) >= idle(c) /\ idle(c) \in Int /\ idle(d) \in Int
  BY <1>4 DEF P!Points
<1>9. /\ effort(d) >= effort(c) /\ effort(c) \in Int /\ effort(d) \in Int
      /\ balance(d) >= balance(c) /\ balance(c) \in Int /\ balance(d) \in Int
  BY <1>5, <1>6 DEF P!Points
<1>10. state(d) = state(c) /\ state(c) \in Int
  BY DEF P!Points, Alike
<1>11. /\ P!Score(c, Limits) = homework(c) + idle(c) + effort(c) + balance(c) + state(c)
       /\ P!Score(d, Limits) = homework(d) + idle(d) + effort(d) + balance(d) + state(d)
  BY DEF P!Score
<1>12. /\ P!Score(d, Limits) >= P!Score(c, Limits)
       /\ P!Score(c, Limits) \in Int /\ P!Score(d, Limits) \in Int
  <2>. HIDE DEF homework, idle, effort, balance, state
  <2>. QED
    BY <1>7, <1>8, <1>9, <1>10, <1>11
<1>13. AtLeastAsHigh(P!ScoreStudent(d, Limits), P!ScoreStudent(c, Limits))
  BY <1>12, Ranks DEF P!ScoreStudent, AtLeastAsHigh
<1>14. AtLeastAsHigh(P!RiskLevelForDisplay(d, Limits), P!RiskLevelForDisplay(c, Limits))
  BY <1>3, <1>4, Ranks DEF P!RiskLevelForDisplay, AtLeastAsHigh
<1>. QED
  BY <1>13, <1>14

\* The engines and the pages together.
LEMMA NoneCalmer ==
    ASSUME NEW c, NEW d, Numbers(c), Numbers(d), Alike(c, d), WorseFacts(c, d)
    PROVE  NeverCalmer(c, d)
BY EligibilityRises, DecisionRises, PriorityRises, PagesRise DEF NeverCalmer

\* For all thresholds and limits, and however many facts get worse at once, no engine and no
\* page becomes calmer and no escalation is taken back.
THEOREM WorseIsNeverCalmer == Spec => WorseNeverCalmer
<1>1. Drawn /\ Drawn' /\ Worse => NeverCalmer(Case, Case')
  <2>. SUFFICES ASSUME Drawn, Drawn', Worse PROVE NeverCalmer(Case, Case')
    OBVIOUS
  <2>1. Numbers(Case)
    BY CaseNumbers
  <2>2. Numbers(Case')
    <3>1. (Drawn => Numbers(Case))'
      BY CaseNumbers, PTL
    <3>. QED
      BY <3>1 DEF Numbers
  <2>3. Alike(Case, Case')
    BY DEF Worse, Alike, Case
  <2>4. WorseFacts(Case, Case')
    <3>1. /\ Case.facts = [f \in DOMAIN facts \cup {"since_contact"} |->
                               IF f = "since_contact" THEN standing.since ELSE facts[f]]
          /\ (Case').facts = [f \in DOMAIN facts' \cup {"since_contact"} |->
                               IF f = "since_contact" THEN standing'.since ELSE facts'[f]]
      BY DEF Case
    <3>2. standing.since \in Int
      BY AssessmentsAssumption DEF Drawn
    <3>. QED
      BY <3>1, <3>2 DEF Worse, WorseFacts
  <2>. QED
    BY <2>1, <2>2, <2>3, <2>4, NoneCalmer
<1>2. Drawn /\ Drawn' /\ [Next]_vars => [Worse => NeverCalmer(Case, Case')]_vars
  BY <1>1
<1>. QED
  BY <1>2, DrawnAlways, PTL DEF Spec, WorseNeverCalmer
=============================================================================
