-------------------------- MODULE AssessmentsProofs --------------------------
(***************************************************************************)
(* What the engines say of a replay, of a held student and of an insight,  *)
(* which channels they offer, and the vocabulary they answer in, for every *)
(* rule set and every instance of Assessments.                             *)
(***************************************************************************)
EXTENDS RiskProofs

-----------------------------------------------------------------------------
(* Replays *)

\* No rule of eligibility.py gives a replay a scope in which somebody is contacted, and
\* _emit does not permit it live outreach.
LEMMA EligibilityOfReplay ==
    ASSUME NEW c, E!IsReplay(c)
    PROVE  /\ E!Assess(c).scope \notin {"OUTREACH", "RETRY"}
           /\ ~E!Assess(c).live
           /\ c.mode = "LIVE" => E!Assess(c).scope # "REPLAY_CANDIDATE"
<1>. DEFINE Tame(e) == /\ e.scope \notin {"OUTREACH", "RETRY"}
                       /\ ~e.live
                       /\ c.mode = "LIVE" => e.scope # "REPLAY_CANDIDATE"
<1>1. ASSUME NEW scope, NEW level, NEW tier, scope \notin {"OUTREACH", "RETRY"},
             c.mode = "LIVE" => scope # "REPLAY_CANDIDATE"
      PROVE  /\ Tame(E!Emit(c, scope, level, tier))
             /\ Tame([E!Emit(c, scope, level, tier) EXCEPT
                         !.blocked = TRUE, !.replay_safe = FALSE])
  BY <1>1 DEF E!Emit, E!Assessment
<1>2. Tame(E!Blocked(c))
  BY DEF E!Blocked, E!Assessment
<1>3. ASSUME c.mode # "LIVE", NEW tier
      PROVE  Tame(E!Considered(c, "REPLAY_CANDIDATE", tier))
  BY <1>1, <1>3 DEF E!Considered
<1>4. E!ReplayAdmitted(c) => c.mode # "LIVE"
  BY DEF E!ReplayAdmitted
<1>5. Tame(E!Assess(c))
  <2>. HIDE DEF Tame
  <2>. QED
    BY <1>1, <1>2, <1>3, <1>4 DEF E!Assess, E!IsReplay, E!ReplayTypes
<1>. QED
  BY <1>5

\* RULE 13 of decision_engine.py: a replay is given no intent, and stays in the shadow
\* unless it is blocked.
LEMMA DecisionOfReplay ==
    ASSUME NEW c, D!IsReplay(c)
    PROVE  LET d == D!Evaluate(c)
           IN  /\ d.intent = "NO_ELIGIBLE_INTENT"
               /\ ~d.blocked => d.scope = "REPLAY_ONLY" /\ d.mode = "SHADOW"
<1>1. CASE D!Preconditions(c)
  BY <1>1 DEF D!Evaluate, D!ReplayIntent, D!Intent
<1>2. CASE ~D!Preconditions(c)
  BY <1>2 DEF D!Evaluate, D!Blocked, D!Intent
<1>. QED
  BY <1>1, <1>2

\* RULE 0 to RULE 2 of priority.py: none of the three answers a replay may get has a
\* priority.
LEMMA PriorityOfReplay ==
    ASSUME NEW c, NEW seen, P!IsReplay(c)
    PROVE  P!AssessPriority(c, seen).priority = "UNKNOWN"
BY DEF P!AssessPriority, P!BlockedRecord, P!MaintenanceRecord, P!ReplayRecord, P!Record

\* channel_selector.py: emit_assessment permits no replay live delivery, and RULE 9 stops
\* one sent in LIVE mode before channels are listed.
LEMMA AdvisoryOfReplay ==
    ASSUME NEW c, H!IsReplay(c)
    PROVE  /\ ~H!Advise(c).live
           /\ c.mode = "LIVE" => H!Advise(c).candidates = <<>>
<1>. DEFINE Tame(a) == ~a.live /\ (c.mode = "LIVE" => a.candidates = <<>>)
<1>1. Tame(H!Blocked(c))
  BY DEF H!Blocked, H!Advisory
<1>2. ASSUME NEW scope, NEW urgency
      PROVE  Tame(H!Emit(c, H!Escalated(scope, urgency)))
  BY DEF H!Emit, H!Escalated, H!Advisory
<1>3. /\ Tame(H!Emit(c, H!Advisory("NONE", FALSE)))
      /\ Tame(H!Emit(c, [H!Advisory("NONE", FALSE) EXCEPT !.blocked = TRUE]))
  BY DEF H!Emit, H!Advisory
<1>4. ASSUME c.mode # "LIVE", NEW scope, NEW channels
      PROVE  Tame(H!Emit(c, [H!Advisory(scope, TRUE) EXCEPT !.candidates = channels]))
  BY <1>4 DEF H!Emit, H!Advisory
<1>5. H!ReplayAdmitted(c) => c.mode # "LIVE"
  BY DEF H!ReplayAdmitted
<1>6. Tame(H!Advise(c))
  <2>. HIDE DEF Tame
  <2>. QED
    BY <1>1, <1>2, <1>3, <1>4, <1>5 DEF H!Advise
<1>. QED
  BY <1>6

\* ai_insights.py: RULE 1 and RULE 2 come before anything is recommended or kept.
LEMMA GuidanceOfReplay ==
    ASSUME NEW c, NEW seen, A!IsReplay(c)
    PROVE  LET g == A!AssessAi(c, seen)
           IN  g.suppressed /\ g.recommended = "none" /\ ~g.snapshot
BY DEF A!AssessAi, A!BlockedAssessment, A!FinalizedCopy, A!ReplayAssessment, A!Assessment,
       A!None

\* outreach.py: whatever answers a replay, its side effects are suppressed.  ghl.py: it
\* is blocked or contained before the compliance hold is looked at.
LEMMA DispatchOfReplay ==
    ASSUME NEW ctx, NEW seen, ctx.type \in O!ReplayTypes
    PROVE  /\ O!CoordinateOutreach(ctx, seen).suppressed
           /\ O!ExecuteGhl(O!AssessProvider(ctx, seen)) \in {"blocked", "suppressed_replay"}
<1>1. O!CoordinateOutreach(ctx, seen).suppressed
  BY DEF O!CoordinateOutreach, O!OutreachBlocked, O!OutreachMaintenance, O!OutreachReplay,
         O!BlockedAnswer, O!MaintenanceAnswer, O!ReplayAnswer, O!Answer
<1>2. O!AssessProvider(ctx, seen) \in {O!BlockedAssessment(O!None), O!ReplayAssessment}
  BY DEF O!AssessProvider, O!ReplayTypes, O!ProviderReplayTypes
<1>3. O!ExecuteGhl(O!BlockedAssessment(O!None)) = "blocked"
  BY DEF O!ExecuteGhl, O!GhlSuppressed, O!SuppressedOutcome, O!BlockedAssessment, O!Assessment
<1>4. O!ExecuteGhl(O!ReplayAssessment) = "suppressed_replay"
  BY DEF O!ExecuteGhl, O!GhlSuppressed, O!SuppressedOutcome, O!ReplayAssessment, O!Assessment
<1>. QED
  BY <1>1, <1>2, <1>3, <1>4

\* A replay is contained by every engine, in every reachable state: the rules that do it
\* read nothing of the student's, so nothing that happens to him can undo them.
THEOREM ReplaysContained == Spec => []ReplayContained
<1>1. ReplayContained
  <2>1. SUFFICES ASSUME E!IsReplay(Case) PROVE ReplayContained!2
    BY DEF ReplayContained
  <2>2. D!IsReplay(Case) /\ P!IsReplay(Case) /\ H!IsReplay(Case) /\ A!IsReplay(Case)
    BY <2>1 DEF E!IsReplay, D!IsReplay, P!IsReplay, H!IsReplay, A!IsReplay, E!ReplayTypes,
                D!ReplayTypes, P!ReplayTypes, H!ReplayTypes, A!ReplayTypes
  <2>3. OutreachCase.type \in O!ReplayTypes
    BY <2>1 DEF OutreachCase, E!IsReplay, E!ReplayTypes, O!ReplayTypes
  <2>. QED
    BY <2>1, <2>2, <2>3, EligibilityOfReplay, DecisionOfReplay, PriorityOfReplay,
       AdvisoryOfReplay, GuidanceOfReplay, DispatchOfReplay
       DEF eligibility, decision, priority, advisory, guidance, coordination, dispatch
<1>. QED
  BY <1>1, PTL

-----------------------------------------------------------------------------
(* Compliance holds *)

\* RULE 2 of eligibility.py stands before every rule that would let a student be contacted.
LEMMA EligibilityOfHeld ==
    ASSUME NEW c, c.hold
    PROVE  E!Assess(c).scope \in {"NONE", "ESCALATION_CANDIDATE"}
BY DEF E!Assess, E!Blocked, E!Emit, E!Assessment

\* RULE 2 of decision_engine.py: what comes before it gives no intent at all.
LEMMA DecisionOfHeld ==
    ASSUME NEW c, c.hold
    PROVE  D!Evaluate(c).intent \in {"ESCALATE_TO_OPERATOR", "NO_ELIGIBLE_INTENT"}
BY DEF D!Evaluate, D!Blocked, D!ReplayIntent, D!Escalation, D!Intent

\* RULE 2 of channel_selector.py comes before a channel is looked at, and the scope it
\* answers is none emit_assessment would permit live delivery in.
LEMMA AdvisoryOfHeld ==
    ASSUME NEW c, c.hold
    PROVE  H!Advise(c).candidates = <<>> /\ ~H!Advise(c).live
<1>. DEFINE Tame(a) == a.candidates = <<>> /\ ~a.live
<1>1. Tame(H!Blocked(c))
  BY DEF H!Blocked, H!Advisory
<1>2. "NONE" \notin H!DeliveryScopes
  BY DEF H!DeliveryScopes
<1>3. /\ Tame(H!Emit(c, H!Advisory("NONE", FALSE)))
      /\ Tame(H!Emit(c, H!Escalated("NONE", "CRITICAL")))
  BY <1>2 DEF H!Emit, H!Escalated, H!Advisory
<1>4. Tame(H!Advise(c))
  BY <1>1, <1>3 DEF H!Advise
<1>. QED
  BY <1>4

\* RULE 3 and RULE 4 of outreach.py leave a held student no authority to continue.
LEMMA CoordinationOfHeld ==
    ASSUME NEW ctx, NEW seen, ctx.hold, O!CoordinateOutreach(ctx, seen).continues
    PROVE  O!CoordinateOutreach(ctx, seen).replay
<1>1. CASE ~O!OutreachGate(ctx, seen)
  BY <1>1 DEF O!CoordinateOutreach, O!OutreachBlocked, O!BlockedAnswer, O!Answer
<1>2. CASE O!OutreachGate(ctx, seen) /\ ctx.maintenance
  BY <1>2 DEF O!CoordinateOutreach, O!OutreachMaintenance, O!MaintenanceAnswer, O!Answer
<1>3. CASE O!OutreachGate(ctx, seen) /\ ~ctx.maintenance /\ ctx.type \in O!ReplayTypes
  BY <1>3 DEF O!CoordinateOutreach, O!OutreachReplay, O!ReplayAnswer, O!Answer
<1>4. ASSUME NEW reason, reason # O!None
      PROVE  O!ScopedAnswer(ctx, reason).continues = FALSE
  BY <1>4 DEF O!ScopedAnswer, O!Answer
<1>5. ~O!OutreachCoordinated(ctx).continues
  BY <1>4 DEF O!OutreachCoordinated, O!ScopedAnswer, O!Answer, O!None
<1>. QED
  BY <1>1, <1>2, <1>3, <1>5 DEF O!CoordinateOutreach

\* ghl.py: RULE 3 stands before the shadow and before the dispatch.
LEMMA DispatchOfHeld ==
    ASSUME NEW ctx, NEW seen, ctx.hold
    PROVE  O!ExecuteGhl(O!AssessProvider(ctx, seen)) \in {"blocked", "suppressed_replay"}
<1>1. O!AssessProvider(ctx, seen) \in {O!BlockedAssessment(O!None), O!ReplayAssessment,
                                       O!BlockedAssessment("compliance_hold")}
  BY DEF O!AssessProvider
<1>2. ASSUME NEW cause PROVE O!ExecuteGhl(O!BlockedAssessment(cause)) = "blocked"
  BY DEF O!ExecuteGhl, O!GhlSuppressed, O!SuppressedOutcome, O!BlockedAssessment, O!Assessment
<1>3. O!ExecuteGhl(O!ReplayAssessment) = "suppressed_replay"
  BY DEF O!ExecuteGhl, O!GhlSuppressed, O!SuppressedOutcome, O!ReplayAssessment, O!Assessment
<1>. QED
  BY <1>1, <1>2, <1>3

\* Every engine keeps a held student from being contacted, each by a rule in a place of
\* its own; nothing the five rules read before it can prevent it.
THEOREM HoldsAgreed == Spec => []HoldAgreed
<1>1. HoldAgreed
  <2>1. SUFFICES ASSUME standing.hold PROVE HoldAgreed!2
    BY DEF HoldAgreed
  <2>2. Case.hold /\ OutreachCase.hold
    BY <2>1 DEF OutreachCase, Case
  <2>. QED
    BY <2>2, EligibilityOfHeld, DecisionOfHeld, AdvisoryOfHeld, CoordinationOfHeld, DispatchOfHeld
       DEF eligibility, decision, advisory, coordination, dispatch
<1>. QED
  BY <1>1, PTL

-----------------------------------------------------------------------------
(* The two heuristics of the pages *)

\* The points of score_student bound what risk_level_for_display can say: without a homework
\* or an inactivity past its lower limit at most 50 are left, and one past its upper limit
\* alone is worth 30 - whatever the limits are.
THEOREM DisplaysInStep == Spec => []DisplaysAgree
<1>. DEFINE homework == P!Points(P!Fact(Case, "hws") >= Limits.hws_high, 40,
                                 P!Fact(Case, "hws") >= Limits.hws_low, 20)
            idle == P!Points(P!Fact(Case, "inactivity") > Limits.idle_high, 30,
                             P!Fact(Case, "inactivity") > Limits.idle_low, 15)
            effort == P!Points("effort" \in DOMAIN Case.facts
                                   /\ Case.facts["effort"] < Limits.effort, 20, FALSE, 0)
            balance == P!Points(P!Fact(Case, "balance") > 0, 10, FALSE, 0)
            state == P!Points(Case.state = "INTERVENTION_REQUIRED", 20,
                              Case.state = "NO_RESPONSE", 10)
            page == P!RiskLevelForDisplay(Case, Limits)
<1>1. /\ homework \in {0, 20, 40} /\ idle \in {0, 15, 30}
      /\ effort \in {0, 20} /\ balance \in {0, 10} /\ state \in {0, 10, 20}
  BY DEF P!Points
<1>2. page = "LOW" => homework = 0 /\ idle = 0
  BY DEF P!RiskLevelForDisplay, P!Points
<1>3. page = "HIGH" => homework = 40 \/ idle = 30
  BY DEF P!RiskLevelForDisplay, P!Points
<1>4. P!Score(Case, Limits) = homework + idle + effort + balance + state
  BY DEF P!Score
<1>5. DisplaysAgree
  <2>. HIDE DEF homework, idle, effort, balance, state
  <2>1. page = "LOW" => P!Score(Case, Limits) < 60
    BY <1>1, <1>2, <1>4
  <2>2. page = "HIGH" => P!Score(Case, Limits) >= 20
    BY <1>1, <1>3, <1>4
  <2>3. P!Score(Case, Limits) \in Int
    BY <1>1, <1>4
  <2>. QED
    BY <2>1, <2>2, <2>3 DEF DisplaysAgree, P!ScoreStudent
<1>. QED
  BY <1>5, PTL

-----------------------------------------------------------------------------
(* The AI insight *)

\* All engines trust the same insights when the staleness flag tells the truth and there is
\* a TTL, for every insight, rule set and request: their tiers are one function then, and
\* ai_insights.py recommends on it alone.
THEOREM TrustAgreed == Spec => []InsightTrustedAlike
<1>1. InsightTrustedAlike
  <2>. DEFINE tier == D!Tier(Case)
  <2>1. SUFFICES ASSUME ~guidance.blocked, request.type = "original",
                        "ai_insight_ttl_hours" \in DOMAIN request.rules,
                        (insight.stale = "yes") = insight.aged
                 PROVE  InsightTrustedAlike!2
    BY DEF InsightTrustedAlike
  <2>2. Case.insight = insight /\ Case.rules = request.rules /\ Case.type = "original"
    BY <2>1 DEF Case
  <2>. HIDE DEF Case
  <2>3. E!Tier(Case) = tier /\ P!ClassifyTier(Case) = tier /\ H!Tier(Case) = tier
    BY <2>1, <2>2 DEF E!Tier, D!Tier, P!ClassifyTier, H!Tier, E!ByScore, D!ByScore, P!ByScore,
                      H!ByScore
  <2>. HIDE DEF tier
  <2>4. Trust = {tier}
    BY <2>3 DEF Trust, tier
  <2>5. /\ guidance.recommended # "none" \/ guidance.snapshot => tier = "CONFIDENT"
        /\ tier = "CONFIDENT" /\ insight.breaker # "OPEN"
               => guidance.recommended = insight.advice
    BY <2>1, <2>2 DEF tier, D!Tier, A!Tier, D!ByScore, A!ByScore, guidance, A!AssessAi,
       A!BlockedAssessment, A!FinalizedCopy, A!IsReplay, A!ReplayTypes, A!InFlightAssessment,
       A!UnavailableAssessment, A!Assessment, A!Advice, A!EligibleForSnapshot, A!InFlight, A!None
  <2>. QED
    BY <2>4, <2>5
<1>. QED
  BY <1>1, PTL

-----------------------------------------------------------------------------
(* Channels *)

\* A sequence has every member of a set, once.
Lists(seq, set) ==
    /\ seq \in Seq(H!Channels)
    /\ \A i \in DOMAIN seq : seq[i] \in set
    /\ \A x \in set : \E i \in DOMAIN seq : seq[i] = x
    /\ \A i, j \in DOMAIN seq : seq[i] = seq[j] => i = j

\* Two lists of disjoint sets, one after the other.
LEMMA Joined ==
    ASSUME NEW s, NEW t, NEW S, NEW T, Lists(s, S), Lists(t, T), S \cap T = {}
    PROVE  Lists(s \o t, S \cup T)
<1>. DEFINE n == Len(s)
            w == s \o t
<1>1. /\ s \in Seq(H!Channels) /\ t \in Seq(H!Channels) /\ w \in Seq(H!Channels)
      /\ n \in Nat /\ Len(t) \in Nat /\ Len(w) = n + Len(t)
      /\ DOMAIN s = 1 .. n /\ DOMAIN t = 1 .. Len(t) /\ DOMAIN w = 1 .. n + Len(t)
  BY DEF Lists
<1>2. /\ \A i \in 1 .. n : w[i] = s[i]
      /\ \A i \in 1 .. n + Len(t) : i > n => i - n \in 1 .. Len(t) /\ w[i] = t[i - n]
      /\ \A i \in 1 .. Len(t) : n + i \in 1 .. n + Len(t) /\ w[n + i] = t[i]
  BY <1>1
<1>3. \A i \in 1 .. n + Len(t) : /\ i <= n => i \in 1 .. n /\ w[i] \in S
                                 /\ i > n => w[i] \in T
  <2>1. (\A i \in 1 .. n : s[i] \in S) /\ (\A i \in 1 .. Len(t) : t[i] \in T)
    BY <1>1 DEF Lists
  <2>2. ASSUME NEW i \in 1 .. n + Len(t), i <= n PROVE i \in 1 .. n /\ w[i] \in S
    <3>1. i \in 1 .. n
      BY <1>1, <2>2
    <3>. QED
      BY <1>2, <2>1, <3>1
  <2>3. ASSUME NEW i \in 1 .. n + Len(t), i > n PROVE w[i] \in T
    BY <1>2, <2>1, <2>3
  <2>. QED
    BY <2>2, <2>3
<1>4. \A i \in DOMAIN w : w[i] \in S \cup T
  BY <1>1, <1>3
<1>5. ASSUME NEW x \in S \cup T PROVE \E i \in DOMAIN w : w[i] = x
  <2>1. CASE x \in S
    <3>1. PICK i \in DOMAIN s : s[i] = x
      BY <2>1 DEF Lists
    <3>2. i \in DOMAIN w /\ w[i] = x
      BY <1>1, <1>2, <3>1
    <3>. QED
      BY <3>2
  <2>2. CASE x \in T
    <3>1. PICK i \in DOMAIN t : t[i] = x
      BY <2>2 DEF Lists
    <3>2. n + i \in DOMAIN w /\ w[n + i] = x
      BY <1>1, <1>2, <3>1
    <3>. QED
      BY <3>2
  <2>. QED
    BY <2>1, <2>2
<1>6. ASSUME NEW i \in DOMAIN w, NEW j \in DOMAIN w, w[i] = w[j]
      PROVE  i = j
  <2>1. i \in 1 .. n + Len(t) /\ j \in 1 .. n + Len(t) /\ i \in Int /\ j \in Int
    BY <1>1
  <2>2. CASE i <= n /\ j <= n
    BY <1>1, <1>2, <1>3, <1>6, <2>1, <2>2 DEF Lists
  <2>3. CASE i > n /\ j > n
    <3>1. t[i - n] = t[j - n] /\ i - n \in DOMAIN t /\ j - n \in DOMAIN t
      BY <1>1, <1>2, <1>6, <2>1, <2>3
    <3>2. i - n = j - n
      BY <3>1 DEF Lists
    <3>. QED
      BY <1>1, <2>1, <3>2
  <2>4. ~(i <= n /\ j > n) /\ ~(i > n /\ j <= n)
    BY <1>3, <1>6, <2>1
  <2>. QED
    BY <1>1, <2>1, <2>2, <2>3, <2>4
<1>. QED
  BY <1>1, <1>4, <1>5, <1>6 DEF Lists

\* Kept lists a channel that is in the set.
LEMMA KeptLists ==
    ASSUME NEW ch \in H!Channels, NEW set
    PROVE  Lists(H!Kept(ch, set), set \cap {ch})
<1>1. CASE ch \in set
  <2>1. /\ H!Kept(ch, set) = <<ch>> /\ <<ch>> \in Seq(H!Channels)
        /\ DOMAIN <<ch>> = {1} /\ <<ch>>[1] = ch
    BY <1>1 DEF H!Kept
  <2>. QED
    BY <1>1, <2>1 DEF Lists
<1>2. CASE ch \notin set
  <2>1. H!Kept(ch, set) = <<>> /\ <<>> \in Seq(H!Channels) /\ DOMAIN <<>> = {}
    BY <1>2 DEF H!Kept
  <2>. QED
    BY <1>2, <2>1 DEF Lists
<1>. QED
  BY <1>1, <1>2

\* Listed lists the set it is given.
LEMMA ListedLists ==
    ASSUME NEW set \in SUBSET H!Channels
    PROVE  Lists(H!Listed(set), set)
<1>. DEFINE A1 == H!AllChannels[1]
            A2 == H!AllChannels[2]
            A3 == H!AllChannels[3]
<1>1. A1 = "CALL" /\ A2 = "SMS" /\ A3 = "EMAIL" /\ H!Channels = {"CALL", "SMS", "EMAIL"}
  BY DEF H!AllChannels, H!Channels
<1>2. /\ Lists(H!Kept(A1, set), set \cap {A1}) /\ Lists(H!Kept(A2, set), set \cap {A2})
      /\ Lists(H!Kept(A3, set), set \cap {A3})
  BY <1>1, KeptLists
<1>. HIDE DEF A1, A2, A3
<1>3. Lists(H!Kept(A2, set) \o H!Kept(A3, set), (set \cap {A2}) \cup (set \cap {A3}))
  BY <1>1, <1>2, Joined
<1>4. Lists(H!Kept(A1, set) \o (H!Kept(A2, set) \o H!Kept(A3, set)),
            (set \cap {A1}) \cup ((set \cap {A2}) \cup (set \cap {A3})))
  BY <1>1, <1>2, <1>3, Joined
<1>5. (set \cap {A1}) \cup ((set \cap {A2}) \cup (set \cap {A3})) = set
  BY <1>1
<1>. QED
  BY <1>4, <1>5 DEF H!Listed, A1, A2, A3

\* Moving the degraded channels to the end keeps the open ones (RULE 7 and RULE 10).
LEMMA DegradedLastLists ==
    ASSUME NEW c
    PROVE  Lists(H!DegradedLast(c), H!Open(c)) /\ H!Open(c) \subseteq H!Channels
<1>. DEFINE degraded == {ch \in H!Channels : H!Health(c, ch) = "DEGRADED"}
<1>1. H!Open(c) \subseteq H!Channels
  BY DEF H!Open, H!Working, H!Consenting, H!Reachable
<1>2. /\ Lists(H!Listed(H!Open(c) \ degraded), H!Open(c) \ degraded)
      /\ Lists(H!Listed(H!Open(c) \cap degraded), H!Open(c) \cap degraded)
  BY <1>1, ListedLists
<1>. HIDE DEF degraded
<1>3. Lists(H!Listed(H!Open(c) \ degraded) \o H!Listed(H!Open(c) \cap degraded),
            (H!Open(c) \ degraded) \cup (H!Open(c) \cap degraded))
  BY <1>2, Joined
<1>4. (H!Open(c) \ degraded) \cup (H!Open(c) \cap degraded) = H!Open(c)
  OBVIOUS
<1>. QED
  BY <1>1, <1>3, <1>4 DEF H!DegradedLast, degraded

\* Taking a channel out and inserting it at the head neither adds nor loses one.
LEMMA ToFrontLists ==
    ASSUME NEW seq, NEW set, NEW ch \in set, Lists(seq, set)
    PROVE  Lists(H!ToFront(ch, seq), set) /\ H!ToFront(ch, seq)[1] = ch
<1>. DEFINE at == CHOOSE i \in DOMAIN seq : seq[i] = ch
            w == H!ToFront(ch, seq)
            n == Len(seq)
<1>1. /\ seq \in Seq(H!Channels) /\ n \in Nat /\ DOMAIN seq = 1 .. n
  BY DEF Lists
<1>2. at \in 1 .. n /\ seq[at] = ch
  <2>1. \E i \in DOMAIN seq : seq[i] = ch
    BY DEF Lists
  <2>. QED
    BY <1>1, <2>1
<1>3. w = [i \in 1 .. n |-> IF i = 1 THEN ch ELSE IF i <= at THEN seq[i - 1] ELSE seq[i]]
  BY <1>1 DEF H!ToFront
<1>. HIDE DEF at, w
<1>4. /\ ch \in H!Channels
      /\ \A i \in 1 .. n : seq[i] \in H!Channels /\ seq[i] \in set
  BY <1>1, <1>2 DEF Lists
<1>5. /\ w[1] = ch
      /\ \A i \in 2 .. n : i <= at => i - 1 \in 1 .. n /\ i - 1 < at /\ w[i] = seq[i - 1]
      /\ \A i \in 2 .. n : i > at => w[i] = seq[i]
      /\ DOMAIN w = 1 .. n
  BY <1>1, <1>2, <1>3
<1>6. \A i \in 1 .. n : i = 1 \/ i \in 2 .. n
  BY <1>1
<1>7. \A i \in 1 .. n : w[i] \in H!Channels /\ w[i] \in set
  BY <1>1, <1>2, <1>4, <1>5, <1>6
<1>8. w \in Seq(H!Channels)
  <2>1. w \in [1 .. n -> H!Channels]
    BY <1>3, <1>7
  <2>. QED
    BY <1>1, <2>1
<1>9. ASSUME NEW x \in set PROVE \E i \in DOMAIN w : w[i] = x
  <2>1. PICK j \in 1 .. n : seq[j] = x
    BY <1>1 DEF Lists
  <2>2. CASE j = at
    BY <1>1, <1>2, <1>5, <2>1, <2>2
  <2>3. CASE j < at
    <3>1. j + 1 \in 2 .. n /\ j + 1 <= at /\ (j + 1) - 1 = j
      BY <1>1, <1>2, <2>1, <2>3
    <3>2. w[j + 1] = seq[j]
      BY <1>5, <3>1
    <3>3. j + 1 \in DOMAIN w
      BY <1>1, <1>5, <3>1
    <3>. QED
      BY <2>1, <3>2, <3>3
  <2>4. CASE j > at
    <3>1. j \in 2 .. n
      BY <1>1, <1>2, <2>1, <2>4
    <3>2. w[j] = seq[j] /\ j \in DOMAIN w
      BY <1>1, <1>5, <2>1, <2>4, <3>1
    <3>. QED
      BY <2>1, <3>2
  <2>. QED
    BY <1>1, <1>2, <2>1, <2>2, <2>3, <2>4
<1>10. ASSUME NEW i \in DOMAIN w, NEW j \in DOMAIN w, w[i] = w[j]
       PROVE  i = j
  <2>. DEFINE from(k) == IF k = 1 THEN at ELSE IF k <= at THEN k - 1 ELSE k
  <2>1. /\ from(i) \in 1 .. n /\ w[i] = seq[from(i)]
        /\ from(j) \in 1 .. n /\ w[j] = seq[from(j)]
    BY <1>1, <1>2, <1>5, <1>6
  <2>2. from(i) = from(j)
    <3>. HIDE DEF from
    <3>. QED
      BY <1>1, <1>10, <2>1 DEF Lists
  <2>. QED
    BY <1>1, <1>2, <1>5, <2>2
<1>11. \A i \in DOMAIN w : w[i] \in set
  BY <1>5, <1>7
<1>12. Lists(w, set)
  BY <1>8, <1>9, <1>10, <1>11 DEF Lists
<1>. QED
  BY <1>5, <1>12 DEF w

\* prioritize_channels and RULE 12 move open channels only.
LEMMA CandidatesListed ==
    ASSUME NEW c
    PROVE  Lists(H!Candidates(c), H!Open(c))
<1>1. H!Engaged(c) \in H!Open(c) \cup {H!None} /\ H!Configured(c) \in H!Open(c) \cup {H!None}
  BY DEF H!Engaged, H!Configured
<1>2. Lists(H!Prioritized(c), H!Open(c))
  BY <1>1, DegradedLastLists, ToFrontLists DEF H!Prioritized
<1>. QED
  BY <1>2, ToFrontLists DEF H!Candidates, H!AiMoves

\* The four gates in a row let through what none of them closes (RULE 4, 6, 7 and 10).
LEMMA OpenUnlessClosed == H!Open(Case) = {ch \in H!Channels : ~Closed(ch)}
<1>1. Case.line = line
  BY DEF Case
<1>2. ASSUME NEW ch \in H!Channels
      PROVE  ch \in H!Open(Case) <=> ~Closed(ch)
  <2>1. ch \in H!Reachable(Case) <=> IF ch = "EMAIL" THEN "email" \in Case.contact
                                                   ELSE "phone" \in Case.contact
    BY DEF H!Reachable
  <2>2. H!Health(Case, ch) # "UNAVAILABLE"
           <=> ~(ch \in DOMAIN line.health /\ line.health[ch] = "UNAVAILABLE")
    BY <1>1 DEF H!Health
  <2>3. ch \in H!Open(Case) <=>
            (/\ ch \in H!Reachable(Case) /\ ch \notin line.opted_out
             /\ H!Health(Case, ch) # "UNAVAILABLE"
             /\ ch \notin line.suspended /\ ch \notin H!Failed(Case))
    BY <1>1 DEF H!Open, H!Working, H!Consenting
  <2>. QED
    BY <2>1, <2>2, <2>3 DEF Closed
<1>. QED
  BY <1>2, DegradedLastLists

\* channel_selector.py answers no candidates or all of them, a blocked request none, and in
\* a scope of the vocabulary: RULE 13 names the first candidate only when there is one.
LEMMA Offered ==
    ASSUME NEW c
    PROVE  LET a == H!Advise(c)
           IN  /\ a.candidates \in {<<>>, H!Candidates(c)}
               /\ a.blocked => ~a.live /\ a.candidates = <<>>
               /\ a.scope \in H!DeliveryScopes \cup {"CHANNEL_EXHAUSTED",
                                                    "REPLAY_CHANNEL_CANDIDATE", "NONE"}
<1>. DEFINE Scopes == H!DeliveryScopes
                          \cup {"CHANNEL_EXHAUSTED", "REPLAY_CHANNEL_CANDIDATE", "NONE"}
            Fair(a) == /\ a.candidates \in {<<>>, H!Candidates(c)}
                       /\ a.blocked => ~a.live /\ a.candidates = <<>>
                       /\ a.scope \in Scopes
<1>1. Fair(H!Blocked(c))
  BY DEF H!Blocked, H!Advisory
<1>2. ASSUME NEW scope \in Scopes, NEW urgency
      PROVE  Fair(H!Emit(c, H!Escalated(scope, urgency)))
  BY DEF H!Emit, H!Escalated, H!Advisory
<1>3. /\ Fair(H!Emit(c, H!Advisory("NONE", FALSE)))
      /\ Fair(H!Emit(c, [H!Advisory("NONE", FALSE) EXCEPT !.blocked = TRUE]))
  BY DEF H!Emit, H!Advisory
<1>4. ASSUME NEW scope \in Scopes
      PROVE  Fair(H!Emit(c, [H!Advisory(scope, TRUE) EXCEPT !.candidates = H!Candidates(c)]))
  BY DEF H!Emit, H!Advisory
<1>5. H!Open(c) # {} => H!Scope(c) \in Scopes
  <2>. SUFFICES ASSUME H!Open(c) # {} PROVE H!Scope(c) \in Scopes
    OBVIOUS
  <2>1. H!Candidates(c)[1] \in H!Channels
    <3>1. PICK i \in DOMAIN H!Candidates(c) : TRUE
      BY CandidatesListed DEF Lists
    <3>2. H!Candidates(c) \in Seq(H!Channels)
      BY CandidatesListed DEF Lists
    <3>3. 1 \in DOMAIN H!Candidates(c)
      BY <3>1, <3>2
    <3>. QED
      BY <3>2, <3>3
  <2>2. \A ch \in H!Channels : H!Preferred[ch] \in H!DeliveryScopes
    BY DEF H!Preferred, H!Channels, H!DeliveryScopes
  <2>3. "MULTI_CHANNEL_ELIGIBLE" \in H!DeliveryScopes
    BY DEF H!DeliveryScopes
  <2>. QED
    BY <2>1, <2>2, <2>3 DEF H!Scope
<1>6. "NONE" \in Scopes /\ "CHANNEL_EXHAUSTED" \in Scopes /\ "REPLAY_CHANNEL_CANDIDATE" \in Scopes
  OBVIOUS
<1>7. Fair(H!Advise(c))
  <2>. HIDE DEF Fair, Scopes
  <2>. QED
    BY <1>1, <1>2, <1>3, <1>4, <1>5, <1>6 DEF H!Advise
<1>. QED
  BY <1>7

\* A channel is offered if and only if no rule of channel_selector.py closes it, once, and in
\* whatever order: for all channel states, opt-outs, failure counts and preferences.
THEOREM OpenChannels == Spec => []OpenChannelsOnly
<1>1. OpenChannelsOnly
  <2>. DEFINE offered == advisory.candidates
  <2>1. offered = <<>> \/ offered = H!Candidates(Case)
    BY Offered DEF advisory
  <2>2. CASE offered = <<>>
    BY <2>2 DEF OpenChannelsOnly
  <2>3. CASE offered = H!Candidates(Case)
    <3>1. Lists(offered, {ch \in H!Channels : ~Closed(ch)})
      BY <2>3, CandidatesListed, OpenUnlessClosed
    <3>. HIDE DEF offered
    <3>2. {offered[i] : i \in DOMAIN offered} = {ch \in H!Channels : ~Closed(ch)}
      BY <3>1 DEF Lists
    <3>3. \A i, j \in DOMAIN offered : offered[i] = offered[j] => i = j
      BY <3>1 DEF Lists
    <3>. QED
      BY <3>2, <3>3 DEF OpenChannelsOnly, offered
  <2>. QED
    BY <2>1, <2>2, <2>3
<1>. QED
  BY <1>1, PTL

-----------------------------------------------------------------------------
(* Vocabularies *)

\* eligibility.py: what is blocked has no scope.
LEMMA EligibilityTypes ==
    ASSUME NEW c
    PROVE  LET e == E!Assess(c)
           IN  /\ e.scope \in E!EligibleScopes \cup {"NONE"}
               /\ e.blocked => e.scope = "NONE" /\ ~e.live
<1>. DEFINE Scopes == E!EligibleScopes \cup {"NONE"}
            Fair(e) == e.scope \in Scopes /\ (e.blocked => e.scope = "NONE" /\ ~e.live)
<1>1. ASSUME NEW scope \in Scopes, NEW level, NEW tier
      PROVE  Fair(E!Emit(c, scope, level, tier))
  BY DEF E!Emit, E!Assessment
<1>2. ASSUME NEW tier
      PROVE  Fair([E!Emit(c, "NONE", "UNKNOWN", tier) EXCEPT
                      !.blocked = TRUE, !.replay_safe = FALSE])
  BY DEF E!Emit, E!Assessment, E!EligibleScopes
<1>3. Fair(E!Blocked(c))
  BY DEF E!Blocked, E!Assessment
<1>4. /\ {"NONE", "ESCALATION_CANDIDATE", "PRIORITIZATION_ONLY", "REPLAY_CANDIDATE"}
             \subseteq Scopes
      /\ E!ContactScope(c) \in Scopes
  BY DEF E!EligibleScopes, E!ContactScope
<1>. HIDE DEF Fair, Scopes
<1>5. ASSUME NEW scope \in Scopes, NEW tier
      PROVE  Fair(E!Considered(c, scope, tier))
  BY <1>1, <1>4 DEF E!Considered
<1>6. Fair(E!Assess(c))
  BY <1>1, <1>2, <1>3, <1>4, <1>5 DEF E!Assess
<1>. QED
  BY <1>6 DEF Fair, Scopes

\* decision_engine.py: what is blocked has no authority.
LEMMA DecisionTypes ==
    ASSUME NEW c
    PROVE  LET d == D!Evaluate(c)
           IN  /\ d.scope \in {"AUTHORIZED", "SHADOW_ONLY", "REPLAY_ONLY", "UNAVAILABLE"}
               /\ d.blocked => d.scope \in {"REPLAY_ONLY", "UNAVAILABLE"}
<1>. DEFINE Fair(d) == /\ d.scope \in {"AUTHORIZED", "SHADOW_ONLY", "REPLAY_ONLY", "UNAVAILABLE"}
                       /\ d.blocked => d.scope \in {"REPLAY_ONLY", "UNAVAILABLE"}
<1>1. ASSUME NEW i PROVE Fair(D!Intent(c, i))
  BY DEF D!Intent, D!GovernanceScope
<1>2. ASSUME NEW u PROVE Fair(D!Escalation(c, u))
  BY DEF D!Escalation, D!Intent, D!GovernanceScope
<1>3. Fair(D!ReplayIntent(c)) /\ Fair(D!Blocked(c))
  BY DEF D!ReplayIntent, D!Blocked, D!Intent, D!GovernanceScope
<1>4. Fair([D!Intent(c, "CLOSE_ORCHESTRATION") EXCEPT !.urgency = "MEDIUM"])
  BY DEF D!Intent, D!GovernanceScope
<1>5. Fair(D!ByRisk(c))
  BY DEF D!ByRisk, D!Escalation, D!Intent, D!GovernanceScope
<1>6. Fair(D!Evaluate(c))
  <2>. HIDE DEF Fair
  <2>. QED
    BY <1>1, <1>2, <1>3, <1>4, <1>5 DEF D!Evaluate
<1>. QED
  BY <1>6

\* priority.py: what is blocked has no priority.
LEMMA PriorityTypes ==
    ASSUME NEW c
    PROVE  LET p == P!AssessPriority(c, {})
           IN  /\ Known(p.priority) \/ p.priority = "UNKNOWN"
               /\ p.blocked => p.priority = "UNKNOWN" /\ ~p.continues
<1>. DEFINE Fair(p) == /\ Known(p.priority) \/ p.priority = "UNKNOWN"
                       /\ p.blocked => p.priority = "UNKNOWN" /\ ~p.continues
<1>1. Fair(P!BlockedRecord(c)) /\ Fair(P!MaintenanceRecord(c)) /\ Fair(P!ReplayRecord(c))
  BY DEF P!BlockedRecord, P!MaintenanceRecord, P!ReplayRecord, P!Record
<1>2. Fair([P!Record(c, "UNKNOWN", "SHADOW_ONLY", "deferred") EXCEPT !.tier = "IN_FLIGHT"])
  BY DEF P!Record
<1>3. Known(P!AiAdjustment(c, P!AggregatePriority(c)))
  <2>1. Known(P!AggregatePriority(c))
    BY Weights DEF P!AggregatePriority
  <2>2. Known(P!Upgrade(P!AggregatePriority(c)))
    BY <2>1, Ranks DEF Known
  <2>. QED
    BY <2>1, <2>2 DEF P!AiAdjustment, Known
<1>4. Fair(P!Scored(c))
  BY <1>3 DEF P!Scored, P!Record
<1>5. Fair(P!AssessPriority(c, {}))
  <2>. HIDE DEF Fair
  <2>. QED
    BY <1>1, <1>2, <1>4 DEF P!AssessPriority
<1>. QED
  BY <1>5

\* ai_insights.py: what is blocked is suppressed.
LEMMA GuidanceTypes ==
    ASSUME NEW c
    PROVE  LET g == A!AssessAi(c, {})
           IN  /\ g.tier \in {"CONFIDENT", "ADVISORY", "STALE", "IN_FLIGHT", "UNAVAILABLE",
                              "FINALIZED_COPY"}
               /\ g.blocked => ~g.continues /\ g.suppressed
BY DEF A!AssessAi, A!BlockedAssessment, A!FinalizedCopy, A!ReplayAssessment,
       A!InFlightAssessment, A!UnavailableAssessment, A!Advice, A!Assessment, A!Tier, A!ByScore

\* The answers of the five engines stay in their vocabularies and a blocked one grants
\* nothing, for every request, rule set and student.
THEOREM EngineTypes == Spec => []TypeOK
<1>1. TypeOK
  BY EligibilityTypes, DecisionTypes, PriorityTypes, Offered, GuidanceTypes
     DEF TypeOK, eligibility, decision, priority, advisory, guidance
<1>. QED
  BY <1>1, PTL
=============================================================================
