------------------------------ MODULE Evidence ------------------------------
(***************************************************************************)
(* What the assessment engines (app/services/eligibility.py,               *)
(* decision_engine.py, priority.py, channel_selector.py, ai_insights.py)   *)
(* read of one student and one request, and how a fact is held against a   *)
(* threshold.                                                              *)
(*                                                                         *)
(* A case c is a record:                                                   *)
(*   mode, type, config, status, absent, replay   the request: absent      *)
(*         names the governance fields that are missing, replay what a     *)
(*         replay brings ("context", "artifact", "fingerprint", "versions")*)
(*   rules     the Config V2 thresholds that are set, a partial function   *)
(*   hold, access, contact   standing: compliance hold, access state, the  *)
(*         kinds of contact data on file                                   *)
(*   facts     what SQL Server knows, a partial function on Facts          *)
(*   escalations, trend      history                                       *)
(*   state, attempts, retry  outreach                                      *)
(*   insight   the AI insight: [state, finalized, stale, aged, score,      *)
(*         advice, model, breaker]                                         *)
(***************************************************************************)
EXTENDS Naturals

None == "none"
Facts == {"hws", "effort", "inactivity", "balance", "since_contact"}
ReplayTypes == {"replay", "regeneration"}

IsReplay(c) == c.type \in ReplayTypes

Levels == <<"LOW", "MEDIUM", "HIGH", "CRITICAL">>
Rank(level) == CHOOSE i \in 1..4 : Levels[i] = level
Upgrade(level) == IF level = "CRITICAL" THEN level ELSE Levels[Rank(level) + 1]

\* A fact that is missing, or a threshold that is not set, is no risk.
Known(c, fact, key) == fact \in DOMAIN c.facts /\ key \in DOMAIN c.rules
AtLeast(c, fact, key) == Known(c, fact, key) /\ c.facts[fact] >= c.rules[key]
Above(c, fact, key)   == Known(c, fact, key) /\ c.facts[fact] > c.rules[key]
Below(c, fact, key)   == Known(c, fact, key) /\ c.facts[fact] < c.rules[key]
Recurs(c, key)        == key \in DOMAIN c.rules /\ c.escalations >= c.rules[key]

Exhausted(c, key) == key \in DOMAIN c.rules /\ c.attempts >= c.rules[key]

Several(factors) == \E x, y \in factors : x # y

\* Two high factors are critical, a high one with a medium one is high.
\* Faulty variant: a high one alone counts for nothing.
WeighWithoutSingle(high, medium) ==
    IF Several(high)                              THEN "CRITICAL"
    ELSE IF high # {} /\ medium # {}              THEN "HIGH"
    ELSE IF medium # {}                           THEN "MEDIUM"
    ELSE "LOW"

Weigh(high, medium) ==
    IF Several(high)                              THEN "CRITICAL"
    ELSE IF high # {} /\ medium # {}              THEN "HIGH"
    ELSE IF high # {} \/ medium # {}              THEN "MEDIUM"
    ELSE "LOW"

Factor(name, present) == IF present THEN {name} ELSE {}

\* A finished insight is believed or only heard by its score.
ByScore(insight) == IF insight.score >= 70 THEN "CONFIDENT" ELSE "ADVISORY"
=============================================================================
