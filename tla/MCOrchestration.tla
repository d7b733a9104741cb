--------------------------- MODULE MCOrchestration --------------------------
(***************************************************************************)
(* Two periods of days, with the trigger hour of app/config.py: 18:00 in   *)
(* America/Chicago, which is midnight UTC in winter and 23:00 UTC in summer.*)
(***************************************************************************)
EXTENDS Orchestration

\* From 31 December 2025, day 1, to 2 January.
YearTurn == {49, 95, 96, 97, 98, 100, 104, 105, 144, 146}
YearTurnCycles == {96, 144}

\* From 7 to 9 March 2026, days 67 to 69.  The clocks change on the 8th: the cycle of the
\* 7th is due at its first instant, and that of the 8th at 23:00 of the same date.
SpringChange == {3263, 3264, 3266, 3310, 3312, 3358}
SpringCycles == {3264, 3310, 3358}

BothPeriods == YearTurn \cup SpringChange
BothPeriodsOpen == {49, 3263}
BothPeriodsCycles == YearTurnCycles \cup SpringCycles
SpringOpens == {3263}

MCMonth == [day \in (0 .. 4) \cup (66 .. 70) |->
              IF day < 2 THEN <<2025, 12>> ELSE IF day < 33 THEN <<2026, 1>> ELSE <<2026, 3>>]

\* One key, sent again as it was, under a hold, in maintenance, as a replay and as a
\* recovery; and a request without attribution.
Variants(ctx) == {ctx, [ctx EXCEPT !.maintenance = TRUE], [ctx EXCEPT !.hold = TRUE],
                  [ctx EXCEPT !.type = "replay"], [ctx EXCEPT !.type = "recovery"],
                  [ctx EXCEPT !.absent = {"origin_source"}]}
SyncCtx == [SyncRequest("SHADOW", "original", "1") EXCEPT !.key = "k"]
OutreachCtx == [OutreachRequest("SHADOW", "original", "1") EXCEPT !.key = "k"]
MCRequests == [service : {"sync"}, ctx : Variants(SyncCtx)]
              \cup [service : {"outreach"}, ctx : Variants(OutreachCtx)]

MCBatches == {None, UNKNOWN_V0, "1"}

\* Two students: contact attempts so far.
MCStudents == [a |-> 0, b |-> 2]
=============================================================================
