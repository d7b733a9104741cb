----------------------------- MODULE MCWarehouse -----------------------------
(* Instances of Warehouse: two students, two jobs at a time. *)
EXTENDS Warehouse, TLC

CONSTANTS s1, s2, w1, w2

\* A student who has newer rows is in a later segment.
TwoClasses == <<{"NEWCOMERS"}, {"PLACEMENT_HOPEFULS"}>>

\* One worker runs the captures and what goes over all students, the other the
\* requests for one student.
SchedulerAndClient == w1 :> {"month", "capture", "all", "cohorts"} @@ w2 :> {"one", "report"}

\* Two captures, of the cron job and of a client.
TwoCaptures == w1 :> {"capture"} @@ w2 :> {"capture"}

\* The other student's rows change twice.
OnceAndTwice == s1 :> 1 @@ s2 :> 2

\* One student's narratives are generated twice, by two overlapping requests.
TwiceForOne == s1 :> 2 @@ s2 :> 0
=============================================================================
