---------------------------- MODULE MCMirrorSync ----------------------------
(* Instances of MirrorSync: two students of one population and one of the *)
(* other, the scheduler and the requests of a client beside it.            *)
EXTENDS MirrorSync

CONSTANTS s1, s2, p1

\* AI_ChatBot_TriggerData changes once; the other
\* sources stand still.
MCVersions == [k \in Sources |-> IF k = "trigger" THEN 2 ELSE 1]

MCJobs == [w \in Workers |-> IF w = Scheduler THEN {"daily", "messages"}
                             ELSE {"pipeline"} \cup Syncs]

\* The daily job runs for ever, and each worker takes one request.
MCStarts == [w \in Workers |-> 1]
=============================================================================
