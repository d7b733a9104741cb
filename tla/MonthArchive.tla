---------------------------- MODULE MonthArchive -----------------------------
(***************************************************************************)
(* What the warehouse promises of one month: a student's record is frozen  *)
(* once (alembic 0002: "exactly one FINALIZED row per (student, month)"),  *)
(* and whatever is published of the student is what was frozen ("historical*)
(* analytics use snapshot data only").                                     *)
(***************************************************************************)
EXTENDS Naturals

CONSTANTS Students, Records, None

VARIABLES frozen, published

Init ==
    /\ frozen = [s \in Students |-> None]
    /\ published = [s \in Students |-> None]

Freeze(s) ==
    /\ frozen[s] = None
    /\ \E d \in Records : frozen' = [frozen EXCEPT ![s] = d]
    /\ UNCHANGED published

Publish(s) ==
    /\ frozen[s] # None
    /\ published' = [published EXCEPT ![s] = frozen[s]]
    /\ UNCHANGED frozen

Next == \E s \in Students : Freeze(s) \/ Publish(s)

Spec == Init /\ [][Next]_<<frozen, published>>
=============================================================================
