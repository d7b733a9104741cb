---------------------------- MODULE OutreachCase -----------------------------
(***************************************************************************)
(* A case as spec/03_state_transition_rules.md describes it: a move is     *)
(* decided on the current state, is one the transition table allows, and is*)
(* recorded in the audit trail in the same step.  CLOSED has no way out    *)
(* because the table has none.                                             *)
(***************************************************************************)
EXTENDS Sequences

CONSTANTS Rows, Table, Absent, FirstStates

VARIABLES state, trail

Init ==
    /\ state \in [Rows -> FirstStates \cup {Absent}]
    /\ trail = [r \in Rows |-> <<>>]

Load(r) ==
    /\ state[r] = Absent
    /\ \E s \in FirstStates : state' = [state EXCEPT ![r] = s]
    /\ UNCHANGED trail

Move(r) ==
    /\ state[r] # Absent
    /\ \E s \in Table[state[r]] :
         /\ state' = [state EXCEPT ![r] = s]
         /\ trail' = [trail EXCEPT ![r] = Append(@, <<state[r], s>>)]

Next == \E r \in Rows : Load(r) \/ Move(r)

Spec == Init /\ [][Next]_<<state, trail>>
=============================================================================
