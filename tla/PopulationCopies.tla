-------------------------- MODULE PopulationCopies --------------------------
(***************************************************************************)
(* What the syncs promise of a population of students: its copy changes    *)
(* as a whole, in one step, to something its source has said by then (the  *)
(* upserts of app/services/sync.py and their one commit).  They do not     *)
(* promise the newest: of two fetches the older may be written last.       *)
(* "copy" is the set of the versions that the rows of a population hold.   *)
(***************************************************************************)
EXTENDS Naturals

CONSTANTS Populations, Limit

VARIABLES source, copy

Init ==
    /\ source = [p \in Populations |-> 1]
    /\ copy = [p \in Populations |-> {0}]

Speak(p) ==
    /\ source[p] < Limit[p]
    /\ source' = [source EXCEPT ![p] = @ + 1]
    /\ UNCHANGED copy

Replace(p) ==
    /\ \E v \in 1 .. source[p] : copy' = [copy EXCEPT ![p] = {v}]
    /\ UNCHANGED source

Next == \E p \in Populations : Speak(p) \/ Replace(p)

Spec == Init /\ [][Next]_<<source, copy>>
=============================================================================
