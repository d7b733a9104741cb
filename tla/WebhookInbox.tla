---------------------------- MODULE WebhookInbox -----------------------------
(***************************************************************************)
(* What the webhook promises its sender, with no sessions, locks or replies*)
(* in sight: "Same event_id must be processed once"                        *)
(* (spec/04_idempotency_concurrency.md, RULE 3).  Processing an event and  *)
(* remembering it are one step.                                            *)
(***************************************************************************)
EXTENDS Naturals

CONSTANT Events

VARIABLES remembered, effects

Init ==
    /\ remembered = {}
    /\ effects = [e \in Events |-> 0]

Process(e) ==
    /\ e \notin remembered
    /\ remembered' = remembered \cup {e}
    /\ effects' = [effects EXCEPT ![e] = @ + 1]

Next == \E e \in Events : Process(e)

Spec == Init /\ [][Next]_<<remembered, effects>>
=============================================================================
