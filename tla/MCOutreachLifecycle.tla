------------------------- MODULE MCOutreachLifecycle -------------------------
(***************************************************************************)
(* Instances of OutreachLifecycle.  GHL sends a positive answer twice as   *)
(* two messages with one body (m1, m2), a transcript (m3) and a body the   *)
(* handler must refuse (m4); user u1 has one tracking row or, once r2 is   *)
(* loaded, two.                                                            *)
(***************************************************************************)
EXTENDS OutreachLifecycle, TLC

CONSTANTS h1, h2, r1, r2, u1, m1, m2, m3, m4, e1, e3, e4

\* What the process computes from settings.EXECUTION_MODE = SHADOW, and the text
\* the vocabulary of the persistence layer expects.
DeployedText == StrOfExecutionMode("SHADOW")
VocabularyText == "SHADOW"

MCHash == [m \in Messages |-> CASE m \in {m1, m2} -> e1 [] m = m3 -> e3 [] m = m4 -> e4]
MCBody ==
    LET Every == e1 :> [type |-> "SMS_RESPONSE", positive |-> TRUE, user |-> u1]
                   @@ e3 :> [type |-> "TRANSCRIPT_READY", positive |-> FALSE, user |-> u1]
                   @@ e4 :> [type |-> "OTHER", positive |-> FALSE, user |-> NoUser]
    IN  [e \in {MCHash[m] : m \in Messages} |-> Every[e]]

OneRow == r1 :> u1
TwoRows == r1 :> u1 @@ r2 :> u1

Found == {"CONTACTED", "NO_RESPONSE"}
Everything == States

Symmetry == Permutations({h1, h2})
=============================================================================
