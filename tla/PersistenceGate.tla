--------------------------- MODULE PersistenceGate ---------------------------
(***************************************************************************)
(* RULE 0 of every governed write (app/repositories/_repository_helpers.py,*)
(* vocabularies of _repository_types.py).  Each repository function first  *)
(* collects the blocking codes of the request's attribution; an empty set  *)
(* lets the write through, any code turns the call into a logged no-op.    *)
(*                                                                         *)
(* The attribution is a record of the four fields the gate reads.  Presence*)
(* of the correlation id and of the scope is all the gate looks at, so     *)
(* these two are Booleans; mode and type are compared with a vocabulary    *)
(* and keep their text.                                                    *)
(***************************************************************************)
EXTENDS FiniteSets

ValidExecutionModes ==
    {"LIVE", "SHADOW", "REPLAY", "REGENERATION", "DEGRADED", "MAINTENANCE"}

ValidExecutionTypes == {"original", "replay", "regeneration", "recovery"}

ReplayExecutionTypes == {"replay", "regeneration"}

(***************************************************************************)
(* settings.EXECUTION_MODE is a member of `class ExecutionMode(str, Enum)`.*)
(* The handlers hand the gate str(member), which for such a class is       *)
(* "ExecutionMode.<NAME>" and not the member's value.                      *)
(***************************************************************************)
StrOfExecutionMode(m) ==
    IF m = "SHADOW" THEN "ExecutionMode.SHADOW" ELSE "ExecutionMode.LIVE"

CheckAttributionFields(a) ==
    {code \in {"CORRELATION_ID_MISSING", "EXECUTION_MODE_MISSING", "INVALID_EXECUTION_MODE",
               "EXECUTION_TYPE_MISSING", "INVALID_EXECUTION_TYPE", "GOVERNANCE_SCOPE_MISSING"} :
        \/ code = "CORRELATION_ID_MISSING" /\ ~ a.correlation
        \/ code = "EXECUTION_MODE_MISSING" /\ a.mode = ""
        \/ code = "INVALID_EXECUTION_MODE" /\ a.mode \notin ValidExecutionModes \cup {""}
        \/ code = "EXECUTION_TYPE_MISSING" /\ a.type = ""
        \/ code = "INVALID_EXECUTION_TYPE" /\ a.type \notin ValidExecutionTypes \cup {""}
        \/ code = "GOVERNANCE_SCOPE_MISSING" /\ ~ a.scope}

\* A replay may repeat a key; anything else may use it once.
CheckIdempotency(hasKey, seenBefore, type) ==
    IF hasKey /\ seenBefore /\ type \notin ReplayExecutionTypes
    THEN {"IDEMPOTENCY_DUPLICATE"} ELSE {}

CheckFinalizedProtection(isFinalized) ==
    IF isFinalized THEN {"FINALIZED_MUTATION_BLOCKED"} ELSE {}

\* Every caller in the repository leaves target_is_live at its default, False,
\* so the replay-over-LIVE check never contributes a code.
GovernancePersistenceGate(a, hasKey, seenBefore, isFinalized) ==
    CheckAttributionFields(a)
    \cup CheckFinalizedProtection(isFinalized)
    \cup CheckIdempotency(hasKey, seenBefore, a.type)

\* build_request_attribution / _log_transition / execute_manual_action: the
\* correlation id is generated when the caller sent none, the type is the
\* literal "original" and the scope is never empty.
OriginalAttribution(modeText) ==
    [correlation |-> TRUE, mode |-> modeText, type |-> "original", scope |-> TRUE]

\* Does an original write with no idempotency key pass RULE 0?
GatePasses(modeText) ==
    GovernancePersistenceGate(OriginalAttribution(modeText), FALSE, FALSE, FALSE) = {}
=============================================================================
