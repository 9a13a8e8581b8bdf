---------------------------- MODULE SatContract ----------------------------
(***************************************************************************)
(* Outcome policy of the SAT mass-download protocol (sat_contract.py): how *)
(* the pair (EstadoSolicitud, CodEstatus) of a SAT answer becomes the      *)
(* action the rest of the program branches on.  Pure operators, no state.  *)
(***************************************************************************)

\* domain.py SatRequestState; "none" stands for Python's None, a code-only answer.
RequestStates == {"accepted", "in_process", "finished", "error", "rejected", "expired"}
NoState == "none"

\* Every code the classifier tells apart; "other" is any code it does not name.
UnauthorizedCodes == {"300", "303", "304", "305", "5001"}
EmptyOrInvalidCodes == {"301", "302", "5003", "5004"}
DuplicateCodes == {"5002", "5005"}
ExhaustedCodes == {"5008", "5011"}
SatCodes == UnauthorizedCodes \cup EmptyOrInvalidCodes \cup DuplicateCodes
              \cup ExhaustedCodes \cup {"404", "5000", "5007", "no_data", "other"}

\* SatOperation and SatOutcomeAction.
SatOperations == {"authenticate", "request", "verify", "download", "status"}
SatActions == {"accepted", "in_progress", "finished", "retry", "permanent_failure",
               "expired", "unauthorized", "duplicate", "downloads_exhausted"}

\* _classify_state: every EstadoSolicitud has an action of its own.
ClassifyState(state) ==
  CASE state = "accepted"               -> "accepted"
    [] state = "in_process"             -> "in_progress"
    [] state = "finished"               -> "finished"
    [] state = "expired"                -> "expired"
    [] state \in {"error", "rejected"}  -> "permanent_failure"

\* The code branch of classify_sat_outcome, taken only when there is no state.
ClassifyCode(operation, code) ==
  CASE code \in UnauthorizedCodes   -> "unauthorized"
    [] code \in EmptyOrInvalidCodes -> "permanent_failure"
    [] code \in DuplicateCodes      -> "duplicate"
    [] code = "5007"                -> "expired"
    [] code \in ExhaustedCodes      -> "downloads_exhausted"
    [] code = "5000"                -> IF operation = "download" THEN "finished" ELSE "accepted"
    [] code \in {"404", "no_data", "other"} -> "retry"

\* classify_sat_outcome: the state wins over the code.
ClassifySatOutcome(operation, code, state) ==
  IF state # NoState THEN ClassifyState(state) ELSE ClassifyCode(operation, code)

\* What parse_verification_response hands to the scheduler: EstadoSolicitud is
\* required and must be one of the six, so the action always follows the state.
VerificationResult(state, code) ==
  [state |-> state, code |-> code, action |-> ClassifySatOutcome("verify", code, state)]

\* The codes _is_no_data recognises; "no_data" is not a code of SAT, but a verifier may use it.
NoDataCodes == EmptyOrInvalidCodes \cup {"no_data"}
=============================================================================
