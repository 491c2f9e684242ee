---------------------------- MODULE ExecutionStates ----------------------------
(* The execution state machine of src/src/execution.py, as pure operators.    *)
(* An execution record moves only along VALID_TRANSITIONS; the sets below say *)
(* what a state means to the scripts that read it.                            *)

VALID_TRANSITIONS ==
  [ PROPOSED |-> {"APPROVED", "REJECTED", "EXPIRED", "CANCELLED", "REEVALUATION_REQUIRED"},
    APPROVED |-> {"PRE_EXECUTION_VALIDATED", "EXPIRED", "REAPPROVAL_REQUIRED",
                  "REEVALUATION_REQUIRED", "REJECTED", "CANCELLED"},
    PRE_EXECUTION_VALIDATED |->
                 {"SUBMITTED", "SUBMISSION_UNCERTAIN", "EXECUTION_FAILED",
                  "REAPPROVAL_REQUIRED", "REEVALUATION_REQUIRED", "CANCELLED", "EXPIRED"},
    SUBMITTED |-> {"PARTIALLY_FILLED", "FILLED", "CANCELLED", "REJECTED", "EXECUTION_FAILED"},
    SUBMISSION_UNCERTAIN |->
                 {"SUBMITTED", "PARTIALLY_FILLED", "FILLED", "EXECUTION_FAILED",
                  "CANCELLED", "REJECTED"},
    PARTIALLY_FILLED |-> {"FILLED", "CANCELLED"},
    REAPPROVAL_REQUIRED |-> {"APPROVED", "CANCELLED", "EXPIRED", "REEVALUATION_REQUIRED"},
    REEVALUATION_REQUIRED |-> {"CANCELLED", "EXPIRED"},
    FILLED |-> {}, REJECTED |-> {}, EXPIRED |-> {}, CANCELLED |-> {}, EXECUTION_FAILED |-> {} ]

ExecutionState ==
  { "PROPOSED", "APPROVED", "PRE_EXECUTION_VALIDATED", "SUBMITTED", "SUBMISSION_UNCERTAIN",
    "PARTIALLY_FILLED", "FILLED", "REJECTED", "EXPIRED", "REAPPROVAL_REQUIRED",
    "REEVALUATION_REQUIRED", "EXECUTION_FAILED", "CANCELLED" }

TERMINAL_STATES == {"FILLED", "REJECTED", "EXPIRED", "CANCELLED", "EXECUTION_FAILED"}
RELEASED_STATES == TERMINAL_STATES \union {"REEVALUATION_REQUIRED"}
IN_FLIGHT_STATES == {"SUBMITTED", "SUBMISSION_UNCERTAIN", "PARTIALLY_FILLED", "FILLED"}

(* assert_transition: raises unless the move is one of the edges. *)
CanMove(current, target) == target \in VALID_TRANSITIONS[current]

(* plan_transitions_to_approved: an APPROVED record is re-approved through    *)
(* REAPPROVAL_REQUIRED, any other must have the edge itself.                  *)
CanApprove(current) ==
  IF current = "APPROVED"
  THEN CanMove("APPROVED", "REAPPROVAL_REQUIRED") /\ CanMove("REAPPROVAL_REQUIRED", "APPROVED")
  ELSE CanMove(current, "APPROVED")

(* A closure that only looks at what was released already (for mutation).     *)
CanCloseInFlight(current) == current \notin RELEASED_STATES

(* plan_closure, for a ground that holds: a released record is left alone, an *)
(* in-flight one refused, any other goes to REEVALUATION_REQUIRED.            *)
CanClose(current) ==
  /\ current \notin RELEASED_STATES
  /\ current \notin IN_FLIGHT_STATES
  /\ CanMove(current, "REEVALUATION_REQUIRED")

(* Reconciliations that ignore the machine, or the uncertain record (for      *)
(* mutation).                                                                 *)
CanSettleAlways(current, outcome) == current # outcome
CanSettleSubmitted(current, outcome) == current = "SUBMITTED" /\ CanMove(current, outcome)

(* The moves a reconciliation makes: an uncertain record whose order filled,  *)
(* wholly or in part, passes through SUBMITTED.                               *)
CanSettle(current, outcome) ==
  IF current = "SUBMISSION_UNCERTAIN" /\ outcome \in {"FILLED", "PARTIALLY_FILLED"}
  THEN CanMove(current, "SUBMITTED") /\ CanMove("SUBMITTED", outcome)
  ELSE CanMove(current, outcome)
================================================================================
