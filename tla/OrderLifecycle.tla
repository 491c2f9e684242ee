----------------------------- MODULE OrderLifecycle -----------------------------
(* What the submission pipeline promises about a decision, without its files, *)
(* tickets, scripts or crashes: a human grants it, an intent is recorded, the *)
(* broker may then hold one order for it, the record follows the state        *)
(* machine on evidence, and a confirmed fill is booked once.                  *)
EXTENDS ExecutionStates

CONSTANT Decisions

VARIABLES
  record,     \* the state of each decision
  granted,    \* decisions a human approved
  intended,   \* decisions whose submission was announced in the audit log
  order,      \* the broker's order: none, live, filled or dead
  booked      \* decisions whose spend is in the month's ledger

lifecycle == << record, granted, intended, order, booked >>

LifecycleInit ==
  /\ record = [d \in Decisions |-> "PROPOSED"]
  /\ granted = {}
  /\ intended = {}
  /\ order = [d \in Decisions |-> "none"]
  /\ booked = {}

Grant(d) ==
  /\ record[d] \in {"PROPOSED", "APPROVED"}
  /\ granted' = granted \union {d}
  /\ UNCHANGED << record, intended, order, booked >>

(* Only the record of a granted decision that passed preflight is announced.  *)
Intend(d) ==
  /\ d \in granted
  /\ record[d] = "PRE_EXECUTION_VALIDATED"
  /\ intended' = intended \union {d}
  /\ UNCHANGED << record, granted, order, booked >>

(* What must be known before a record may say it.                             *)
Evidence(d, state) ==
  CASE state \in {"APPROVED", "PRE_EXECUTION_VALIDATED"} -> d \in granted
    [] state = "SUBMISSION_UNCERTAIN" -> d \in intended
    [] state \in {"SUBMITTED", "PARTIALLY_FILLED"} -> order[d] # "none"
    [] state = "FILLED" -> order[d] = "filled"
    [] state \in {"CANCELLED", "REJECTED"} -> order[d] = "dead"
    [] OTHER -> TRUE

Move(d, state) ==
  /\ CanMove(record[d], state)
  /\ Evidence(d, state)
  /\ record' = [record EXCEPT ![d] = state]
  /\ UNCHANGED << granted, intended, order, booked >>

Place(d) ==
  /\ d \in intended
  /\ order[d] = "none"
  /\ order' = [order EXCEPT ![d] = "live"]
  /\ UNCHANGED << record, granted, intended, booked >>

End(d, phase) ==
  /\ order[d] = "live"
  /\ order' = [order EXCEPT ![d] = phase]
  /\ UNCHANGED << record, granted, intended, booked >>

(* The ledger follows the record, never the other way round.                  *)
Book(d) ==
  /\ record[d] \in {"PARTIALLY_FILLED", "FILLED", "CANCELLED"}
  /\ d \notin booked
  /\ booked' = booked \union {d}
  /\ UNCHANGED << record, granted, intended, order >>

LifecycleNext ==
  \E d \in Decisions :
    \/ Grant(d)
    \/ Intend(d)
    \/ \E state \in ExecutionState : Move(d, state)
    \/ Place(d)
    \/ \E phase \in {"filled", "dead"} : End(d, phase)
    \/ Book(d)

LifecycleSpec == LifecycleInit /\ [][LifecycleNext]_lifecycle
================================================================================
