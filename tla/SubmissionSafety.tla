---------------------------- MODULE SubmissionSafety ----------------------------
(* What the submission pipeline must keep true, and the promise it implements.*)
(* The first group holds however many shells run scripts at once; the second  *)
(* needs scripts to run one at a time.                                        *)
EXTENDS SubmissionPipeline

(* --- any number of shells ------------------------------------------------ *)

(* The write-ahead entry of ticket t for decision d is in the audit log, and  *)
(* the ticket froze exactly the policy, switches open, of the approval a      *)
(* human typed for d.                                                         *)
IntentUnderApproval(d, t) ==
  /\ t \in 1 .. Len(minted)
  /\ intents[t] > 0
  /\ minted[t].decision = d
  /\ minted[t].policy.armed
  /\ minted[t].approval \in 1 .. Len(grants)
  /\ grants[minted[t].approval] = [decision |-> d, policy |-> minted[t].policy]
WasIntended(d) == \E t \in TicketIds : IntentUnderApproval(d, t)

(* Every order at the broker, and every handoff file that could become one,   *)
(* goes back to a write-ahead intent under a human approval of that same      *)
(* decision, whatever processes interleaved or died (submit_once,             *)
(* verify_ticket, create_ticket, verify_approval).                            *)
OrdersAreApproved ==
  /\ \A d \in Decisions : orders[d].phase # "none" => WasIntended(d)
  /\ handoff.decision # NoDecision => WasIntended(handoff.decision)

(* What the broker must show before a record may be in a state.               *)
BrokerShows(state, order) ==
  /\ state \in {"SUBMITTED", "PARTIALLY_FILLED"} => order.phase # "none"
  /\ state = "FILLED" => order.phase = "filled"
  /\ state = "REJECTED" => order.phase = "rejected"
  /\ state = "CANCELLED" => order.phase = "cancelled"

(* A record on disk, or in the copy some script will write back, never claims *)
(* more than the audit log and the broker show: in flight only after an       *)
(* intent, SUBMITTED only with an order, FILLED only when it filled, dead     *)
(* only when it died (record_submission, reconcile_submission).               *)
CopyHasEvidence(copy) ==
  \A d \in Decisions :
    /\ BrokerShows(copy[d], orders[d])
    /\ copy[d] = "SUBMISSION_UNCERTAIN" => WasIntended(d)
RecordsHaveEvidence ==
  /\ CopyHasEvidence(executions)
  /\ \A w \in Shells : CopyHasEvidence(shell[w].executions)

(* The ledger never holds more dollars than the orders it names filled for,   *)
(* nor more than the month authorizes (commit_purchase, save_budget_state).   *)
Filled == [d \in Decisions |-> orders[d].filled]
LedgerIsBacked ==
  /\ ledger.committed <= SumOver(Filled, ledger.acted)
  /\ ledger.committed <= Authorization
  /\ \A d \in ledger.acted : orders[d].filled > 0

(* --- one shell ----------------------------------------------------------- *)

(* A ticket reaches the broker's door at most once, crashes included: its     *)
(* consumed mark is durable before its intent is (submit_once, save_tickets). *)
TicketUsedOnce == \A t \in TicketIds : intents[t] <= 1

(* No approval is on file for a decision without a record: the ledger is      *)
(* saved first, so a half-written approval fails closed (approve_decision).   *)
ApprovalHasRecord == \A d \in Decisions : approvals[d] # 0 => HasRecord(d)

(* executions.json as a whole only ever moves along the state machine, one    *)
(* edge at a time, although every save replaces every record.                 *)
DiskFollowsStateMachine ==
  [][\A d \in Decisions :
       executions'[d] = executions[d] \/ CanMove(executions[d], executions'[d])]_vars

(* At the moment order parameters are handed out, the files on disk still     *)
(* support it: the record is PRE_EXECUTION_VALIDATED, the approval on file is *)
(* the one the ticket cites, and the ticket is marked consumed.               *)
HandoffIsCurrent ==
  [][(handoff' # handoff /\ ~ handoff'.called) =>
       LET d == handoff'.decision
           t == handoff'.ticket
       IN  /\ executions[d] = "PRE_EXECUTION_VALIDATED"
           /\ approvals[d] = minted[t].approval
           /\ tickets[t] = "consumed"]_vars

(* A month's ledger only grows, and a decision enters it once its record says *)
(* the order executed (reconcile_submission: records first, ledger after).    *)
LedgerFollowsRecords ==
  [][/\ ledger.committed <= ledger'.committed
     /\ ledger.acted \subseteq ledger'.acted
     /\ \A d \in ledger'.acted \ ledger.acted :
          executions[d] \in {"PARTIALLY_FILLED", "FILLED", "CANCELLED"}]_vars

(* The pipeline implements the promise of OrderLifecycle.                     *)
Side(phase) ==
  CASE phase \in {"open", "partial"} -> "live"
    [] phase \in {"cancelled", "rejected"} -> "dead"
    [] OTHER -> phase
Lifecycle == INSTANCE OrderLifecycle WITH
  record <- executions,
  granted <- { grants[a].decision : a \in 1 .. Len(grants) },
  intended <- { minted[t].decision : t \in { u \in 1 .. Len(minted) : intents[u] > 0 } },
  order <- [d \in Decisions |-> Side(orders[d].phase)],
  booked <- ledger.acted
ImplementsLifecycle == Lifecycle!LifecycleSpec

(* --- liveness ------------------------------------------------------------ *)

(* A record left in SUBMISSION_UNCERTAIN whose order exists is eventually     *)
(* settled, whatever died on the way.                                         *)
UncertainSettles ==
  \A d \in Decisions :
    (executions[d] = "SUBMISSION_UNCERTAIN" /\ orders[d].phase # "none")
      ~> executions[d] \in TERMINAL_STATES

(* A decision that stays authorized is eventually given a ticket              *)
(* (FIRST_LIVE_PURCHASE section 7).                                           *)
AuthorizedIsTicketed ==
  \A d \in Decisions :
    <>[]Authorized(d) => <>(\E t \in TicketIds : tickets[t] # "absent")

(* --- what the documents say and the code does not do --------------------- *)

(* submission.py: a crash at any point leaves the record in                   *)
(* SUBMISSION_UNCERTAIN.                                                      *)
CrashLeavesUncertain ==
  \A d \in Decisions :
    orders[d].phase # "none" /\ (\A w \in Shells : shell[w].at = "idle") =>
      executions[d] \in IN_FLIGHT_STATES \union TERMINAL_STATES

(* README, Monthly authorization: executed, pending and approved amounts are  *)
(* counted together, so the orders of a month stay within its authorization.  *)
OrdersWithinAuthorization ==
  SumOver([d \in Decisions |-> CommittedUsd(d)],
          { d \in Decisions : orders[d].phase # "none" }) <= Authorization

(* FIRST_LIVE_PURCHASE, emergency recovery: a fill missing from the ledger is *)
(* put there by running reconcile_submission again with --commit.             *)
FilledIsCommitted ==
  \A d \in Decisions : executions[d] = "FILLED" ~> d \in ledger.acted

(* FIRST_LIVE_PURCHASE, emergency recovery: after repeated not-found results  *)
(* and a human decision, a new ticket may be minted.                          *)
NotFoundCanBeTicketedAgain ==
  \A d \in Decisions :
    <>[](executions[d] = "SUBMISSION_UNCERTAIN" /\ handoff.called /\ ApprovalVerified(d)
           /\ policy.armed /\ orders[d].phase = "none")
      => <>(Len(minted) > 1)
================================================================================
