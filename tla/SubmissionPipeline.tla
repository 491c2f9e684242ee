--------------------------- MODULE SubmissionPipeline ---------------------------
(* From an approved decision to a settled order: the scripts an operator runs *)
(* (approve_decision, prepare_submission, submit_approved, record_submission, *)
(* reconcile_submission, close_stale_decision), the files they share under    *)
(* state/, and the broker.  No script takes a lock: each loads whole files,   *)
(* works on its copy, and writes whole files back one at a time.  A step here *)
(* is the reads a script makes before it writes, or the write of one file; a  *)
(* process may die between any two steps.                                     *)
EXTENDS ExecutionStates, Integers, Sequences, FiniteSets, Sums

CONSTANTS
  Decisions,            \* the BUY decisions already in logs/decisions.jsonl
  Shells,               \* the shells the operator may run a script in at once
  Amount,               \* dollars each decision proposes
  Authorization,        \* the month's authorized budget
  NoDecision,           \* a shell that is not working, a handoff never written
  MaxApprovals,         \* bound: approvals a human types
  MaxTickets,           \* bound: tickets minted
  MaxIntents,           \* bound: SUBMIT_INTENT entries of one ticket
  MaxRules,             \* bound: edits of the policy files
  MaxLapses,            \* bound: approvals and tickets that expire
  MaxCrashes,           \* bound: processes that die
  SnapshotCarriesCash   \* whether the loaded snapshot has a cash balance

ASSUME AmountAssumption == Amount \in [Decisions -> Nat \ {0}]
ASSUME AuthorizationAssumption == Authorization \in Nat
ASSUME NoDecisionAssumption == NoDecision \notin Decisions
ASSUME BoundsAssumption ==
  /\ MaxApprovals \in Nat /\ MaxTickets \in Nat /\ MaxIntents \in Nat
  /\ MaxRules \in Nat /\ MaxLapses \in Nat /\ MaxCrashes \in Nat
ASSUME SnapshotAssumption == SnapshotCarriesCash \in BOOLEAN

VARIABLES
  executions,   \* state/executions.json: the state of each decision's record
  approvals,    \* state/approvals.json: the approval on file, 0 when none
  tickets,      \* state/submission_tickets.json: absent, fresh or consumed
  handoff,      \* state/pending_submission.json, and whether its call was made
  ledger,       \* state/budget.json: dollars committed, decisions acted on
  intents,      \* logs/execution_audit.jsonl: SUBMIT_INTENT entries per ticket
  grants,       \* every approval ever created, by approval id
  minted,       \* every ticket ever created, by ticket id
  policy,       \* what policy_fingerprint hashes: the switches, the rules
  lapsed,       \* approvals and tickets past their expiry
  orders,       \* the broker's order for each decision's ref_id
  responses,    \* decisions whose order call answered with an order id
  shell,        \* what each running script holds in memory
  crashes

vars == << executions, approvals, tickets, handoff, ledger, intents, grants, minted,
           policy, lapsed, orders, responses, shell, crashes >>
files == << executions, approvals, tickets, handoff, ledger, intents >>
history == << grants, minted >>
outside == << policy, lapsed, orders, responses, crashes >>

ApprovalIds == 1 .. MaxApprovals
TicketIds == 1 .. MaxTickets
Policy == [armed : BOOLEAN, rules : 0 .. MaxRules]
Grant == [decision : Decisions, policy : Policy]
Ticket == [decision : Decisions, approval : ApprovalIds, policy : Policy]
Executions == [Decisions -> ExecutionState]
Approvals == [Decisions -> ApprovalIds \union {0}]
Tickets == [TicketIds -> {"absent", "fresh", "consumed"}]
Ledger == [committed : Nat, acted : SUBSET Decisions]
Order == [phase : {"none", "open", "partial", "filled", "cancelled", "rejected"},
          filled : Nat, listed : BOOLEAN]

(* What a script holds: the step it is at, its decision, the copies it loaded *)
(* of the executions, the approvals, the tickets and the budget, the ticket   *)
(* or approval it works with, the fill it will commit, and the step after its *)
(* next save.                                                                 *)
Shell ==
  [ at : {"idle", "prompt", "mint", "store", "submit", "consumed", "intended", "save",
          "grant", "file", "commit", "post"},
    next : {"idle", "grant", "commit"},
    decision : Decisions \union {NoDecision},
    executions : Executions, approvals : Approvals, tickets : Tickets, ledger : Ledger,
    approval : ApprovalIds \union {0}, ticket : TicketIds \union {0}, fill : Nat ]

Blank ==
  [ at |-> "idle", next |-> "idle", decision |-> NoDecision,
    executions |-> [d \in Decisions |-> "PROPOSED"],
    approvals |-> [d \in Decisions |-> 0],
    tickets |-> [t \in TicketIds |-> "absent"],
    ledger |-> [committed |-> 0, acted |-> {}],
    approval |-> 0, ticket |-> 0, fill |-> 0 ]

TypeOK ==
  /\ executions \in Executions
  /\ approvals \in Approvals
  /\ tickets \in Tickets
  /\ handoff \in [decision : Decisions \union {NoDecision},
                  ticket : TicketIds \union {0}, called : BOOLEAN]
  /\ ledger \in Ledger
  /\ intents \in [TicketIds -> 0 .. MaxIntents]
  /\ grants \in Seq(Grant) /\ Len(grants) <= MaxApprovals
  /\ minted \in Seq(Ticket) /\ Len(minted) <= MaxTickets
  /\ policy \in Policy
  /\ lapsed \in [approvals : SUBSET ApprovalIds, tickets : SUBSET TicketIds]
  /\ orders \in [Decisions -> Order]
  /\ responses \in SUBSET Decisions
  /\ shell \in [Shells -> Shell]
  /\ crashes \in 0 .. MaxCrashes

Init ==
  /\ executions = Blank.executions
  /\ approvals = Blank.approvals
  /\ tickets = Blank.tickets
  /\ handoff = [decision |-> NoDecision, ticket |-> 0, called |-> TRUE]
  /\ ledger = Blank.ledger
  /\ intents = [t \in TicketIds |-> 0]
  /\ grants = << >>
  /\ minted = << >>
  /\ policy = [armed |-> FALSE, rules |-> 0]
  /\ lapsed = [approvals |-> {}, tickets |-> {}]
  /\ orders = [d \in Decisions |-> [phase |-> "none", filled |-> 0, listed |-> FALSE]]
  /\ responses = {}
  /\ shell = [w \in Shells |-> Blank]
  /\ crashes = 0

(* A decision without a record in executions.json reads as PROPOSED, and no   *)
(* script writes PROPOSED.                                                    *)
HasRecord(d) == executions[d] # "PROPOSED"
TicketsOf(d) ==
  { t \in TicketIds : tickets[t] # "absent" /\ minted[t].decision = d }

--------------------------------------------------------------------------------
(* Reconciliation of the month against the broker: the orders it lists, open  *)
(* ones at their full amount, dead ones at what executed, against the ledger. *)
CommittedUsd(d) ==
  IF orders[d].phase \in {"open", "partial"} THEN Amount[d] ELSE orders[d].filled
BrokerCommitted ==
  SumOver([d \in Decisions |-> CommittedUsd(d)], { d \in Decisions : orders[d].listed })
ReconciledCommitted ==
  IF BrokerCommitted > ledger.committed THEN BrokerCommitted ELSE ledger.committed

(* An approval whatever the policy now is (for mutation).                     *)
ApprovalVerifiedAnyPolicy(d) == approvals[d] # 0 /\ approvals[d] \notin lapsed.approvals

(* verify_approval: present, for this decision, under the policy in force now *)
(* and not expired.                                                           *)
ApprovalVerified(d) ==
  LET a == approvals[d]
  IN  /\ a # 0
      /\ grants[a].policy = policy
      /\ a \notin lapsed.approvals

(* preflight, as prepare_submission calls it: no sibling reservations.        *)
Authorized(d) ==
  /\ policy.armed
  /\ executions[d] \notin IN_FLIGHT_STATES \union TERMINAL_STATES
  /\ d \notin ledger.acted
  /\ ApprovalVerified(d)
  /\ Amount[d] <= Authorization - ReconciledCommitted

(* A preflight that takes an approved record for one in flight (for mutation).*)
PreflightOkUnapproved(d) == Authorized(d) /\ executions[d] # "APPROVED"

(* The whole of preflight: an unknown settled cash blocks (CASH_UNKNOWN), and *)
(* load_snapshot never fills it in.  Its checks of quote, price and           *)
(* tradability may refuse at any time: then Prepare just does not happen.     *)
PreflightOk(d) == Authorized(d) /\ SnapshotCarriesCash

(* A ticket whatever approval it cites (for mutation).                        *)
TicketVerifiedAnyApproval(t) ==
  policy.armed /\ t \notin lapsed.tickets /\ minted[t].policy = policy

(* verify_ticket: the switches, the expiry, the approval it cites, the policy.*)
TicketVerified(t) ==
  /\ policy.armed
  /\ t \notin lapsed.tickets
  /\ approvals[minted[t].decision] = minted[t].approval
  /\ minted[t].policy = policy

(* submit_once: the one state that may submit, and the ticket's mark.         *)
MaySubmitApproved(state) == state \in {"APPROVED", "PRE_EXECUTION_VALIDATED"}  \* for mutation
MaySubmit(state) == state = "PRE_EXECUTION_VALIDATED"
Unconsumed(copy, t) == copy                                              \* for mutation
Consumed(copy, t) == [copy EXCEPT ![t] = "consumed"]

(* commit_purchase: refuses a decision acted on before and an overspend.      *)
MayCommitAgain(d, fill) == ledger.committed + fill <= Authorization      \* for mutation
MayCommit(d, fill) ==
  /\ d \notin ledger.acted
  /\ ledger.committed + fill <= Authorization
CommittedBack(d, fill) ==                                                \* for mutation
  [committed |-> ledger.committed - fill, acted |-> ledger.acted \union {d}]
CommittedAlone(d, fill) ==                                               \* for mutation
  [committed |-> ledger.committed + fill, acted |-> {d}]
CommittedPurchase(d, fill) ==
  [committed |-> ledger.committed + fill, acted |-> ledger.acted \union {d}]

(* Any fill at all taken for the whole order (for mutation).                  *)
OutcomeOptimistic(order) ==
  IF order.filled > 0 THEN "FILLED" ELSE IF order.phase = "rejected" THEN "REJECTED" ELSE "CANCELLED"

(* The state reconcile_submission reads off an order; an open one says "wait".*)
Outcome(order) ==
  CASE order.phase = "filled" -> "FILLED"
    [] order.phase = "partial" -> "PARTIALLY_FILLED"
    [] order.phase = "rejected" -> "REJECTED"
    [] order.phase = "cancelled" -> "CANCELLED"

--------------------------------------------------------------------------------
(* The scripts.  Hold: what shell w has in memory from now on.                *)
Hold(w, s) == shell' = [shell EXCEPT ![w] = s]

(* A script that read the records, moved d's in memory, and will save them.   *)
StartSave(w, d, target, next, fill) ==
  /\ shell[w].at = "idle"
  /\ Hold(w, [Blank EXCEPT !.at = "save", !.next = next, !.decision = d, !.fill = fill,
                           !.executions = [executions EXCEPT ![d] = target]])

(* approve_decision.py up to its prompt: the decision validates against the   *)
(* local ledger and the record can legally become APPROVED.                   *)
Approve(w, d) ==
  /\ d \notin ledger.acted
  /\ Amount[d] <= Authorization - ledger.committed
  /\ CanApprove(executions[d])
  /\ shell[w].at = "idle"
  /\ Hold(w, [Blank EXCEPT !.at = "prompt", !.decision = d, !.executions = executions])
  /\ UNCHANGED << files, history, outside >>

(* The approval stored before the record (for mutation).                      *)
TypePhraseApprovalFirst(w) ==
  LET d == shell[w].decision
  IN  /\ shell[w].at = "prompt"
      /\ Len(grants) < MaxApprovals
      /\ grants' = Append(grants, [decision |-> d, policy |-> policy])
      /\ approvals' = [approvals EXCEPT ![d] = Len(grants) + 1]
      /\ Hold(w, [shell[w] EXCEPT !.at = "save", !.executions[d] = "APPROVED"])
      /\ UNCHANGED << executions, tickets, handoff, ledger, intents, minted, outside >>

(* The human types the challenge phrase; the approval binds the policy of     *)
(* this moment, and the record loaded before the prompt becomes APPROVED.     *)
TypePhrase(w) ==
  LET d == shell[w].decision
  IN  /\ shell[w].at = "prompt"
      /\ Len(grants) < MaxApprovals
      /\ grants' = Append(grants, [decision |-> d, policy |-> policy])
      /\ Hold(w, [shell[w] EXCEPT !.at = "save", !.next = "grant",
                                  !.approval = Len(grants) + 1,
                                  !.executions[d] = "APPROVED"])
      /\ UNCHANGED << files, minted, outside >>

(* Anything else is typed: nothing was written and nothing is.                *)
DeclinePhrase(w) ==
  /\ shell[w].at = "prompt"
  /\ Hold(w, Blank)
  /\ UNCHANGED << files, history, outside >>

(* The approvals are loaded again once the record is saved, and the new one   *)
(* put among them.                                                            *)
LoadApprovals(w) ==
  LET d == shell[w].decision
  IN  /\ shell[w].at = "grant"
      /\ Hold(w, [shell[w] EXCEPT !.at = "file",
                                  !.approvals = [approvals EXCEPT ![d] = shell[w].approval]])
      /\ UNCHANGED << files, history, outside >>

SaveApproval(w) ==
  /\ shell[w].at = "file"
  /\ approvals' = shell[w].approvals
  /\ Hold(w, Blank)
  /\ UNCHANGED << executions, tickets, handoff, ledger, intents, history, outside >>

(* prepare_submission.py: preflight, and a ticket that freezes the approval   *)
(* and the policy.                                                            *)
Prepare(w, d) ==
  /\ PreflightOk(d)
  /\ Len(minted) < MaxTickets
  /\ shell[w].at = "idle"
  /\ minted' = Append(minted, [decision |-> d, approval |-> approvals[d], policy |-> policy])
  /\ Hold(w, [Blank EXCEPT !.at = "mint", !.decision = d, !.ticket = Len(minted) + 1,
                           !.executions = executions])
  /\ UNCHANGED << files, grants, outside >>

(* The tickets are loaded, and the new one put among them.                    *)
LoadTickets(w) ==
  LET t == shell[w].ticket
  IN  /\ shell[w].at = "mint"
      /\ Hold(w, [shell[w] EXCEPT !.at = "store", !.tickets = [tickets EXCEPT ![t] = "fresh"]])
      /\ UNCHANGED << files, history, outside >>

(* The tickets are stored; only a record loaded as APPROVED is moved on.      *)
SaveTicket(w) ==
  LET d == shell[w].decision
      validated == [shell[w] EXCEPT !.at = "save",
                                    !.executions[d] = "PRE_EXECUTION_VALIDATED"]
  IN  /\ shell[w].at = "store"
      /\ tickets' = shell[w].tickets
      /\ Hold(w, IF shell[w].executions[d] = "APPROVED" THEN validated ELSE Blank)
      /\ UNCHANGED << executions, approvals, handoff, ledger, intents, history, outside >>

(* submit_approved.py: an unconsumed ticket of the decision, verified.        *)
Submit(w, d) ==
  \E t \in TicketsOf(d) :
    /\ shell[w].at = "idle"
    /\ tickets[t] = "fresh"
    /\ TicketVerified(t)
    /\ HasRecord(d)
    /\ Hold(w, [Blank EXCEPT !.at = "submit", !.decision = d, !.ticket = t,
                             !.executions = executions, !.tickets = tickets])
    /\ UNCHANGED << files, history, outside >>

(* submit_once refuses any other state; the script then saves the records it  *)
(* loaded, unchanged.                                                         *)
HaltSubmission(w) ==
  /\ shell[w].at = "submit"
  /\ ~ MaySubmit(shell[w].executions[shell[w].decision])
  /\ Hold(w, [shell[w] EXCEPT !.at = "save"])
  /\ UNCHANGED << files, history, outside >>

ConsumeTicket(w) ==
  /\ shell[w].at = "submit"
  /\ MaySubmit(shell[w].executions[shell[w].decision])
  /\ tickets' = Consumed(shell[w].tickets, shell[w].ticket)
  /\ Hold(w, [shell[w] EXCEPT !.at = "consumed"])
  /\ UNCHANGED << executions, approvals, handoff, ledger, intents, history, outside >>

(* The move made without its audit entry (for mutation).                      *)
WriteIntentUnlogged(w) ==
  /\ shell[w].at = "consumed"
  /\ Hold(w, [shell[w] EXCEPT !.at = "intended",
                              !.executions[shell[w].decision] = "SUBMISSION_UNCERTAIN"])
  /\ UNCHANGED << files, history, outside >>

(* The SUBMIT_INTENT entry is durable; the move to SUBMISSION_UNCERTAIN is    *)
(* made on the record in memory.                                              *)
WriteIntent(w) ==
  LET t == shell[w].ticket
  IN  /\ shell[w].at = "consumed"
      /\ intents[t] < MaxIntents
      /\ intents' = [intents EXCEPT ![t] = @ + 1]
      /\ Hold(w, [shell[w] EXCEPT !.at = "intended",
                                  !.executions[shell[w].decision] = "SUBMISSION_UNCERTAIN"])
      /\ UNCHANGED << executions, approvals, tickets, handoff, ledger, history, outside >>

(* ManualHandoffSubmitter writes the order parameters out and raises; the     *)
(* script's handler is what saves the records.                                *)
HandOff(w) ==
  /\ shell[w].at = "intended"
  /\ handoff' = [decision |-> shell[w].decision, ticket |-> shell[w].ticket, called |-> FALSE]
  /\ Hold(w, [shell[w] EXCEPT !.at = "save"])
  /\ UNCHANGED << executions, approvals, tickets, ledger, intents, history, outside >>

(* record_submission.py: an order id is known, so an order exists.            *)
Record(w, d) ==
  /\ executions[d] = "SUBMISSION_UNCERTAIN"
  /\ TicketsOf(d) # {}
  /\ d \in responses
  /\ StartSave(w, d, "SUBMITTED", "idle", 0)
  /\ UNCHANGED << files, history, outside >>

(* reconcile_submission.py: the order found by ref_id in the broker's list    *)
(* decides.  With --commit the fill goes to the ledger afterwards.            *)
Reconcile(w, d, commit) ==
  LET order == orders[d]
  IN  /\ HasRecord(d)
      /\ TicketsOf(d) # {}
      /\ order.listed
      /\ order.phase \notin {"none", "open"}
      /\ CanSettle(executions[d], Outcome(order))
      /\ IF commit /\ order.filled > 0
         THEN StartSave(w, d, Outcome(order), "commit", order.filled)
         ELSE StartSave(w, d, Outcome(order), "idle", 0)
      /\ UNCHANGED << files, history, outside >>

(* The budget is loaded, and the fill added to it if commit_purchase accepts. *)
Commit(w) ==
  /\ shell[w].at = "commit"
  /\ MayCommit(shell[w].decision, shell[w].fill)
  /\ Hold(w, [shell[w] EXCEPT !.at = "post",
                              !.ledger = CommittedPurchase(shell[w].decision, shell[w].fill)])
  /\ UNCHANGED << files, history, outside >>

RefuseCommit(w) ==
  /\ shell[w].at = "commit"
  /\ ~ MayCommit(shell[w].decision, shell[w].fill)
  /\ Hold(w, Blank)
  /\ UNCHANGED << files, history, outside >>

SaveLedger(w) ==
  /\ shell[w].at = "post"
  /\ ledger' = shell[w].ledger
  /\ Hold(w, Blank)
  /\ UNCHANGED << executions, approvals, tickets, handoff, intents, history, outside >>

(* close_stale_decision.py, on a ground that holds (an owner may always       *)
(* abandon).                                                                  *)
Close(w, d) ==
  /\ HasRecord(d)
  /\ CanClose(executions[d])
  /\ StartSave(w, d, "REEVALUATION_REQUIRED", "idle", 0)
  /\ UNCHANGED << files, history, outside >>

(* save_executions: the whole file becomes the script's copy.                 *)
SaveExecutions(w) ==
  /\ shell[w].at = "save"
  /\ executions' = shell[w].executions
  /\ Hold(w, IF shell[w].next = "idle" THEN Blank
             ELSE [shell[w] EXCEPT !.at = shell[w].next])
  /\ UNCHANGED << approvals, tickets, handoff, ledger, intents, history, outside >>

--------------------------------------------------------------------------------
MayLapse == Cardinality(lapsed.approvals) + Cardinality(lapsed.tickets) < MaxLapses

(* The world: the operator's edits, time, the broker, and power failures.     *)
ToggleSwitches ==
  /\ policy' = [policy EXCEPT !.armed = ~policy.armed]
  /\ UNCHANGED << files, history, lapsed, orders, responses, shell, crashes >>

EditPolicy ==
  /\ policy.rules < MaxRules
  /\ policy' = [policy EXCEPT !.rules = @ + 1]
  /\ UNCHANGED << files, history, lapsed, orders, responses, shell, crashes >>

ApprovalLapses(a) ==
  /\ MayLapse
  /\ a \in (1 .. Len(grants)) \ lapsed.approvals
  /\ lapsed' = [lapsed EXCEPT !.approvals = @ \union {a}]
  /\ UNCHANGED << files, history, policy, orders, responses, shell, crashes >>

TicketLapses(t) ==
  /\ MayLapse
  /\ t \in (1 .. Len(minted)) \ lapsed.tickets
  /\ lapsed' = [lapsed EXCEPT !.tickets = @ \union {t}]
  /\ UNCHANGED << files, history, policy, orders, responses, shell, crashes >>

(* The one MCP call of a handoff.  The broker keeps one order per ref_id; the *)
(* answer may be lost, and the call may be refused.                           *)
CallAccepted(answered) ==
  LET d == handoff.decision
  IN  /\ ~ handoff.called
      /\ handoff' = [handoff EXCEPT !.called = TRUE]
      /\ orders' = IF orders[d].phase = "none"
                   THEN [orders EXCEPT ![d].phase = "open"] ELSE orders
      /\ responses' = IF answered THEN responses \union {d} ELSE responses
      /\ UNCHANGED << executions, approvals, tickets, ledger, intents, history, policy,
                      lapsed, shell, crashes >>

CallRefused ==
  /\ ~ handoff.called
  /\ handoff' = [handoff EXCEPT !.called = TRUE]
  /\ UNCHANGED << executions, approvals, tickets, ledger, intents, history, outside, shell >>

SetOrder(d, order) ==
  /\ orders' = [orders EXCEPT ![d] = order]
  /\ UNCHANGED << files, history, policy, lapsed, responses, shell, crashes >>

OrderListed(d) ==
  /\ orders[d].phase # "none"
  /\ ~ orders[d].listed
  /\ SetOrder(d, [orders[d] EXCEPT !.listed = TRUE])

OrderPartiallyFills(d) ==
  /\ orders[d].phase = "open"
  /\ \E f \in 1 .. (Amount[d] - 1) :
       SetOrder(d, [orders[d] EXCEPT !.phase = "partial", !.filled = f])

OrderFills(d) ==
  /\ orders[d].phase \in {"open", "partial"}
  /\ SetOrder(d, [orders[d] EXCEPT !.phase = "filled", !.filled = Amount[d]])

OrderCancelled(d) ==
  /\ orders[d].phase \in {"open", "partial"}
  /\ SetOrder(d, [orders[d] EXCEPT !.phase = "cancelled"])

OrderRejected(d) ==
  /\ orders[d].phase = "open"
  /\ SetOrder(d, [orders[d] EXCEPT !.phase = "rejected"])

(* A script dies: what it held in memory is lost, its saves are not.          *)
Crash(w) ==
  /\ shell[w].at # "idle"
  /\ crashes < MaxCrashes
  /\ crashes' = crashes + 1
  /\ Hold(w, Blank)
  /\ UNCHANGED << files, history, policy, lapsed, orders, responses >>

--------------------------------------------------------------------------------
(* The steps a started script takes on its own.                               *)
Proceed(w) ==
  \/ LoadApprovals(w)
  \/ SaveApproval(w)
  \/ LoadTickets(w)
  \/ SaveTicket(w)
  \/ HaltSubmission(w)
  \/ ConsumeTicket(w)
  \/ WriteIntent(w)
  \/ HandOff(w)
  \/ SaveExecutions(w)
  \/ Commit(w)
  \/ RefuseCommit(w)
  \/ SaveLedger(w)

ScriptStep(w) ==
  \/ \E d \in Decisions :
       \/ Approve(w, d)
       \/ Prepare(w, d)
       \/ Submit(w, d)
       \/ Record(w, d)
       \/ \E commit \in BOOLEAN : Reconcile(w, d, commit)
       \/ Close(w, d)
  \/ TypePhrase(w)
  \/ DeclinePhrase(w)
  \/ Proceed(w)

BrokerStep ==
  \/ \E answered \in BOOLEAN : CallAccepted(answered)
  \/ CallRefused
  \/ \E d \in Decisions :
       \/ OrderListed(d)
       \/ OrderPartiallyFills(d)
       \/ OrderFills(d)
       \/ OrderCancelled(d)
       \/ OrderRejected(d)

WorldStep ==
  \/ ToggleSwitches
  \/ EditPolicy
  \/ \E a \in ApprovalIds : ApprovalLapses(a)
  \/ \E t \in TicketIds : TicketLapses(t)
  \/ \E w \in Shells : Crash(w)

Next ==
  \/ \E w \in Shells : ScriptStep(w)
  \/ BrokerStep
  \/ WorldStep

Spec == Init /\ [][Next]_vars

(* What the runbook and the machine keep doing: a started script runs on, the *)
(* broker lists an order and brings it to an end, and the operator prepares   *)
(* an authorized decision and reconciles a handed-off one, with --commit, as  *)
(* often as it takes.                                                         *)
OrderEnds(d) == OrderFills(d) \/ OrderCancelled(d) \/ OrderRejected(d)
Fairness ==
  /\ \A w \in Shells : WF_vars(Proceed(w) \/ DeclinePhrase(w))
  /\ \A d \in Decisions :
       /\ WF_vars(OrderListed(d))
       /\ WF_vars(OrderEnds(d))
       /\ SF_vars(\E w \in Shells : Prepare(w, d))
       /\ SF_vars(\E w \in Shells : Reconcile(w, d, TRUE))
FairSpec == Spec /\ Fairness
================================================================================
