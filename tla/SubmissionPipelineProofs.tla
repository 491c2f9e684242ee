------------------------ MODULE SubmissionPipelineProofs ------------------------
(* Proofs about the submission pipeline, first its types and then its ledger, *)
(* for every set of decisions and of shells and every value of the bounds:    *)
(* nothing here depends on scripts running one at a time, or on a process     *)
(* surviving.                                                                 *)
EXTENDS SubmissionSafety, SumProofs

(* --- types ------------------------------------------------------------------ *)

(* Type correctness is not inductive alone: a running script works for a      *)
(* decision, and a call still owed is owed for one.                           *)
Busy == { s \in Shell : s.at # "idle" => s.decision \in Decisions }
Working ==
  /\ \A w \in Shells : shell[w] \in Busy
  /\ ~ handoff.called => handoff.decision \in Decisions
Typed == TypeOK /\ Working

(* An idle shell is well typed.                                               *)
LEMMA BlankTyped == Blank \in Shell /\ Blank \in Busy
  BY DEF Blank, Busy, Shell, Executions, ExecutionState, Approvals, Tickets, Ledger

(* What a reconciliation reads off an ended order is a state of a record.     *)
LEMMA OutcomeTyped ==
  ASSUME NEW order \in Order, order.phase \notin {"none", "open"}
  PROVE  Outcome(order) \in ExecutionState
  BY DEF Outcome, ExecutionState, Order

(* Changing what one shell holds keeps the shells typed.                      *)
LEMMA ShellTyped ==
  ASSUME Typed, NEW w \in Shells, NEW s \in Busy, Hold(w, s), UNCHANGED handoff
  PROVE  shell' \in [Shells -> Shell] /\ Working'
  BY DEF Hold, Typed, TypeOK, Working, Busy

(* The empty state directory is well typed.                                   *)
LEMMA InitTyped == Init => Typed
<1>1. /\ Blank.executions \in Executions /\ Blank.approvals \in Approvals
      /\ Blank.tickets \in Tickets /\ Blank.ledger \in Ledger
  BY BlankTyped DEF Shell
<1>2. [armed |-> FALSE, rules |-> 0] \in Policy
  BY BoundsAssumption DEF Policy
<1>3. [phase |-> "none", filled |-> 0, listed |-> FALSE] \in Order
  BY DEF Order
<1>q. QED
  BY <1>1, <1>2, <1>3, BoundsAssumption, BlankTyped DEF Init, Typed, TypeOK, Working

(* The scripts that read and then hold a copy of the records.                 *)
LEMMA StartTyped ==
  ASSUME Typed, NEW w \in Shells, NEW d \in Decisions,
         \/ Approve(w, d)
         \/ Prepare(w, d)
         \/ Submit(w, d)
         \/ Record(w, d)
         \/ \E commit \in BOOLEAN : Reconcile(w, d, commit)
         \/ Close(w, d)
  PROVE  Typed'
<1> USE DEF files, history, outside
<1>a. /\ Blank \in Shell /\ executions \in Executions /\ tickets \in Tickets
      /\ TypeOK /\ Working
  BY BlankTyped DEF Typed, TypeOK
<1>1. CASE Approve(w, d)
  <2>1. [Blank EXCEPT !.at = "prompt", !.decision = d,
                      !.executions = executions] \in Busy
    BY ONLY <1>a, d \in Decisions DEF Shell, Busy
  <2>q. QED BY <1>1, <2>1, ShellTyped DEF Approve, Typed, TypeOK
<1>2. CASE Prepare(w, d)
  <2>1. approvals[d] \in ApprovalIds /\ Len(minted) + 1 \in TicketIds
    BY <1>2, BoundsAssumption
       DEF Prepare, PreflightOk, Authorized, ApprovalVerified, Typed, TypeOK, Approvals, TicketIds
  <2>2. [Blank EXCEPT !.at = "mint", !.decision = d, !.ticket = Len(minted) + 1,
                      !.executions = executions] \in Busy
    BY ONLY <1>a, <2>1, d \in Decisions DEF Shell, Busy
  <2>3. [decision |-> d, approval |-> approvals[d], policy |-> policy] \in Ticket
    BY <1>a, <2>1 DEF TypeOK, Ticket
  <2>4. minted' \in Seq(Ticket) /\ Len(minted') <= MaxTickets
    BY <1>a, <1>2, <2>3, BoundsAssumption DEF Prepare, TypeOK
  <2>q. QED BY <1>2, <2>2, <2>4, ShellTyped DEF Prepare, Typed, TypeOK
<1>3. ASSUME NEW t \in TicketIds,
             UNCHANGED << files, history, outside >>,
             Hold(w, [Blank EXCEPT !.at = "submit", !.decision = d, !.ticket = t,
                                   !.executions = executions, !.tickets = tickets])
      PROVE  Typed'
  <2>1. [Blank EXCEPT !.at = "submit", !.decision = d, !.ticket = t,
                      !.executions = executions, !.tickets = tickets] \in Busy
    BY ONLY <1>a, d \in Decisions, t \in TicketIds DEF Shell, Busy
  <2>q. QED BY <1>3, <2>1, ShellTyped DEF Typed, TypeOK
<1>4. ASSUME NEW target \in ExecutionState, NEW next \in {"idle", "commit"}, NEW fill \in Nat,
             StartSave(w, d, target, next, fill), UNCHANGED << files, history, outside >>
      PROVE  Typed'
  <2>1. [executions EXCEPT ![d] = target] \in Executions
    BY <1>a DEF Executions
  <2>2. [Blank EXCEPT !.at = "save", !.next = next, !.decision = d, !.fill = fill,
                      !.executions = [executions EXCEPT ![d] = target]] \in Busy
    BY ONLY <1>a, <2>1, d \in Decisions, next \in {"idle", "commit"}, fill \in Nat DEF Shell, Busy
  <2>q. QED BY <1>4, <2>2, ShellTyped DEF StartSave, Typed, TypeOK
<1>5. CASE Submit(w, d)
  BY <1>3, <1>5 DEF Submit, TicketsOf
<1>6. CASE Record(w, d)
  BY <1>4, <1>6 DEF Record, ExecutionState
<1>7. ASSUME NEW commit \in BOOLEAN, Reconcile(w, d, commit) PROVE Typed'
  <2>1. orders[d].filled \in Nat
    BY <1>a DEF TypeOK, Order
  <2>2. Outcome(orders[d]) \in ExecutionState
    BY <1>a, <1>7, OutcomeTyped DEF TypeOK, Reconcile
  <2>q. QED BY <1>4, <1>7, <2>1, <2>2 DEF Reconcile
<1>8. CASE Close(w, d)
  BY <1>4, <1>8 DEF Close, ExecutionState
<1>q. QED BY <1>1, <1>2, <1>5, <1>6, <1>7, <1>8

(* What a running script holds, one field changed, is still what a shell may  *)
(* hold.                                                                      *)
LEMMA FieldsTyped ==
  ASSUME NEW s \in Shell, s.decision \in Decisions, NEW state \in ExecutionState, NEW d
  PROVE  /\ \A step \in {"idle", "submit", "consumed", "intended", "save", "grant", "commit"} :
              [s EXCEPT !.at = step] \in Busy
         /\ \A approval \in ApprovalIds :
              [s EXCEPT !.at = "save", !.next = "grant", !.approval = approval,
                        !.executions[d] = state] \in Busy
         /\ \A step \in {"save", "intended"} :
              [s EXCEPT !.at = step, !.executions[d] = state] \in Busy
         /\ \A copy \in Ledger : [s EXCEPT !.at = "post", !.ledger = copy] \in Busy
         /\ \A copy \in Approvals : [s EXCEPT !.at = "file", !.approvals = copy] \in Busy
         /\ \A copy \in Tickets : [s EXCEPT !.at = "store", !.tickets = copy] \in Busy
<1>1. [s.executions EXCEPT ![d] = state] \in Executions
  BY DEF Shell, Executions
<1>q. QED BY <1>1 DEF Shell, Busy

(* The steps of a script that is running.                                     *)
LEMMA RunTyped ==
  ASSUME Typed, NEW w \in Shells, TypePhrase(w) \/ DeclinePhrase(w) \/ Proceed(w)
  PROVE  Typed'
<1> USE DEF files, history, outside
<1> DEFINE d == shell[w].decision
<1>a. shell[w] \in Shell /\ Blank \in Busy /\ TypeOK /\ Working
  BY BlankTyped DEF Typed, TypeOK
<1>b. d \in Decisions
  BY <1>a DEF Working, Busy, TypePhrase, DeclinePhrase, Proceed, LoadApprovals, SaveApproval,
     LoadTickets, SaveTicket, HaltSubmission, ConsumeTicket, WriteIntent, HandOff,
     SaveExecutions, Commit, RefuseCommit, SaveLedger
<1>c. /\ shell[w].approval \in ApprovalIds \union {0} /\ shell[w].ticket \in TicketIds \union {0}
      /\ shell[w].executions \in Executions /\ shell[w].tickets \in Tickets
      /\ shell[w].approvals \in Approvals /\ shell[w].ledger \in Ledger /\ shell[w].fill \in Nat
      /\ shell[w].next \in {"idle", "grant", "commit"}
  BY <1>a DEF Shell
<1>d. /\ "APPROVED" \in ExecutionState /\ "PRE_EXECUTION_VALIDATED" \in ExecutionState
      /\ "SUBMISSION_UNCERTAIN" \in ExecutionState
  BY DEF ExecutionState
<1>1. CASE TypePhrase(w)
  <2>1. Len(grants) + 1 \in ApprovalIds
    BY <1>1, <1>a, BoundsAssumption DEF TypePhrase, TypeOK, ApprovalIds
  <2>2. [shell[w] EXCEPT !.at = "save", !.next = "grant", !.approval = Len(grants) + 1,
                         !.executions[d] = "APPROVED"] \in Busy
    BY <1>a, <1>b, <1>d, <2>1, FieldsTyped
  <2>3. [decision |-> d, policy |-> policy] \in Grant
    BY <1>a, <1>b DEF TypeOK, Grant
  <2>4. grants' \in Seq(Grant) /\ Len(grants') <= MaxApprovals
    BY <1>1, <1>a, <2>3, BoundsAssumption DEF TypePhrase, TypeOK
  <2>q. QED BY <1>1, <1>a, <1>b, <2>2, <2>4, ShellTyped DEF TypePhrase, Typed, TypeOK
<1>2. CASE DeclinePhrase(w)
  BY <1>2, <1>a, ShellTyped DEF DeclinePhrase, Typed, TypeOK
<1>3. CASE SaveApproval(w)
  BY <1>3, <1>a, <1>c, ShellTyped DEF SaveApproval, Typed, TypeOK
<1>4. CASE SaveTicket(w)
  <2>1. [shell[w] EXCEPT !.at = "save", !.executions[d] = "PRE_EXECUTION_VALIDATED"] \in Busy
    BY <1>a, <1>b, <1>d, FieldsTyped
  <2>2. tickets' \in Tickets
    BY <1>4, <1>c DEF SaveTicket
  <2>q. QED BY <1>4, <1>a, <1>b, <2>1, <2>2, ShellTyped DEF SaveTicket, Typed, TypeOK
<1>5. CASE HaltSubmission(w)
  <2>1. [shell[w] EXCEPT !.at = "save"] \in Busy
    BY <1>a, <1>b, <1>d, FieldsTyped
  <2>q. QED BY <1>5, <1>a, <1>b, <2>1, ShellTyped DEF HaltSubmission, Typed, TypeOK
<1>6. CASE ConsumeTicket(w)
  <2>1. [shell[w] EXCEPT !.at = "consumed"] \in Busy
    BY <1>a, <1>b, <1>d, FieldsTyped
  <2>2. tickets' \in Tickets
    BY <1>6, <1>c DEF ConsumeTicket, Consumed, Tickets
  <2>q. QED BY <1>6, <1>a, <1>b, <2>1, <2>2, ShellTyped DEF ConsumeTicket, Typed, TypeOK
<1>7. CASE WriteIntent(w)
  <2>1. [shell[w] EXCEPT !.at = "intended", !.executions[d] = "SUBMISSION_UNCERTAIN"] \in Busy
    BY <1>a, <1>b, <1>d, FieldsTyped
  <2>2. intents' \in [TicketIds -> 0 .. MaxIntents]
    <3>1. CASE shell[w].ticket \in TicketIds
      <4>1. intents[shell[w].ticket] + 1 \in 0 .. MaxIntents
        BY <1>7, <1>a, <3>1, BoundsAssumption DEF WriteIntent, TypeOK
      <4>q. QED BY <1>7, <1>a, <4>1 DEF WriteIntent, TypeOK
    <3>2. CASE shell[w].ticket \notin TicketIds
      BY <1>7, <1>a, <3>2 DEF WriteIntent, TypeOK
    <3>q. QED BY <3>1, <3>2
  <2>q. QED BY <1>7, <1>a, <1>b, <2>1, <2>2, ShellTyped DEF WriteIntent, Typed, TypeOK
<1>8. CASE HandOff(w)
  <2>1. [shell[w] EXCEPT !.at = "save"] \in Busy
    BY <1>a, <1>b, <1>d, FieldsTyped
  <2>2. Working' /\ shell' \in [Shells -> Shell]
    BY <1>8, <1>a, <1>b, <2>1 DEF HandOff, Hold, Working, TypeOK, Busy
  <2>q. QED BY <1>8, <1>a, <1>b, <1>c, <2>2 DEF HandOff, Typed, TypeOK
<1>9. CASE SaveExecutions(w)
  <2>1. [shell[w] EXCEPT !.at = shell[w].next] \in Busy
    BY <1>a, <1>b, <1>c, <1>d, FieldsTyped
  <2>q. QED BY <1>9, <1>a, <1>c, <2>1, ShellTyped DEF SaveExecutions, Typed, TypeOK
<1>10. CASE Commit(w)
  <2>1. CommittedPurchase(d, shell[w].fill) \in Ledger
    BY <1>a, <1>b, <1>c DEF CommittedPurchase, TypeOK, Ledger
  <2>2. [shell[w] EXCEPT !.at = "post", !.ledger = CommittedPurchase(d, shell[w].fill)] \in Busy
    BY <1>a, <1>b, <1>d, <2>1, FieldsTyped
  <2>q. QED BY <1>10, <1>a, <1>b, <2>2, ShellTyped DEF Commit, Typed, TypeOK
<1>11. CASE RefuseCommit(w)
  BY <1>11, <1>a, ShellTyped DEF RefuseCommit, Typed, TypeOK
<1>12. CASE SaveLedger(w)
  BY <1>12, <1>a, <1>c, ShellTyped DEF SaveLedger, Typed, TypeOK
<1>13. CASE LoadApprovals(w)
  <2>1. [approvals EXCEPT ![d] = shell[w].approval] \in Approvals
    BY <1>a, <1>c DEF TypeOK, Approvals
  <2>2. [shell[w] EXCEPT !.at = "file",
                         !.approvals = [approvals EXCEPT ![d] = shell[w].approval]] \in Busy
    BY <1>a, <1>b, <1>d, <2>1, FieldsTyped
  <2>q. QED BY <1>13, <1>a, <1>b, <2>2, ShellTyped DEF LoadApprovals, Typed, TypeOK
<1>14. CASE LoadTickets(w)
  <2>1. [tickets EXCEPT ![shell[w].ticket] = "fresh"] \in Tickets
    BY <1>a DEF TypeOK, Tickets
  <2>2. [shell[w] EXCEPT !.at = "store",
                         !.tickets = [tickets EXCEPT ![shell[w].ticket] = "fresh"]] \in Busy
    BY <1>a, <1>b, <1>d, <2>1, FieldsTyped
  <2>q. QED BY <1>14, <1>a, <1>b, <2>2, ShellTyped DEF LoadTickets, Typed, TypeOK
<1>q. QED
  BY <1>1, <1>2, <1>3, <1>4, <1>5, <1>6, <1>7, <1>8, <1>9, <1>10, <1>11, <1>12, <1>13, <1>14
     DEF Proceed

(* The broker keeps its orders typed and touches no file.                     *)
LEMMA BrokerTyped ==
  ASSUME Typed, BrokerStep
  PROVE  Typed'
<1> USE DEF Typed, TypeOK, Working, files, history, outside
<1>1. ASSUME NEW answered \in BOOLEAN, CallAccepted(answered) PROVE Typed'
  <2> USE <1>1 DEF CallAccepted
  <2>1. handoff.decision \in Decisions
    OBVIOUS
  <2>2. orders' \in [Decisions -> Order]
    <3>1. orders[handoff.decision] \in Order
      BY <2>1
    <3>2. [orders[handoff.decision] EXCEPT !.phase = "open"] \in Order
      BY ONLY <3>1 DEF Order
    <3>q. QED BY <2>1, <3>2
  <2>3. /\ handoff' \in [decision : Decisions \union {NoDecision},
                         ticket : TicketIds \union {0}, called : BOOLEAN]
        /\ handoff'.called
    OBVIOUS
  <2>4. responses' \in SUBSET Decisions
    BY <2>1
  <2>q. QED BY <2>2, <2>3, <2>4
<1>2. CASE CallRefused
  BY <1>2 DEF CallRefused
<1>3. ASSUME NEW d \in Decisions, NEW order \in Order, SetOrder(d, order) PROVE Typed'
  BY <1>3 DEF SetOrder
<1>4. ASSUME NEW d \in Decisions,
             \/ OrderListed(d) \/ OrderPartiallyFills(d) \/ OrderFills(d)
             \/ OrderCancelled(d) \/ OrderRejected(d)
      PROVE  Typed'
  <2>1. orders[d] \in Order /\ Amount[d] \in Nat
    BY AmountAssumption
  <2>2. \A f \in Nat :
          /\ [orders[d] EXCEPT !.listed = TRUE] \in Order
          /\ [orders[d] EXCEPT !.phase = "partial", !.filled = f] \in Order
          /\ [orders[d] EXCEPT !.phase = "filled", !.filled = f] \in Order
          /\ [orders[d] EXCEPT !.phase = "cancelled"] \in Order
          /\ [orders[d] EXCEPT !.phase = "rejected"] \in Order
    BY ONLY <2>1 DEF Order
  <2>3. ASSUME NEW f \in 1 .. (Amount[d] - 1),
               SetOrder(d, [orders[d] EXCEPT !.phase = "partial", !.filled = f])
        PROVE  Typed'
    <3>1. f \in Nat
      BY <2>1
    <3>q. QED BY <1>3, <2>2, <2>3, <3>1
  <2>q. QED
    BY <1>3, <1>4, <2>1, <2>2, <2>3
       DEF OrderListed, OrderPartiallyFills, OrderFills, OrderCancelled, OrderRejected
<1>q. QED BY <1>1, <1>2, <1>4 DEF BrokerStep

(* Edits, expiries and crashes keep everything typed.                         *)
LEMMA WorldTyped ==
  ASSUME Typed, WorldStep
  PROVE  Typed'
<1> USE DEF Typed, TypeOK, Working, files, history, outside
<1>1. CASE ToggleSwitches
  BY <1>1 DEF ToggleSwitches, Policy
<1>2. CASE EditPolicy
  <2>1. policy.rules + 1 \in 0 .. MaxRules
    BY <1>2, BoundsAssumption DEF EditPolicy, Policy
  <2>2. [policy EXCEPT !.rules = policy.rules + 1] \in Policy
    BY ONLY <2>1, policy \in Policy DEF Policy
  <2>q. QED BY <1>2, <2>2 DEF EditPolicy
<1>3. ASSUME NEW a \in ApprovalIds, ApprovalLapses(a) PROVE Typed'
  BY <1>3 DEF ApprovalLapses
<1>4. ASSUME NEW t \in TicketIds, TicketLapses(t) PROVE Typed'
  BY <1>4 DEF TicketLapses
<1>5. ASSUME NEW w \in Shells, Crash(w) PROVE Typed'
  BY <1>5, BlankTyped, BoundsAssumption DEF Crash, Hold
<1>q. QED BY <1>1, <1>2, <1>3, <1>4, <1>5 DEF WorldStep

(* Every step does.                                                           *)
LEMMA StepTyped == Typed /\ [Next]_vars => Typed'
<1> SUFFICES ASSUME Typed, [Next]_vars PROVE Typed'
  OBVIOUS
<1>1. CASE UNCHANGED vars
  BY <1>1 DEF vars, Typed, TypeOK, Working
<1>2. CASE Next
  BY <1>2, StartTyped, RunTyped, BrokerTyped, WorldTyped DEF Next, ScriptStep
<1>q. QED BY <1>1, <1>2

(* Every variable keeps its type in every behaviour of the pipeline, for any  *)
(* number of shells.                                                          *)
THEOREM TypeCorrect == Spec => []TypeOK
<1>1. Typed => TypeOK
  BY DEF Typed
<1>q. QED BY InitTyped, StepTyped, <1>1, PTL DEF Spec

(* --- the ledger ------------------------------------------------------------ *)
(* The month's ledger is backed by fills at the broker, for any number of     *)
(* shells, any interleaving of their whole-file saves, and any crash.         *)

(* What an order executed before it ended: nothing while it is open, less     *)
(* than the whole while it is partial, so that a fill never shrinks.          *)
FillsFollowPhases ==
  \A d \in Decisions :
    /\ orders[d].phase \in {"none", "open"} => orders[d].filled = 0
    /\ orders[d].phase = "partial" => orders[d].filled <= Amount[d]

(* A copy of the ledger, on disk or in a script's memory, is backed by fills. *)
Backed(copy) ==
  /\ IsFiniteSet(copy.acted)
  /\ copy.committed <= SumOver(Filled, copy.acted)
  /\ copy.committed <= Authorization
  /\ \A d \in copy.acted : orders[d].filled > 0

(* A script that is committing, or will after its save, commits no more than  *)
(* what its order filled for.                                                 *)
BackedShell(s) ==
  /\ Backed(s.ledger)
  /\ "commit" \in {s.at, s.next} =>
       s.decision \in Decisions /\ 0 < s.fill /\ s.fill <= orders[s.decision].filled

LedgerInv ==
  /\ Typed
  /\ FillsFollowPhases
  /\ Backed(ledger)
  /\ \A w \in Shells : BackedShell(shell[w])

(* --- sums of fills -------------------------------------------------------- *)

(* Fills are dollars, whatever set of orders they are summed over.            *)
LEMMA FillsAreDollars ==
  ASSUME Typed
  PROVE  /\ \A d \in Decisions : Filled[d] = orders[d].filled /\ Filled[d] \in Int
         /\ \A s \in SUBSET Decisions : IsFiniteSet(s) => SumOver(Filled, s) \in Int
<1>1. \A d \in Decisions : Filled[d] = orders[d].filled /\ Filled[d] \in Int
  BY DEF Typed, TypeOK, Order, Filled
<1>2. ASSUME NEW s \in SUBSET Decisions, IsFiniteSet(s) PROVE SumOver(Filled, s) \in Int
  BY <1>1, <1>2, SumOverInt
<1>q. QED BY <1>1, <1>2

(* No order's fill shrinks in a step.                                         *)
FillsGrow == \A d \in Decisions : orders[d].filled <= orders'[d].filled

(* A copy of the ledger that is backed stays so while fills only grow.        *)
LEMMA BackedStays ==
  ASSUME Typed, Typed', FillsGrow, NEW copy \in Ledger, Backed(copy)
  PROVE  Backed(copy)'
<1>1. copy.acted \in SUBSET Decisions /\ copy.committed \in Nat /\ IsFiniteSet(copy.acted)
  BY DEF Ledger, Backed
<1>2. /\ \A d \in copy.acted : Filled[d] = orders[d].filled /\ Filled[d] \in Int
      /\ SumOver(Filled, copy.acted) \in Int
  BY <1>1, FillsAreDollars
<1>3. /\ \A d \in copy.acted : Filled'[d] = orders'[d].filled /\ Filled'[d] \in Int
      /\ SumOver(Filled', copy.acted) \in Int
  <2>1. /\ \A d \in Decisions : Filled'[d] = orders'[d].filled /\ Filled'[d] \in Int
    BY DEF Typed, TypeOK, Order, Filled
  <2>2. \A d \in copy.acted : Filled'[d] = orders'[d].filled /\ Filled'[d] \in Int
    BY <1>1, <2>1
  <2>q. QED BY <1>1, <2>2, SumOverInt
<1>4. \A d \in copy.acted : Filled[d] <= Filled'[d]
  BY <1>1, <1>2, <1>3 DEF FillsGrow
<1>5. SumOver(Filled, copy.acted) <= SumOver(Filled', copy.acted)
  BY <1>1, <1>2, <1>3, <1>4, SumOverAtMost
<1>6. copy.committed <= SumOver(Filled', copy.acted)
  BY <1>1, <1>2, <1>3, <1>5 DEF Backed
<1>7. \A d \in copy.acted : orders'[d].filled > 0
  BY <1>1, <1>2, <1>3, <1>4 DEF Backed
<1>q. QED BY <1>1, <1>6, <1>7 DEF Backed

(* So does what a script holds.                                               *)
LEMMA BackedShellStays ==
  ASSUME Typed, Typed', FillsGrow, NEW s \in Busy, BackedShell(s)
  PROVE  BackedShell(s)'
<1>1. s.ledger \in Ledger /\ s.fill \in Nat
  BY DEF Busy, Shell
<1>2. Backed(s.ledger)'
  BY <1>1, BackedStays DEF BackedShell
<1>3. \A d \in Decisions : orders[d].filled \in Nat /\ orders'[d].filled \in Nat
  BY DEF Typed, TypeOK, Order
<1>4. "commit" \in {s.at, s.next} =>
        s.decision \in Decisions /\ 0 < s.fill /\ s.fill <= orders'[s.decision].filled
  BY <1>1, <1>3 DEF FillsGrow, BackedShell
<1>q. QED BY <1>2, <1>4 DEF BackedShell

(* An idle script has an empty copy of the ledger.                            *)
LEMMA BlankBacked == Typed => BackedShell(Blank)
<1>1. IsFiniteSet({}) /\ SumOver(Filled, {}) = 0
  BY FS_EmptySet, SumOverNothing
<1>q. QED BY <1>1, AuthorizationAssumption DEF Blank, BackedShell, Backed

(* --- the steps ------------------------------------------------------------ *)

(* A step that leaves the ledger and the orders alone and gives one shell     *)
(* something backed to hold.                                                  *)
LEMMA HoldBacked ==
  ASSUME LedgerInv, Typed', NEW w \in Shells, NEW s, Hold(w, s), BackedShell(s),
         UNCHANGED <<ledger, orders>>
  PROVE  LedgerInv'
<1>1. FillsFollowPhases' /\ Backed(ledger)'
  BY DEF LedgerInv, FillsFollowPhases, Backed, Filled
<1>2. \A v \in Shells : shell'[v] = shell[v] \/ shell'[v] = s
  BY DEF LedgerInv, Typed, TypeOK, Hold
<1>3. ASSUME NEW v \in Shells PROVE BackedShell(shell[v])'
  <2>1. PICK p : p = shell'[v] /\ BackedShell(p)
    BY <1>2 DEF LedgerInv
  <2>2. BackedShell(p)'
    BY <2>1 DEF BackedShell, Backed, Filled
  <2>q. QED BY <2>1, <2>2
<1>q. QED BY <1>1, <1>3 DEF LedgerInv

(* Such a thing is what a script held, with its ledger, its fill and its      *)
(* decision kept and no commit newly planned.                                 *)
Retains(s, t) ==
  /\ s.ledger = t.ledger /\ s.fill = t.fill /\ s.decision = t.decision
  /\ "commit" \in {t.at, t.next} => "commit" \in {s.at, s.next}

(* It is then backed as it was.                                               *)
LEMMA RetainsBacked ==
  ASSUME NEW s, NEW t, BackedShell(s), Retains(s, t)
  PROVE  BackedShell(t)
  BY DEF BackedShell, Retains

(* What the scripts take hold of when they start.                             *)
LEMMA StartBacked ==
  ASSUME LedgerInv, Typed', NEW w \in Shells, NEW d \in Decisions,
         \/ Approve(w, d)
         \/ Prepare(w, d)
         \/ Submit(w, d)
         \/ Record(w, d)
         \/ \E commit \in BOOLEAN : Reconcile(w, d, commit)
         \/ Close(w, d)
  PROVE  LedgerInv'
<1> USE DEF files, history, outside
<1>a. BackedShell(Blank) /\ Typed
  BY BlankBacked DEF LedgerInv
<1>1. ASSUME NEW at \in {"prompt", "mint", "submit"}, NEW ticket, NEW copy, NEW marks
      PROVE  /\ BackedShell([Blank EXCEPT !.at = at, !.decision = d, !.executions = copy])
             /\ BackedShell([Blank EXCEPT !.at = at, !.decision = d, !.ticket = ticket,
                                          !.executions = copy])
             /\ BackedShell([Blank EXCEPT !.at = at, !.decision = d, !.ticket = ticket,
                                          !.executions = copy, !.tickets = marks])
  BY <1>a, <1>1 DEF BackedShell, Blank
<1>2. CASE Approve(w, d)
  BY <1>1, <1>2, HoldBacked DEF Approve
<1>3. CASE Prepare(w, d)
  BY <1>1, <1>3, HoldBacked DEF Prepare
<1>4. CASE Submit(w, d)
  BY <1>1, <1>4, HoldBacked DEF Submit
<1>5. ASSUME NEW target, NEW next \in {"idle", "commit"}, NEW fill,
             StartSave(w, d, target, next, fill), UNCHANGED << files, history, outside >>,
             next = "commit" => 0 < fill /\ fill <= orders[d].filled
      PROVE  LedgerInv'
  <2> DEFINE s == [Blank EXCEPT !.at = "save", !.next = next, !.decision = d, !.fill = fill,
                                !.executions = [executions EXCEPT ![d] = target]]
  <2>1. /\ s.ledger = Blank.ledger /\ s.fill = fill /\ s.decision = d
        /\ s.at = "save" /\ s.next = next
    BY DEF Blank
  <2>2. Hold(w, s)
    BY <1>5 DEF StartSave
  <2> HIDE DEF s
  <2>3. BackedShell(s)
    BY <1>5, <1>a, <2>1 DEF BackedShell
  <2>q. QED BY <1>5, <2>2, <2>3, HoldBacked
<1>6. CASE Record(w, d) \/ Close(w, d)
  BY <1>5, <1>6 DEF Record, Close
<1>7. ASSUME NEW commit \in BOOLEAN, Reconcile(w, d, commit) PROVE LedgerInv'
  <2>1. orders[d].filled \in Nat
    BY <1>a DEF Typed, TypeOK, Order
  <2>q. QED BY <1>5, <1>7, <2>1 DEF Reconcile
<1>q. QED BY <1>2, <1>3, <1>4, <1>6, <1>7

(* The steps of a script that is running.  The budget is loaded, added to and *)
(* written back whole: what is added is a fill no ledger counts twice, since  *)
(* the decision is not in the copy it is added to.                            *)
LEMMA RunBacked ==
  ASSUME LedgerInv, Typed', NEW w \in Shells, TypePhrase(w) \/ DeclinePhrase(w) \/ Proceed(w)
  PROVE  LedgerInv'
<1> USE DEF files, history, outside
<1>a. /\ BackedShell(Blank) /\ Typed /\ BackedShell(shell[w]) /\ Backed(ledger)
      /\ shell[w] \in Busy /\ ledger \in Ledger
  BY BlankBacked DEF LedgerInv, Typed, Working, TypeOK
<1>1. ASSUME NEW s, Retains(shell[w], s), Hold(w, s) \/ Hold(w, Blank),
             UNCHANGED <<ledger, orders>>
      PROVE  LedgerInv'
  BY <1>1, <1>a, RetainsBacked, HoldBacked
<1>2. CASE TypePhrase(w)
  BY <1>1, <1>2, <1>a DEF TypePhrase, Retains, Busy, Shell
<1>3. CASE DeclinePhrase(w) \/ SaveApproval(w) \/ RefuseCommit(w)
  BY <1>3, <1>a, HoldBacked DEF DeclinePhrase, SaveApproval, RefuseCommit
<1>4. CASE SaveTicket(w) \/ LoadTickets(w) \/ LoadApprovals(w)
  BY <1>1, <1>4, <1>a DEF SaveTicket, LoadTickets, LoadApprovals, Retains, Busy, Shell
<1>5. CASE HaltSubmission(w) \/ ConsumeTicket(w) \/ HandOff(w)
  BY <1>1, <1>5, <1>a DEF HaltSubmission, ConsumeTicket, HandOff, Retains, Busy, Shell
<1>6. CASE WriteIntent(w)
  BY <1>1, <1>6, <1>a DEF WriteIntent, Retains, Busy, Shell
<1>7. CASE SaveExecutions(w)
  BY <1>1, <1>7, <1>a DEF SaveExecutions, Retains, Busy, Shell
<1>8. CASE Commit(w)
  <2> DEFINE d == shell[w].decision
             copy == CommittedPurchase(d, shell[w].fill)
  <2>1. /\ d \in Decisions /\ 0 < shell[w].fill /\ shell[w].fill <= orders[d].filled
        /\ shell[w].fill \in Nat /\ ledger.committed \in Nat /\ d \notin ledger.acted
        /\ ledger.acted \in SUBSET Decisions /\ IsFiniteSet(ledger.acted)
        /\ ledger.committed + shell[w].fill <= Authorization
    BY <1>8, <1>a DEF Commit, MayCommit, BackedShell, Busy, Shell, Ledger, Backed
  <2>2. \A e \in Decisions : Filled[e] = orders[e].filled /\ Filled[e] \in Int
    BY <1>a, FillsAreDollars
  <2>3. SumOver(Filled, ledger.acted \cup {d}) = Filled[d] + SumOver(Filled, ledger.acted)
    BY <2>1, <2>2, SumOverAdd
  <2>4. SumOver(Filled, ledger.acted) \in Int
    BY <1>a, <2>1, FillsAreDollars
  <2>5. copy = [committed |-> ledger.committed + shell[w].fill, acted |-> ledger.acted \cup {d}]
    BY DEF CommittedPurchase
  <2>6. Backed(copy)
    <3>1. IsFiniteSet(ledger.acted \cup {d})
      BY <2>1, FS_AddElement
    <3>2. ledger.committed + shell[w].fill <= SumOver(Filled, ledger.acted \cup {d})
      BY <1>a, <2>1, <2>2, <2>3, <2>4 DEF Backed
    <3>3. \A e \in ledger.acted \cup {d} : orders[e].filled > 0
      BY <1>a, <2>1, <2>2 DEF Backed
    <3>q. QED BY <2>1, <2>5, <3>1, <3>2, <3>3 DEF Backed
  <2> DEFINE s == [shell[w] EXCEPT !.at = "post", !.ledger = copy]
  <2>7. Hold(w, s) /\ UNCHANGED <<ledger, orders>>
    BY <1>8 DEF Commit
  <2>8. s.ledger = copy /\ s.fill = shell[w].fill /\ s.decision = d
    BY <1>a DEF Busy, Shell
  <2> HIDE DEF s, copy
  <2>9. BackedShell(s)
    BY <2>1, <2>6, <2>8 DEF BackedShell
  <2>q. QED BY <2>7, <2>9, HoldBacked
<1>9. CASE SaveLedger(w)
  <2>1. PICK copy : copy = shell[w].ledger /\ Backed(copy)
    BY <1>a DEF BackedShell
  <2>2. ledger' = copy /\ UNCHANGED orders /\ Hold(w, Blank)
    BY <1>9, <2>1 DEF SaveLedger
  <2>3. Backed(ledger)' /\ FillsFollowPhases'
    BY <2>1, <2>2 DEF LedgerInv, FillsFollowPhases, Backed, Filled
  <2>4. \A v \in Shells : shell'[v] = shell[v] \/ shell'[v] = Blank
    BY <2>2, <1>a DEF Typed, TypeOK, Hold
  <2>5. ASSUME NEW v \in Shells PROVE BackedShell(shell[v])'
    <3>1. PICK p : p = shell'[v] /\ BackedShell(p)
      BY <1>a, <2>4 DEF LedgerInv
    <3>q. QED BY <2>2, <3>1 DEF BackedShell, Backed, Filled
  <2>q. QED BY <2>3, <2>5 DEF LedgerInv
<1>q. QED
  BY <1>2, <1>3, <1>4, <1>5, <1>6, <1>7, <1>8, <1>9 DEF Proceed

(* The broker: an order only executes more of itself.                         *)
LEMMA BrokerBacked ==
  ASSUME LedgerInv, Typed', BrokerStep
  PROVE  LedgerInv'
<1> USE DEF files, history, outside
<1>a. /\ Typed
      /\ \A d \in Decisions : orders[d] \in Order /\ Amount[d] \in Nat
  BY AmountAssumption DEF LedgerInv, Typed, TypeOK
<1>1. UNCHANGED <<ledger, shell>>
  BY DEF BrokerStep, CallAccepted, CallRefused, OrderListed, OrderPartiallyFills, OrderFills,
     OrderCancelled, OrderRejected, SetOrder
<1>2. ASSUME FillsFollowPhases', FillsGrow PROVE LedgerInv'
  <2>1. Backed(ledger)'
    <3>1. PICK copy : copy = ledger /\ copy \in Ledger /\ Backed(copy)
      BY <1>a DEF LedgerInv, Typed, TypeOK
    <3>2. Backed(copy)'
      BY <1>a, <1>2, <3>1, BackedStays
    <3>q. QED BY <1>1, <3>1, <3>2 DEF Backed
  <2>2. ASSUME NEW w \in Shells PROVE BackedShell(shell[w])'
    <3>1. PICK s \in Busy : s = shell[w] /\ BackedShell(s)
      BY <1>a DEF LedgerInv, Typed, Working
    <3>2. BackedShell(s)'
      BY <1>a, <1>2, <3>1, BackedShellStays
    <3>3. shell'[w] = s
      BY <1>1, <3>1
    <3>q. QED BY <3>2, <3>3
  <2>q. QED BY <1>2, <2>1, <2>2 DEF LedgerInv
<1>3. ASSUME NEW d \in Decisions, NEW order,
             orders' = [orders EXCEPT ![d] = order],
             order.filled \in Nat, orders[d].filled <= order.filled,
             order.phase \in {"none", "open"} => order.filled = 0,
             order.phase = "partial" => order.filled <= Amount[d]
      PROVE  LedgerInv'
  <2>1. /\ orders'[d] = order
        /\ \A e \in Decisions : e # d => orders'[e] = orders[e]
    BY <1>3, <1>a DEF Typed, TypeOK
  <2>2. \A e \in Decisions : orders[e].filled \in Nat
    BY <1>a DEF Order
  <2>3. FillsFollowPhases'
    BY <1>3, <2>1 DEF LedgerInv, FillsFollowPhases
  <2>4. FillsGrow
    BY <1>3, <2>1, <2>2 DEF FillsGrow
  <2>q. QED BY <1>2, <2>3, <2>4
<1>4. ASSUME UNCHANGED orders PROVE LedgerInv'
  <2>1. FillsFollowPhases' /\ FillsGrow
    BY <1>4, <1>a DEF LedgerInv, FillsFollowPhases, FillsGrow, Order
  <2>q. QED BY <1>2, <2>1
<1>5. ASSUME NEW answered \in BOOLEAN, CallAccepted(answered) PROVE LedgerInv'
  <2>1. handoff.decision \in Decisions
    BY <1>5, <1>a DEF CallAccepted, Typed, Working
  <2>2. PICK d \in Decisions : d = handoff.decision
    BY <2>1
  <2>3. CASE orders[d].phase = "none"
    <3>1. PICK order : order = [orders[d] EXCEPT !.phase = "open"]
      OBVIOUS
    <3>2. orders' = [orders EXCEPT ![d] = order]
      BY <1>5, <2>2, <2>3, <3>1 DEF CallAccepted
    <3>3. order.phase = "open" /\ order.filled = orders[d].filled /\ orders[d].filled \in Nat
      BY <1>a, <3>1 DEF Order
    <3>4. orders[d].filled = 0
      BY <2>3 DEF LedgerInv, FillsFollowPhases
    <3>5. /\ order.filled \in Nat /\ orders[d].filled <= order.filled
          /\ order.phase \in {"none", "open"} => order.filled = 0
          /\ order.phase = "partial" => order.filled <= Amount[d]
      BY <3>3, <3>4
    <3>q. QED BY <1>3, <3>2, <3>5
  <2>4. CASE orders[d].phase # "none"
    BY <1>4, <1>5, <2>2, <2>4 DEF CallAccepted
  <2>q. QED BY <2>3, <2>4
<1>6. CASE CallRefused
  BY <1>4, <1>6 DEF CallRefused
<1>7. ASSUME NEW d \in Decisions,
             \/ OrderListed(d) \/ OrderPartiallyFills(d) \/ OrderFills(d)
             \/ OrderCancelled(d) \/ OrderRejected(d)
      PROVE  LedgerInv'
  <2>1. /\ orders[d] \in Order /\ orders[d].filled \in Nat /\ Amount[d] \in Nat
        /\ orders[d].phase \in {"none", "open"} => orders[d].filled = 0
        /\ orders[d].phase = "partial" => orders[d].filled <= Amount[d]
    BY <1>a DEF Order, LedgerInv, FillsFollowPhases
  <2>2. CASE OrderListed(d)
    <3>1. PICK order : order = [orders[d] EXCEPT !.listed = TRUE]
      OBVIOUS
    <3>2. order.phase = orders[d].phase /\ order.filled = orders[d].filled
      BY <2>1, <3>1 DEF Order
    <3>3. orders' = [orders EXCEPT ![d] = order]
      BY <2>2, <3>1 DEF OrderListed, SetOrder
    <3>4. /\ order.filled \in Nat /\ orders[d].filled <= order.filled
          /\ order.phase \in {"none", "open"} => order.filled = 0
          /\ order.phase = "partial" => order.filled <= Amount[d]
      BY <2>1, <3>2
    <3>q. QED BY <1>3, <3>3, <3>4
  <2>3. ASSUME NEW phase \in {"partial", "filled"}, NEW f \in Nat, f <= Amount[d],
               orders[d].filled <= f,
               SetOrder(d, [orders[d] EXCEPT !.phase = phase, !.filled = f])
        PROVE  LedgerInv'
    <3>1. PICK order : order = [orders[d] EXCEPT !.phase = phase, !.filled = f]
      OBVIOUS
    <3>2. order.phase = phase /\ order.filled = f
      BY <2>1, <3>1 DEF Order
    <3>3. orders' = [orders EXCEPT ![d] = order]
      BY <2>3, <3>1 DEF SetOrder
    <3>q. QED BY <1>3, <2>3, <3>2, <3>3
  <2>4. CASE OrderPartiallyFills(d)
    <3>1. PICK f \in 1 .. (Amount[d] - 1) :
            SetOrder(d, [orders[d] EXCEPT !.phase = "partial", !.filled = f])
      BY <2>4 DEF OrderPartiallyFills
    <3>2. f \in Nat /\ f <= Amount[d] /\ orders[d].filled <= f
      BY <2>1, <2>4, <3>1 DEF OrderPartiallyFills
    <3>q. QED BY <2>3, <3>1, <3>2
  <2>5. CASE OrderFills(d)
    <3>1. orders[d].filled <= Amount[d]
      BY <2>1, <2>5 DEF OrderFills
    <3>2. Amount[d] \in Nat /\ Amount[d] <= Amount[d]
      BY <2>1
    <3>3. SetOrder(d, [orders[d] EXCEPT !.phase = "filled", !.filled = Amount[d]])
      BY <2>5 DEF OrderFills
    <3>q. QED BY <2>3, <3>1, <3>2, <3>3
  <2>6. ASSUME NEW phase \in {"cancelled", "rejected"},
               SetOrder(d, [orders[d] EXCEPT !.phase = phase])
        PROVE  LedgerInv'
    <3>1. PICK order : order = [orders[d] EXCEPT !.phase = phase]
      OBVIOUS
    <3>2. order.phase = phase /\ order.filled = orders[d].filled
      BY <2>1, <3>1 DEF Order
    <3>3. orders' = [orders EXCEPT ![d] = order]
      BY <2>6, <3>1 DEF SetOrder
    <3>4. /\ order.filled \in Nat /\ orders[d].filled <= order.filled
          /\ order.phase \in {"none", "open"} => order.filled = 0
          /\ order.phase = "partial" => order.filled <= Amount[d]
      BY <2>1, <2>6, <3>2
    <3>q. QED BY <1>3, <3>3, <3>4
  <2>q. QED BY <1>7, <2>2, <2>4, <2>5, <2>6 DEF OrderCancelled, OrderRejected
<1>q. QED BY <1>5, <1>6, <1>7 DEF BrokerStep

(* Edits and expiries touch neither the ledger nor the orders; a crash loses  *)
(* what a script held.                                                        *)
LEMMA WorldBacked ==
  ASSUME LedgerInv, Typed', WorldStep
  PROVE  LedgerInv'
<1> USE DEF files, history, outside
<1>1. ASSUME NEW w \in Shells, Crash(w) PROVE LedgerInv'
  BY <1>1, BlankBacked, HoldBacked DEF Crash, LedgerInv
<1>2. ASSUME UNCHANGED <<ledger, orders, shell>> PROVE LedgerInv'
  BY <1>2 DEF LedgerInv, FillsFollowPhases, Backed, BackedShell, Filled
<1>q. QED
  BY <1>1, <1>2 DEF WorldStep, ToggleSwitches, EditPolicy, ApprovalLapses, TicketLapses

(* The empty ledger is backed.                                                *)
LEMMA InitBacked == Init => LedgerInv
<1> SUFFICES ASSUME Init PROVE LedgerInv
  OBVIOUS
<1>1. Typed /\ BackedShell(Blank)
  BY InitTyped, BlankBacked
<1>2. FillsFollowPhases /\ Backed(ledger) /\ \A w \in Shells : BackedShell(shell[w])
  BY <1>1 DEF Init, FillsFollowPhases, BackedShell
<1>q. QED BY <1>1, <1>2 DEF LedgerInv

(* Every step keeps it backed.                                                *)
LEMMA StepBacked == LedgerInv /\ [Next]_vars => LedgerInv'
<1> SUFFICES ASSUME LedgerInv, [Next]_vars PROVE LedgerInv'
  OBVIOUS
<1>1. Typed'
  BY StepTyped DEF LedgerInv
<1>2. CASE UNCHANGED vars
  BY <1>1, <1>2 DEF LedgerInv, FillsFollowPhases, Backed, BackedShell, Filled, vars
<1>3. CASE Next
  BY <1>1, <1>3, StartBacked, RunBacked, BrokerBacked, WorldBacked DEF Next, ScriptStep
<1>q. QED BY <1>2, <1>3

(* --- the theorem ----------------------------------------------------------- *)

(* The ledger never holds more dollars than the orders it names have filled   *)
(* for, nor more than the month authorizes, however many shells commit at     *)
(* once: a lost update can drop a purchase, never invent one.                 *)
THEOREM LedgerBacked == Spec => []LedgerIsBacked
<1>1. LedgerInv => LedgerIsBacked
  BY DEF LedgerInv, Backed, LedgerIsBacked
<1>q. QED BY InitBacked, StepBacked, <1>1, PTL DEF Spec
================================================================================
