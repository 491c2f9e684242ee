---------------------------- MODULE BudgetMonth ----------------------------
(* A month's authorization across the scripts that spend it: validate_plan.py *)
(* files plans, approve_decision.py approves their legs, a purchase is        *)
(* checked by preflight against the broker's orders and the reservations,     *)
(* reconcile_submission.py charges fills to the ledger, which rolls over when *)
(* the month does. One person at one shell; the clock, the broker's fills,    *)
(* purchases by hand in the broker's app and edits of the configuration go on *)
(* around them, also between reconcile_submission.py's load and its save.     *)
EXTENDS Allocation, DecisionSchema, MonthlyBudget, CapitalGate

CONSTANTS
  Ids,            \* the decision ids an evaluation may file
  Asset,          \* id -> [kind, position]: what each of them would buy
  Proposals,      \* what a plan may buy: sequences of [id, usd, thin, events]
  Moments,        \* the moments at which anything happens, in UTC hours
  Budgets,        \* the values monthly_budget_usd may be given
  FirstBudget,    \* the one it has to begin with
  ByHandIds,      \* the order ids of trades in the broker's app
  ByHandUsd,      \* and their amounts
  Universe,       \* the supported-pairs snapshot
  Faults,         \* the departures a decision is reviewed with: <<field, value>>
  EventFaults,    \* those of them about the month's boundary
  MaxInputs       \* bound: plans logged, trades by hand, budgets edited and
                  \* ledgers forced, together

Awaited == [date : Int \cup {None}, class : {"EQUITY", "ETF", "CRYPTO"},
            afterClose : BOOLEAN, declared : BOOLEAN]
Proposal == [id : Ids, usd : Nat \ {0}, thin : SUBSET {"optionality_analysis"},
             events : SUBSET Awaited]

ASSUME MonthConstants ==
  /\ Budgets \subseteq Nat \ {0} /\ FirstBudget \in Budgets
  /\ ByHandIds \cap Ids = {} /\ ByHandUsd \subseteq Nat \ {0}
  /\ \A id \in Ids : Asset[id].kind \in DOMAIN Specifics
  /\ Proposals \subseteq Seq(Proposal)
  /\ Universe # None =>
       \A pair \in DOMAIN Universe : Universe[pair].minSize \in Nat \cup {None}
  /\ \A x \in Faults \cup EventFaults : x[1] = "events" =>
       x[2] # None /\ \A e \in x[2] : e.date \in Int \cup {None} /\ e.afterClose \in BOOLEAN
  /\ Moments \in Seq(Nat) /\ Moments # <<>>
  /\ \A i \in 1 .. Len(Moments) - 1 : Moments[i] < Moments[i + 1]
  /\ MaxInputs \in Nat

(* Both thresholds are a dollar: MIN_EQUITY_ORDER_USD and MIN_DEPLOYABLE_USD. *)
ASSUME GateKnowsTheMinimum == MinEquityOrder <= MinDeployable

VARIABLES
  clock,        \* an index into Moments
  budget,       \* config.json monthly_budget_usd
  disk,         \* state/budget.json
  holding,      \* what reconcile_submission.py loaded and has yet to save, or None
  orders,       \* the broker's orders
  plans,        \* the plans logged so far, each with what it was judged against
  approvals,    \* state/approvals.json
  stage,        \* state/executions.json
  reviewed,     \* a decision in front of validate_decision.py, or None
  inputs,       \* how many there were of what MaxInputs bounds
  forced,       \* whether a ledger was ever forced back to nothing
  commits       \* every charge to the ledger: [id, usd, month]

files == <<disk, plans, approvals, stage>>
outside == <<clock, budget, orders>>
history == <<forced, commits>>
vars == <<outside, files, holding, reviewed, inputs, history>>

now == Moments[clock]
Loaded == LoadBudgetState(disk, budget, now)
Reconciled == Reconcile(budget, Loaded, {o \in orders : o.class # "CRYPTO"},
                        {o \in orders : o.class = "CRYPTO"}, now)
Idle == holding = None /\ reviewed = None
Input == inputs < MaxInputs /\ inputs' = inputs + 1

Init ==
  /\ clock = 1 /\ budget = FirstBudget
  /\ disk = None
  /\ holding = None /\ reviewed = None
  /\ orders = {} /\ plans = <<>> /\ approvals = <<>> /\ stage = <<>>
  /\ inputs = 0 /\ forced = FALSE /\ commits = {}

(* --- what goes on around the scripts -------------------------------------- *)

Tick ==
  /\ clock < Len(Moments) /\ reviewed = None
  /\ clock' = clock + 1
  /\ UNCHANGED <<budget, orders, files, holding, reviewed, inputs, history>>

EditBudget(usd) ==
  /\ usd # budget /\ reviewed = None
  /\ budget' = usd
  /\ Input
  /\ UNCHANGED <<clock, orders, files, holding, reviewed, history>>

NewOrder(id, side, class, usd) ==
  [id |-> id, stamp |-> now, side |-> side, class |-> class, state |-> "open",
   requested |-> usd, executed |-> 0]

(* A trade in the broker's app is a market order with an id of its own,       *)
(* filled at once.                                                            *)
TradeByHand(id, side, usd) ==
  /\ reviewed = None
  /\ \A o \in orders : o.id # id
  /\ orders' = orders \cup {[NewOrder(id, side, "EQUITY", usd) EXCEPT
                               !.state = "filled", !.executed = usd]}
  /\ Input
  /\ UNCHANGED <<clock, budget, files, holding, reviewed, history>>

(* An open order fills to half, fills, or dies with what it has.              *)
OrderMoves(o) ==
  /\ reviewed = None /\ o.state = "open"
  /\ \E p \in {[o EXCEPT !.executed = o.requested \div 2],
               [o EXCEPT !.executed = o.requested, !.state = "filled"],
               [o EXCEPT !.state = "dead"]} :
       p # o /\ orders' = (orders \ {o}) \cup {p}
  /\ UNCHANGED <<clock, budget, files, holding, reviewed, inputs, history>>

(* --- proposing ------------------------------------------------------------ *)

Leg(p, seen) ==
  [BuyLeg(Asset[p.id].kind, Asset[p.id].position, p.id, p.usd, seen, now, p.thin)
     EXCEPT !.events = p.events]

Plan(type, legs, wait) ==
  [type |-> type, id |-> "plan", legs |-> legs, wait |-> wait, marks |-> {}, gaps |-> {}]

(* What an evaluation that follows its prompt may file: a leg reports what    *)
(* the legs ahead of it leave. *)
Drafts(ledger) ==
  {Plan("WAIT", <<>>, WaitDecision(CHOOSE id \in Ids : TRUE, ledger))}
  \cup {Plan(IF Len(p) = 1 THEN "SINGLE_BUY" ELSE "SPLIT_BUY_PLAN",
             [i \in DOMAIN p |->
                LET ahead == SumOver([j \in 1 .. i - 1 |-> p[j].usd], 1 .. i - 1)
                IN Leg(p[i], CumulativeState(ledger, ahead))], None) :
          p \in Proposals}

(* validate_plan.py --log: only a valid plan reaches the decision log.        *)
Draft ==
  /\ Idle /\ Loaded # None
  /\ Input
  /\ \E plan \in Drafts(Loaded) :
       /\ ValidatePlan(plan, budget, Loaded, Universe, now) = {}
       /\ plans' = Append(plans, [plan |-> plan, at |-> now, budget |-> budget,
                                  ledger |-> Loaded])
  /\ UNCHANGED <<outside, disk, approvals, stage, holding, reviewed, history>>

ReviewedUsd == 1000

(* A decision with a departure: marks, gaps and garbled fields add to what is *)
(* there, any other field is replaced, the new balance following the amount.  *)
Depart(d, x) ==
  CASE x[1] \in {"marks", "gaps", "garbled"} -> [d EXCEPT ![x[1]] = @ \cup {x[2]}]
    [] x[1] = "amount" -> [d EXCEPT !.amount = x[2], !.after = d.before - x[2]]
    [] OTHER -> [d EXCEPT ![x[1]] = x[2]]

(* validate_decision.py: prints a verdict, writes nothing. Faults are tried in *)
(* pairs on the first day, those about the boundary on every day. *)
Review ==
  /\ Idle /\ Loaded # None /\ inputs = 0
  /\ \E id \in Ids, position \in {"EXISTING_POSITION", "NEW_POSITION"},
       pair \in (EventFaults \X EventFaults) \cup IF clock = 1 THEN Faults \X Faults ELSE {} :
       reviewed' = [base |-> BuyLeg(Asset[id].kind, position, id,
                                    ReviewedUsd, Loaded, now, {}),
                    x |-> pair[1], y |-> pair[2]]
  /\ UNCHANGED <<outside, files, holding, inputs, history>>

Dismiss ==
  /\ reviewed # None
  /\ reviewed' = None
  /\ UNCHANGED <<outside, files, holding, inputs, history>>

(* --- approving and buying ------------------------------------------------- *)

(* find_decision: the first record of the log with that id.                   *)
Recorded(id) ==
  {at \in (DOMAIN plans) \X (1 .. 2) :
     at[2] \in DOMAIN plans[at[1]].plan.legs /\ plans[at[1]].plan.legs[at[2]].id = id}
Waited(id) == {k \in DOMAIN plans : plans[k].plan.wait # None /\ plans[k].plan.wait.id = id}
FindDecision(id) ==
  LET at == CHOOSE at \in Recorded(id) : \A b \in Recorded(id) : at[1] <= b[1]
  IN IF \E k \in Waited(id) : \A b \in Recorded(id) : k < b[1] THEN None
     ELSE IF Recorded(id) = {} THEN None
     ELSE plans[at[1]].plan.legs[at[2]]

StageOf(id) == IF id \in DOMAIN stage THEN stage[id] ELSE "PROPOSED"

(* A leg is approved alone: judged as a decision of its own, against the      *)
(* ledger as it is. A wait is no purchase. *)
Approve(id) ==
  LET leg == FindDecision(id)
      ledger == Loaded
  IN /\ Idle /\ CanApprove(StageOf(id))
     /\ ledger # None /\ leg # None
     /\ Valid(leg, budget, ledger, Universe, now)
     /\ approvals' = Put(approvals, id, [month |-> ProjectMonth(now), usd |-> leg.amount, at |-> now])
     /\ stage' = Put(stage, id, "APPROVED")
     /\ UNCHANGED <<outside, disk, plans, holding, reviewed, inputs, history>>

ApprovalStands(id) ==
  /\ approvals[id].month = ProjectMonth(now)
  /\ now - approvals[id].at <= 24

PROHIBITION_CODES ==
  {"SELL_FORBIDDEN", "SHORT_FORBIDDEN", "OPTIONS_FORBIDDEN", "MARGIN_FORBIDDEN",
   "TRANSFER_FORBIDDEN", "SETTINGS_CHANGE_FORBIDDEN", "FUTURES_FORBIDDEN",
   "LEVERAGED_PRODUCT_FORBIDDEN", "INVERSE_PRODUCT_FORBIDDEN", "OTC_FORBIDDEN",
   "PENNY_STOCK_FORBIDDEN", "ASSET_TYPE_NOT_ALLOWED", "CRYPTO_FORBIDDEN", "NOT_EXPLICIT_BUY",
   "SELF_APPROVAL_ATTEMPTED", "INVALID_DECISION", "CRYPTO_PAIR_HALTED",
   "CRYPTO_PAIR_NOT_SUPPORTED", "CRYPTO_PAIR_NOT_TRADABLE", "MALFORMED_CRYPTO_PAIR",
   "CRYPTO_UNIVERSE_UNAVAILABLE", "MISSING_TICKER", "MALFORMED_TICKER", "ZERO_AMOUNT",
   "NEGATIVE_AMOUNT", "SUB_CENT_AMOUNT", "ASSET_CLASS_MISMATCH", "BELOW_BROKER_MINIMUM",
   "CRYPTO_BELOW_MIN_ORDER_SIZE", "CRYPTO_FIELD_MISMATCH", "HORIZON_TOO_SHORT"}

(* The guardrails and the money of preflight, then prepare, submit and the    *)
(* human's order, in one step: purchases one at a time. Only the prohibitions *)
(* are checked again, and the legs approved meanwhile are not reserved:       *)
(* prepare_submission.py passes preflight no reservations.                    *)
Buy(id) ==
  LET usd == approvals[id].usd
      ledger == Loaded
      reconciliation == Reconciled
  IN /\ Idle /\ StageOf(id) = "APPROVED" /\ ApprovalStands(id)
     /\ ledger # None /\ reconciliation # None
     /\ ~reconciliation.blocking
     /\ usd <= MaxAdditional(reconciliation)
     /\ Validate(FindDecision(id), budget, ledger, Universe, now) \cap PROHIBITION_CODES = {}
     /\ orders' = orders \cup
          {NewOrder(id, "buy", Specifics[Asset[id].kind].class, usd)}
     /\ stage' = [stage EXCEPT ![id] = "SUBMITTED"]
     /\ UNCHANGED <<clock, budget, disk, plans, approvals, holding, reviewed, inputs, history>>

(* --- charging the ledger -------------------------------------------------- *)

Outcome(o) ==
  CASE o.state = "filled" -> "FILLED"
    [] o.state = "open" /\ o.executed > 0 -> "PARTIALLY_FILLED"
    [] o.state = "dead" -> "CANCELLED"

(* reconcile_submission.py moves the record first. With --commit it then      *)
(* loads the ledger, charges the fill and saves, if nothing there refuses.    *)
Settle(o, commit) ==
  /\ Idle /\ o.id \in Ids
  /\ o.state # "open" \/ o.executed > 0
  /\ CanSettle(StageOf(o.id), Outcome(o))
  /\ stage' = [stage EXCEPT ![o.id] = Outcome(o)]
  /\ holding' = IF commit /\ o.executed > 0 /\ Loaded # None
                THEN [ledger |-> Loaded, id |-> o.id, usd |-> o.executed] ELSE None
  /\ UNCHANGED <<outside, disk, plans, approvals, reviewed, inputs, history>>

FinishCommit ==
  /\ holding # None
  /\ IF MayCommit(holding.ledger, holding.id, holding.usd)
     THEN /\ disk' = CommitPurchase(holding.ledger, holding.id, holding.usd)
          /\ commits' = commits \cup
               {[id |-> holding.id, usd |-> holding.usd, month |-> holding.ledger.month]}
     ELSE UNCHANGED <<disk, commits>>
  /\ holding' = None
  /\ UNCHANGED <<outside, plans, approvals, stage, reviewed, inputs, forced>>

(* check_status.py --init: to begin with, or forced, as the message about a   *)
(* corrupt ledger recommends. *)
InitLedger(force) ==
  /\ Idle /\ MayInit(disk, force)
  /\ disk' = FreshState(ProjectMonth(now), budget, {})
  /\ IF force THEN Input ELSE UNCHANGED inputs
  /\ forced' = (forced \/ force)
  /\ UNCHANGED <<outside, plans, approvals, stage, holding, reviewed, commits>>

Next ==
  \/ Tick
  \/ \E usd \in Budgets : EditBudget(usd)
  \/ \E id \in ByHandIds, side \in {"buy", "sell"}, usd \in ByHandUsd : TradeByHand(id, side, usd)
  \/ \E o \in orders : OrderMoves(o)
  \/ Draft \/ Review \/ Dismiss
  \/ \E id \in Ids : Approve(id)
  \/ \E id \in Ids : Buy(id)
  \/ \E o \in orders, commit \in BOOLEAN : Settle(o, commit)
  \/ FinishCommit
  \/ \E force \in BOOLEAN : InitLedger(force)

Spec == Init /\ [][Next]_vars
=============================================================================
