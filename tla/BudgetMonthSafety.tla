------------------------- MODULE BudgetMonthSafety -------------------------
(* What a month of BudgetMonth must satisfy.                                  *)
EXTENDS BudgetMonth

Ledgers ==
  {l \in [month : Int, authorized : Nat, committed : Nat, acted : SUBSET Ids] :
     l.committed <= l.authorized}
Orders ==
  {o \in [id : Ids \cup ByHandIds, stamp : Nat, side : {"buy", "sell"},
          class : {"EQUITY", "ETF", "CRYPTO"}, state : KnownStates,
          requested : Nat, executed : Nat] : o.executed <= o.requested}

(* A missing ledger is none. *)
ASSUME NoneIsNoLedger == None \notin Ledgers

(* The ledger is one the program writes, what is to be charged was recorded,  *)
(* and every approved id has an approval. *)
TypeOK ==
  /\ clock \in 1 .. Len(Moments) /\ budget \in Budgets
  /\ disk \in Ledgers \cup {None}
  /\ holding \in [ledger : Ledgers, id : DOMAIN stage, usd : Nat \ {0}] \cup {None}
  /\ orders \subseteq Orders
  /\ \A k \in DOMAIN plans : plans[k].plan.type \in PlanTypes
  /\ DOMAIN approvals \subseteq Ids
  /\ stage \in [DOMAIN approvals -> ExecutionState]
  /\ commits \subseteq [id : Ids, usd : Nat \ {0}, month : Int]

(* --- the month's money ---------------------------------------------------- *)

Month == ProjectMonth(now)
OnlyUtcIsAMonthAhead == YearMonth(UtcDate(now)) # Month

(* What orders have cost and may still cost; the buys UTC dates in this month, *)
(* and those the project does.                                                *)
Claim(o) == IF o.state = "open" THEN o.requested ELSE o.executed
MayCost(these) == SumOver([o \in these |-> Claim(o)], these)
StampedThisMonth == {o \in orders : o.side = "buy" /\ OrderMonth(o) = Month}
PlacedThisMonth == {o \in orders : o.side = "buy" /\ ProjectMonth(o.stamp) = Month}

Charges(all, month) ==
  LET charged == {c \in all : c.month = month}
  IN SumOver([c \in charged |-> c.usd], charged)

(* A purchase, the orders UTC dates in this month of the project, by hand or  *)
(* not, filled or still open, fit in the budget of that moment; so do the     *)
(* purchase and what the ledger was charged this month, unless it was forced  *)
(* back to nothing (preflight with reconcile), when each purchase is on the   *)
(* broker's list before the next is prepared. Of an order of the month's last *)
(* evening, which UTC dates a month later, only the second is true.           *)
Bought(id) == StageOf(id) = "APPROVED" /\ StageOf(id)' = "SUBMITTED"
BuysStayInBudget ==
  [][\A id \in Ids : Bought(id) =>
       LET bought == MayCost(orders' \ orders)
       IN /\ MayCost(StampedThisMonth) + bought <= budget
          /\ ~forced => Charges(commits, Month) + bought <= budget]_vars

(* A month's purchases stay within its budget, the project's month being the  *)
(* one that counts: "rolls the budget over five to six hours early" is how    *)
(* state.py rejects UTC's (current_month).                                    *)
MonthStaysInBudget ==
  [][\A id \in Ids : Bought(id) =>
       MayCost(PlacedThisMonth) + MayCost(orders' \ orders) <= budget]_vars

(* No decision is charged to the ledger twice, across months, late fills and  *)
(* a clock that moves between the load and the save, unless someone forced    *)
(* the ledger back to nothing (commit_purchase, load_budget_state).           *)
NeverReplayed ==
  ~forced => \A c, d \in commits : c.id = d.id => c = d

(* What the ledger says was committed this month is what was charged to this  *)
(* month, whatever was lying on disk when the month turned. *)
LedgerCountsItsMonth ==
  ~forced /\ Loaded # None => Loaded.committed = Charges(commits, Month)

(* --- plans ---------------------------------------------------------------- *)

(* A split cannot spend what one purchase could not: when a plan is logged,   *)
(* its dollars as a single leg, with whatever analysis any leg has, validate  *)
(* too (allocation.py's cumulative state). *)
AsOneLeg(legs) ==
  LET total == Preceding(legs, Len(legs) + 1)
      analysed == \E i \in DOMAIN legs : Stated(legs[i], "optionality_analysis")
  IN [legs[1] EXCEPT !.amount = total, !.after = @ + legs[1].amount - total,
                     !.gaps = IF analysed THEN @ \ {"optionality_analysis"} ELSE @]
SplittingBuysNothing ==
  [][Len(plans') > Len(plans) =>
       LET plan == plans'[Len(plans')].plan
       IN plan.type = "SPLIT_BUY_PLAN" =>
            Valid(AsOneLeg(plan.legs), budget, Loaded, Universe, now)]_vars

(* A plan does not go bad during the day it was filed: with the ledger and    *)
(* the budget as they were, the same plan, with the events its legs await,    *)
(* validates at every later moment of that day of Chicago and New York,       *)
(* unless UTC has moved to another month (days_remaining_in_month,            *)
(* tradable_sessions_remaining, final_opportunity). *)
SameDay(t, u) ==
  /\ ProjectDate(t) = ProjectDate(u) /\ ExchangeDate(t) = ExchangeDate(u)
  /\ YearMonth(UtcDate(t)) = YearMonth(UtcDate(u))
StableWithinTheDay ==
  \A k \in DOMAIN plans :
    SameDay(plans[k].at, now) /\ Loaded = plans[k].ledger /\ budget = plans[k].budget =>
      ValidatePlan(plans[k].plan, budget, Loaded, Universe, now) = {}

(* The id of a purchase that nobody has filed.                                *)
ASSUME AnotherIsNotFiled == "another" \notin Ids /\ None # "another"

(* When the capital gate lets an evaluation be paid for, there is a purchase  *)
(* to be found: with no order the ledger does not know of, the least and the  *)
(* most it calls deployable pass the guardrails and fit beside what is filled, *)
(* pending and approved (evaluate_gate against validate and the plan ceiling). *)
GateAgreesWithValidator ==
  LET ledger == Loaded
      reconciliation == Reconciled
      reserved == SiblingReservations(approvals, stage, Month, {})
      cash == [asOf |-> now, agentic |-> TRUE, cash |-> 10 * budget, unsettled |-> None]
      gate == EvaluateGate(Remaining(ledger), reserved, cash, now)
  IN /\ Idle /\ ledger # None /\ gate.outcome = "EVALUATE"
     /\ reconciliation # None /\ ~reconciliation.blocking
     /\ reconciliation.remaining = Remaining(ledger)
     => \A usd \in {MinEquityOrder, gate.deployable} :
          /\ PlanWithinAuthorization(reconciliation, budget, reserved, usd)
          /\ Valid(BuyLeg("equity", "EXISTING_POSITION", "another", usd, ledger, now, {}),
                   budget, ledger, Universe, now)

(* Each leg of a plan that was just logged passes the validation that         *)
(* approve_decision.py runs on it alone.                                      *)
LegsAreApprovable ==
  \A k \in DOMAIN plans :
    plans[k].at = now /\ plans[k].ledger = Loaded /\ plans[k].budget = budget =>
      \A i \in DOMAIN plans[k].plan.legs :
        Valid(plans[k].plan.legs[i], budget, Loaded, Universe, now)

(* --- verdicts ------------------------------------------------------------- *)

Verdict(d) == Valid(d, budget, Loaded, Universe, now)
Both == Depart(Depart(reviewed.base, reviewed.x), reviewed.y)

(* A second fault never makes up for a first: where the decision would pass   *)
(* without either, what one gets refused stays refused with the other,        *)
(* although checks return early and fall back. Not claimed of two fields that *)
(* are judged against each other: changing either may put the pair right. A   *)
(* price that is left out, and evidence written as prose, also silence what   *)
(* is judged against them, and a type that `Allow` lets through, research.    *)
JudgedTogether ==
  {{"amount", "after"}, {"assetClass", "assetType"}, {"assetClass", "marks"},
   {"price", "amount"}, {"price", "fractional"}, {"amount", "fractional"},
   {"price", "direction"}, {"price", "average"}, {"average", "direction"},
   {"theme", "subtheme"}, {"ticker", "alternative"}, {"gaps", "amount"}, {"sources", "gaps"}}
  \cup (IF reviewed.base.assetClass # "CRYPTO" THEN {}
        ELSE {{"ticker", "price"}, {"ticker", "amount"}})
  \cup (IF "average" \notin Both.garbled THEN {} ELSE {{"garbled", "price"}})
  \cup (IF Allow \cap {"options", "leveraged", "inverse"} = {} THEN {}
        ELSE {{"assetType", "gaps"}, {"assetType", "research"}})
RefusalsCompose ==
  LET fields == {reviewed.x[1], reviewed.y[1]}
  IN reviewed # None /\ Cardinality(fields) = 2 /\ fields \notin JudgedTogether =>
       (Verdict(reviewed.base) /\ Verdict(Both) => Verdict(Depart(reviewed.base, reviewed.x)))

(* A valid decision says truly whether an event it awaits comes in time: a    *)
(* session of that market is left in the project's month on which to act on   *)
(* it. Left out is the evening on which UTC is a month ahead. *)
InTime(e) ==
  LET last == LastOfMonth(ProjectDate(now))
  IN IF e.class = "CRYPTO" THEN e.date <= last
     ELSE \E d \in e.date .. last : IsTradingDay(d) /\ (e.afterClose => d > e.date)
EventVerdictHonest ==
  reviewed # None /\ ~OnlyUtcIsAMonthAhead =>
    (Verdict(Both) => \A e \in Both.events : e.declared = InTime(e))
=============================================================================
