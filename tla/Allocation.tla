----------------------------- MODULE Allocation -----------------------------
(* src/allocation.py: an allocation plan and the dollars of a month that are  *)
(* spoken for. A plan is [type, id, legs, wait, marks, gaps]: its legs are    *)
(* decisions of Guardrails, its wait a decision or None.                      *)
EXTENDS Guardrails, ExecutionStates, Sequences

PlanTypes == {"WAIT", "SINGLE_BUY", "SPLIT_BUY_PLAN"}
LegCounts == [WAIT |-> {0}, SINGLE_BUY |-> {1}, SPLIT_BUY_PLAN |-> 2 .. 5]

LegAmount(leg) == IF "amount" \in leg.garbled THEN 0 ELSE leg.amount
AssetKey(leg) == <<leg.ticker, leg.assetClass>>

(* What the legs ahead of the i-th one take. *)
Preceding(legs, i) == SumOver([j \in 1 .. i - 1 |-> LegAmount(legs[j])], 1 .. i - 1)

(* Mutant: every leg is shown the whole of what remains. *)
UntouchedState(ledger, already) == ledger
CumulativeState(ledger, already) == [ledger EXCEPT !.committed = @ + already]

(* The unchanged single-decision validator, on what the legs ahead leave; and *)
(* the reasons a split leg owes for its dollars, by naming a sibling.         *)
LegViolations(plan, i, budget, ledger, universe, now) ==
  LET leg == plan.legs[i]
  IN UNION {
       When("amount" \in leg.garbled, "MALFORMED_NUMBER"),
       When(plan.type = "SPLIT_BUY_PLAN" /\ ~Stated(leg, "allocation_rationale"),
            "MISSING_ALLOCATION_RATIONALE"),
       When(plan.type = "SPLIT_BUY_PLAN" /\ Stated(leg, "allocation_rationale")
              /\ ~Stated(leg, "sibling_named"),
            "ALLOCATION_RATIONALE_NAMES_NO_SIBLING"),
       Validate(leg, budget, CumulativeState(ledger, Preceding(plan.legs, i)), universe, now)}

CrossLegViolations(plan, ledger) ==
  LET legs == plan.legs
      Shared(Key(_), unset) ==
        \E i, j \in DOMAIN legs : i < j /\ Key(legs[i]) = Key(legs[j]) /\ Key(legs[i]) # unset
      IdOf(leg) == leg.id
      split == plan.type = "SPLIT_BUY_PLAN"
  IN UNION {
       When(Len(legs) \notin LegCounts[plan.type], "INVALID_LEG_COUNT"),
       When(Shared(IdOf, None), "DUPLICATE_LEG_DECISION_ID"),
       When(Shared(AssetKey, <<None, None>>), "DUPLICATE_LEG_ASSET"),
       When(Preceding(legs, Len(legs) + 1) > Remaining(ledger), "PLAN_EXCEEDS_REMAINING_BUDGET"),
       When(split /\ ~Stated(plan, "plan_sprawl"), "MISSING_PLAN_SPRAWL_ASSESSMENT"),
       When(split /\ ~Stated(plan, "split_rationale"), "MISSING_SPLIT_RATIONALE")}

WaitPlanViolations(plan, budget, ledger, universe, now) ==
  When(plan.legs # <<>>, "WAIT_PLAN_WITH_LEGS")
    \cup IF plan.wait = None THEN {"MISSING_WAIT_DECISION"}
         ELSE Validate(plan.wait, budget, ledger, universe, now)

ValidatePlan(plan, budget, ledger, universe, now) ==
  LET own == When("approved" \in plan.marks, "SELF_APPROVAL_ATTEMPTED")
               \cup When(plan.id = None, "MISSING_PLAN_ID")
  IN IF plan.type \notin PlanTypes THEN own \cup {"INVALID_PLAN_TYPE"}
     ELSE IF plan.type = "WAIT"
     THEN own \cup WaitPlanViolations(plan, budget, ledger, universe, now)
     ELSE own \cup CrossLegViolations(plan, ledger)
              \cup UNION {LegViolations(plan, i, budget, ledger, universe, now) :
                            i \in DOMAIN plan.legs}

(* --- the four-way ceiling ------------------------------------------------- *)

CombinedExposure(reconciliation, approvedUnsubmitted, proposed) ==
  reconciliation.filled + reconciliation.pending + approvedUnsubmitted + proposed
PlanWithinAuthorization(reconciliation, budget, approvedUnsubmitted, proposed) ==
  CombinedExposure(reconciliation, approvedUnsubmitted, proposed) <= budget

(* Approvals are id -> [month, usd], states id -> execution state; an         *)
(* approval with no record counts as APPROVED. Orders in flight are the       *)
(* broker's to count, released decisions nobody's.                            *)
SiblingReservations(approvals, states, month, Excluded) ==
  LET held == {id \in DOMAIN approvals \ Excluded :
                 /\ approvals[id].month = month
                 /\ id \in DOMAIN states => states[id] \notin IN_FLIGHT_STATES \cup RELEASED_STATES}
  IN SumOver([id \in held |-> approvals[id].usd], held)
=============================================================================
