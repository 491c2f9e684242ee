------------------------- MODULE BudgetMonthProofs -------------------------
(* Proofs about the month's money: the ledger and what is charged to it, and  *)
(* the purchases, for any ids, amounts, moments and edits of the budget, any  *)
(* number of months, plans, trades by hand and late fills; about what splits   *)
(* can buy, what is said of events, what the capital gate pays for, and what   *)
(* two faults of a purchase make of each other.                               *)
EXTENDS BudgetMonthSafety, CalendarProofs, SumProofs, SequenceTheorems

(* A list of orders that could not be read is not a list of orders. (The set  *)
(* of all such lists is not one TLC can look into, so this is a hypothesis    *)
(* and not an assumption; the runs give None a value of its own.)             *)
NoneIsNoList == \A s \in SUBSET Orders : None # s

(* --- the inductive invariant ------------------------------------------------ *)

(* Every plan in the decision log and every approval names an amount.         *)
Priced(entry) ==
  /\ entry.plan.type \in PlanTypes
  /\ \A i \in DOMAIN entry.plan.legs : entry.plan.legs[i].amount \in Nat
Filed ==
  /\ \E S : plans \in Seq(S) /\ \A entry \in S : Priced(entry)
  /\ \A id \in DOMAIN approvals : approvals[id].usd \in Nat

(* The broker's list is finite, and its orders were recorded or made by hand. *)
Listed == IsFiniteSet(orders) /\ \A o \in orders : o.id \in Ids => o.id \in DOMAIN approvals

(* A ledger that has forgotten no purchase charged so far, is of no earlier   *)
(* month than any of them, and adds up those of its own month.                *)
Accounts(ledger) ==
  /\ \A c \in commits : c.id \in ledger.acted /\ c.month <= ledger.month
  /\ ledger.committed = Charges(commits, ledger.month)

(* The file accounts for every charge, and so does what a script has loaded   *)
(* and will write back, since nothing else writes the file in between.        *)
Charged ==
  /\ IsFiniteSet(commits)
  /\ ~forced =>
       /\ \A c, d \in commits : c.id = d.id => c = d
       /\ disk = None => commits = {}
       /\ disk # None => Accounts(disk)
       /\ holding # None => Accounts(holding.ledger)

MonthInv == TypeOK /\ Filed /\ Listed /\ Charged

(* --- dates ------------------------------------------------------------------ *)

(* Every date has a month, and every moment a date on each clock.             *)
LEMMA MonthsAreNumbers ==
  ASSUME NEW d \in Int
  PROVE  YearMonth(d) \in Int
<1>1. MarchYear(d) \in Int
  BY DEF MarchYear
<1>2. \A y \in Int : Date(y, 3, 1) \in Int
  BY DEF Date
<1>3. MonthOf(d) \in Int
  BY <1>1, <1>2 DEF MonthOf
<1>4. YearOf(d) \in Int
  BY <1>1, <1>3 DEF YearOf
<1>q. QED BY <1>3, <1>4 DEF YearMonth

(* The clock reads a moment, and the project has a month for it.              *)
LEMMA NowIsAMoment ==
  ASSUME clock \in 1 .. Len(Moments)
  PROVE  now \in Nat /\ Month \in Int
<1>1. now \in Nat
  BY MonthConstants, ElementOfSeq DEF now
<1>2. ProjectDate(now) \in Int
  BY <1>1, ClocksBehindUtc DEF ProjectDate
<1>q. QED BY <1>1, <1>2, MonthsAreNumbers DEF Month, ProjectMonth

(* --- the ledger ------------------------------------------------------------- *)

(* A ledger that loads is one, of this month: the file's own, with the budget *)
(* for its authorization, or an empty one that remembers the same decisions.  *)
LEMMA LoadedLedger ==
  ASSUME TypeOK, Loaded # None
  PROVE  /\ disk \in Ledgers /\ disk # None /\ Loaded \in Ledgers
         /\ Loaded.month = Month /\ Loaded.acted = disk.acted
         /\ \/ disk.month = Month /\ Loaded.committed = disk.committed
            \/ disk.month < Month /\ Loaded.committed = 0
<1>1. Month \in Int /\ budget \in Nat /\ ProjectMonth(now) = Month
  BY NowIsAMoment, MonthConstants DEF TypeOK, Month
<1>2. disk # None /\ ParseBudgetState(disk, budget) = disk
  BY DEF Loaded, LoadBudgetState, ParseBudgetState
<1>3. disk \in Ledgers /\ ~(disk.authorized > budget)
  BY <1>2 DEF TypeOK, ParseBudgetState
<1>4. disk.month \in Int /\ disk.authorized \in Nat /\ disk.committed \in Nat
      /\ disk.acted \in SUBSET Ids /\ disk.committed <= disk.authorized
      /\ disk \in [month : Int, authorized : Nat, committed : Nat, acted : SUBSET Ids]
  BY <1>3 DEF Ledgers
<1>5. ~(disk.month > Month)
  BY <1>1, <1>2 DEF Loaded, LoadBudgetState
<1>6. CASE disk.month < Month
  <2>1. Loaded = [month |-> Month, authorized |-> budget, committed |-> 0, acted |-> disk.acted]
    BY <1>1, <1>2, <1>5, <1>6 DEF Loaded, LoadBudgetState, RolledOver, FreshState
  <2>q. QED BY <1>1, <1>2, <1>3, <1>4, <1>6, <2>1 DEF Ledgers
<1>7. CASE ~(disk.month < Month)
  <2>1. Loaded = [disk EXCEPT !.authorized = budget]
    BY <1>1, <1>2, <1>5, <1>7 DEF Loaded, LoadBudgetState
  <2>2. disk.month = Month
    BY <1>1, <1>4, <1>5, <1>7
  <2>3. disk.committed <= budget
    BY <1>1, <1>3, <1>4
  <2>q. QED BY <1>1, <1>2, <1>3, <1>4, <2>1, <2>2, <2>3 DEF Ledgers
<1>q. QED BY <1>6, <1>7

(* What one charge may add up to.                                             *)
LEMMA ChargesAreNumbers ==
  ASSUME NEW C, IsFiniteSet(C), C \subseteq [id : Ids, usd : Nat \ {0}, month : Int]
  PROVE  \A D \in SUBSET C : SumOver([c \in D |-> c.usd], D) \in Int
<1>1. ASSUME NEW D \in SUBSET C PROVE SumOver([c \in D |-> c.usd], D) \in Int
  <2> DEFINE f == [c \in D |-> c.usd]
  <2>1. IsFiniteSet(D) /\ \A c \in D : f[c] \in Int
    BY FS_Subset
  <2> HIDE DEF f
  <2>2. SumOver(f, D) \in Int
    BY <2>1, SumOverInt
  <2>q. QED BY <2>2 DEF f
<1>q. QED BY <1>1

(* Loading forgets nothing and goes on adding up, whether or not the month    *)
(* has turned: none is charged to a month after the file's.                   *)
LEMMA LoadedAccounts ==
  ASSUME TypeOK, IsFiniteSet(commits), disk # None => Accounts(disk), Loaded # None
  PROVE  Accounts(Loaded)
<1>1. /\ disk \in Ledgers /\ disk # None /\ Loaded.month = Month /\ Loaded.acted = disk.acted
      /\ \/ disk.month = Month /\ Loaded.committed = disk.committed
         \/ disk.month < Month /\ Loaded.committed = 0
  BY LoadedLedger
<1>2. Accounts(disk) /\ disk.month \in Int /\ Month \in Int
  BY <1>1, NowIsAMoment DEF Ledgers, TypeOK
<1>3. CASE disk.month = Month /\ Loaded.committed = disk.committed
  BY <1>1, <1>2, <1>3 DEF Accounts
<1>4. CASE disk.month < Month /\ Loaded.committed = 0
  <2>1. \A c \in commits : c.month \in Int /\ c.month <= disk.month
    BY <1>2 DEF Accounts, TypeOK
  <2>2. \A c \in commits : c.month <= Month /\ c.month # Month
    BY <1>2, <1>4, <2>1
  <2>3. {c \in commits : c.month = Month} = {}
    BY <2>2
  <2>4. Charges(commits, Month) = 0
    BY <2>3, SumOverNothing DEF Charges
  <2>q. QED BY <1>1, <1>2, <1>4, <2>2, <2>4 DEF Accounts
<1>q. QED BY <1>1, <1>3, <1>4

(* --- what the actions keep -------------------------------------------------- *)

(* A step that touches none of the files, the orders or the charges.          *)
LEMMA AsideKeepsMonth ==
  ASSUME MonthInv, clock' \in 1 .. Len(Moments), budget' \in Budgets,
         UNCHANGED <<orders, files, holding, history>>
  PROVE  MonthInv'
<1> USE DEF files, history
<1>1. TypeOK'
  BY DEF MonthInv, TypeOK
<1>2. Filed' /\ Listed'
  BY DEF MonthInv, Filed, Listed
<1>3. Charged'
  BY DEF MonthInv, Charged, Accounts
<1>q. QED BY <1>1, <1>2, <1>3 DEF MonthInv

(* A step of the broker's: one order more, or one in another's place.         *)
LEMMA OrdersKeepMonth ==
  ASSUME MonthInv, NEW o \in Orders, o.id \in Ids => o.id \in DOMAIN approvals,
         IsFiniteSet(orders'), orders' \subseteq orders \cup {o},
         UNCHANGED <<clock, budget, files, holding, history>>
  PROVE  MonthInv'
<1> USE DEF files, history
<1>1. TypeOK'
  BY DEF MonthInv, TypeOK
<1>2. Filed' /\ Listed'
  BY DEF MonthInv, Filed, Listed
<1>3. Charged'
  BY DEF MonthInv, Charged, Accounts
<1>q. QED BY <1>1, <1>2, <1>3 DEF MonthInv

(* A trade by hand is an order of its own, and no recorded id is its.         *)
LEMMA TradeKeepsMonth ==
  ASSUME MonthInv, NEW id \in ByHandIds, NEW side \in {"buy", "sell"}, NEW usd \in ByHandUsd,
         TradeByHand(id, side, usd)
  PROVE  MonthInv'
<1>1. now \in Nat /\ usd \in Nat /\ id \notin Ids
  BY NowIsAMoment, MonthConstants DEF MonthInv, TypeOK
<1> DEFINE o == [NewOrder(id, side, "EQUITY", usd) EXCEPT !.state = "filled", !.executed = usd]
<1>2. o = [id |-> id, stamp |-> now, side |-> side, class |-> "EQUITY",
           state |-> "filled", requested |-> usd, executed |-> usd]
  <2> DEFINE
         n == [id |-> id, stamp |-> now, side |-> side, class |-> "EQUITY",
               state |-> "open", requested |-> usd, executed |-> 0]
         m == [n EXCEPT !.state = "filled"]
  <2>1. o = [m EXCEPT !.executed = usd]
    BY DEF NewOrder
  <2>2. m = [id |-> id, stamp |-> now, side |-> side, class |-> "EQUITY",
             state |-> "filled", requested |-> usd, executed |-> 0]
    OBVIOUS
  <2> HIDE DEF o, m
  <2>q. QED BY <2>1, <2>2
<1>3. orders' = orders \cup {o} /\ UNCHANGED <<clock, budget, files, holding, history>>
  BY DEF TradeByHand
<1> HIDE DEF o
<1>4. o \in Orders /\ o.id \notin Ids
  BY <1>1, <1>2 DEF Orders, KnownStates
<1>5. IsFiniteSet(orders')
  BY <1>3, FS_AddElement DEF MonthInv, Listed
<1>q. QED BY <1>3, <1>4, <1>5, OrdersKeepMonth

(* An order that moves stays the order it was, by its id and its request.     *)
LEMMA MoveKeepsMonth ==
  ASSUME MonthInv, NEW o \in orders, OrderMoves(o)
  PROVE  MonthInv'
<1>1. o \in Orders /\ (o.id \in Ids => o.id \in DOMAIN approvals) /\ IsFiniteSet(orders)
  BY DEF MonthInv, TypeOK, Listed
<1>2. PICK p \in {[o EXCEPT !.executed = o.requested \div 2],
                  [o EXCEPT !.executed = o.requested, !.state = "filled"],
                  [o EXCEPT !.state = "dead"]} : orders' = (orders \ {o}) \cup {p}
  BY DEF OrderMoves
<1>3. o \in [id : Ids \cup ByHandIds, stamp : Nat, side : {"buy", "sell"},
             class : {"EQUITY", "ETF", "CRYPTO"}, state : KnownStates,
             requested : Nat, executed : Nat] /\ o.executed <= o.requested
  BY <1>1 DEF Orders
<1>4. o.requested \div 2 \in Nat /\ o.requested \div 2 <= o.requested
  BY <1>3
<1>5. p \in Orders /\ p.id = o.id
  <2>1. CASE p = [o EXCEPT !.executed = o.requested \div 2]
    BY <1>3, <1>4, <2>1 DEF Orders
  <2>2. CASE p = [o EXCEPT !.executed = o.requested, !.state = "filled"]
    <3> DEFINE q == [o EXCEPT !.executed = o.requested]
               R == [id : Ids \cup ByHandIds, stamp : Nat, side : {"buy", "sell"},
                     class : {"EQUITY", "ETF", "CRYPTO"}, state : KnownStates,
                     requested : Nat, executed : Nat]
    <3>1. q \in R /\ q.id = o.id /\ q.executed = o.requested /\ q.requested = o.requested
      BY <1>3
    <3>2. p = [q EXCEPT !.state = "filled"]
      BY <2>2
    <3> HIDE DEF q
    <3>3. p \in R /\ p.id = o.id /\ p.executed = o.requested /\ p.requested = o.requested
      BY <3>1, <3>2 DEF KnownStates
    <3>q. QED BY <3>3 DEF Orders
  <2>3. CASE p = [o EXCEPT !.state = "dead"]
    BY <1>3, <2>3 DEF Orders, KnownStates
  <2>q. QED BY <1>2, <2>1, <2>2, <2>3
<1>6. IsFiniteSet(orders') /\ orders' \subseteq orders \cup {p}
  BY <1>1, <1>2, FS_RemoveElement, FS_AddElement
<1>7. UNCHANGED <<clock, budget, files, holding, history>>
  BY DEF OrderMoves
<1>q. QED BY <1>1, <1>5, <1>6, <1>7, OrdersKeepMonth

(* A leg is for the dollars it was drafted for. *)
LEMMA LegsAreForTheirDollars ==
  ASSUME NEW p, NEW ledger
  PROVE  Leg(p, ledger).amount = p.usd
BY DEF Leg, BuyLeg, Unfiled

(* What an evaluation files names an amount in every leg.                     *)
LEMMA DraftsArePriced ==
  ASSUME NEW ledger, NEW plan \in Drafts(ledger)
  PROVE  plan.type \in PlanTypes /\ \A i \in DOMAIN plan.legs : plan.legs[i].amount \in Nat
<1>1. CASE plan = Plan("WAIT", <<>>, WaitDecision(CHOOSE id \in Ids : TRUE, ledger))
  <2>1. plan.type = "WAIT" /\ plan.legs = <<>>
    BY <1>1 DEF Plan
  <2>q. QED BY <2>1 DEF PlanTypes
<1>2. ASSUME NEW p \in Proposals,
             plan = Plan(IF Len(p) = 1 THEN "SINGLE_BUY" ELSE "SPLIT_BUY_PLAN",
               [i \in DOMAIN p |->
                  LET ahead == SumOver([j \in 1 .. i - 1 |-> p[j].usd], 1 .. i - 1)
                  IN Leg(p[i], CumulativeState(ledger, ahead))], None)
      PROVE  plan.type \in PlanTypes /\ \A i \in DOMAIN plan.legs : plan.legs[i].amount \in Nat
  <2> DEFINE Ahead(i) == SumOver([j \in 1 .. i - 1 |-> p[j].usd], 1 .. i - 1)
             Drafted(i) == Leg(p[i], CumulativeState(ledger, Ahead(i)))
  <2>1. plan.type \in PlanTypes /\ plan.legs = [i \in DOMAIN p |-> Drafted(i)]
    BY <1>2 DEF Plan, PlanTypes
  <2>2. ASSUME NEW i \in DOMAIN p PROVE Drafted(i).amount \in Nat
    <3>1. Drafted(i).amount = p[i].usd
      BY LegsAreForTheirDollars
    <3>2. p[i] \in Proposal
      BY MonthConstants, ElementOfSeq, LenProperties
    <3>3. p[i].usd \in Nat
      BY <3>2 DEF Proposal
    <3>q. QED BY <3>1, <3>3
  <2> HIDE DEF Drafted
  <2>q. QED BY <2>1, <2>2
<1>q. QED BY <1>1, <1>2 DEF Drafts

(* A plan that is logged names amounts, whichever plan it is.                 *)
LEMMA DraftKeepsMonth ==
  ASSUME MonthInv, Draft
  PROVE  MonthInv'
<1> USE DEF history, outside
<1>1. PICK entry : plans' = Append(plans, entry) /\ Priced(entry)
  <2>1. PICK plan \in Drafts(Loaded) :
          plans' = Append(plans, [plan |-> plan, at |-> now, budget |-> budget, ledger |-> Loaded])
    BY DEF Draft
  <2> DEFINE entry == [plan |-> plan, at |-> now, budget |-> budget, ledger |-> Loaded]
  <2>2. entry.plan = plan
    OBVIOUS
  <2>3. Priced(entry)
    BY <2>2, DraftsArePriced DEF Priced
  <2>q. QED BY <2>1, <2>3
<1>2. UNCHANGED <<outside, disk, approvals, stage, holding, history>>
  BY DEF Draft
<1>3. PICK S : plans \in Seq(S) /\ \A e \in S : Priced(e)
  BY DEF MonthInv, Filed
<1> DEFINE T == S \cup {entry}
<1>4. plans' \in Seq(T)
  <2>1. plans \in Seq(T)
    BY <1>3, SeqMonotonic
  <2>q. QED BY <1>1, <2>1, AppendProperties
<1>5. \A e \in T : Priced(e)
  BY <1>1, <1>3
<1>6. \A k \in DOMAIN plans' : plans'[k].plan.type \in PlanTypes
  <2>1. \A k \in DOMAIN plans' : plans'[k] \in T
    BY <1>4, ElementOfSeq, LenProperties
  <2>q. QED BY <1>5, <2>1 DEF Priced
<1>7. Filed'
  <2>1. \A id \in DOMAIN approvals' : approvals'[id].usd \in Nat
    BY <1>2 DEF MonthInv, Filed
  <2> HIDE DEF T
  <2>q. QED BY <1>4, <1>5, <2>1 DEF Filed, Priced
<1>8. TypeOK'
  BY <1>2, <1>6 DEF MonthInv, TypeOK
<1>9. Listed' /\ Charged'
  BY <1>2 DEF MonthInv, Listed, Charged, Accounts
<1>q. QED BY <1>7, <1>8, <1>9 DEF MonthInv

(* The record of a decision, when there is one, is a leg with an amount.      *)
LEMMA FoundIsPriced ==
  ASSUME Filed, NEW id, FindDecision(id) # None
  PROVE  FindDecision(id).amount \in Nat
<1> DEFINE at == CHOOSE at \in Recorded(id) : \A b \in Recorded(id) : at[1] <= b[1]
<1>1. Recorded(id) # {} /\ FindDecision(id) = plans[at[1]].plan.legs[at[2]]
  BY DEF FindDecision
<1>2. PICK S : plans \in Seq(S) /\ \A e \in S : Priced(e)
  BY DEF Filed
<1>3. \A k \in DOMAIN plans : k \in Nat /\ Priced(plans[k])
  BY <1>2, ElementOfSeq, LenProperties
<1>4. \E a \in Recorded(id) : \A b \in Recorded(id) : a[1] <= b[1]
  <2> DEFINE T == {a[1] : a \in Recorded(id)}
  <2>1. T \in SUBSET Nat /\ T # {}
    BY <1>1, <1>3 DEF Recorded
  <2>2. PICK n \in T : \A m \in T : n <= m
    BY <2>1, LeastNumber
  <2>q. QED BY <2>2
<1>5. at \in Recorded(id)
  BY <1>4
<1> HIDE DEF at
<1>6. at[1] \in DOMAIN plans /\ at[2] \in DOMAIN plans[at[1]].plan.legs
  BY <1>5 DEF Recorded
<1>q. QED BY <1>1, <1>3, <1>6 DEF Priced

(* An approval takes its amount from a leg in the log.                        *)
LEMMA ApproveKeepsMonth ==
  ASSUME MonthInv, NEW id \in Ids, Approve(id)
  PROVE  MonthInv'
<1> USE DEF history, outside
<1>1. FindDecision(id).amount \in Nat
  BY FoundIsPriced DEF MonthInv, Approve
<1> DEFINE approval == [month |-> ProjectMonth(now), usd |-> FindDecision(id).amount, at |-> now]
<1>2. /\ approvals' = Put(approvals, id, approval)
      /\ stage' = Put(stage, id, "APPROVED")
      /\ UNCHANGED <<outside, disk, plans, holding, history>>
  BY DEF Approve
<1>3. approval.usd \in Nat
  BY <1>1
<1> HIDE DEF approval
<1>4. /\ DOMAIN approvals' = DOMAIN approvals \cup {id}
      /\ \A k \in DOMAIN approvals' : approvals'[k].usd \in Nat
  BY <1>2, <1>3 DEF Put, MonthInv, Filed
<1>5. stage' \in [DOMAIN approvals' -> ExecutionState]
  BY <1>2, <1>4 DEF Put, MonthInv, TypeOK, ExecutionState
<1>6. holding' \in [ledger : Ledgers, id : DOMAIN stage', usd : Nat \ {0}] \cup {None}
  <2>1. DOMAIN stage \subseteq DOMAIN stage'
    BY <1>2 DEF Put
  <2>2. holding \in [ledger : Ledgers, id : DOMAIN stage, usd : Nat \ {0}] \cup {None}
    BY DEF MonthInv, TypeOK
  <2>q. QED BY <1>2, <2>1, <2>2
<1>7. TypeOK'
  BY <1>2, <1>4, <1>5, <1>6 DEF MonthInv, TypeOK
<1>8. Filed'
  BY <1>2, <1>4 DEF MonthInv, Filed
<1>9. Listed' /\ Charged'
  BY <1>2, <1>4 DEF MonthInv, Listed, Charged, Accounts
<1>q. QED BY <1>7, <1>8, <1>9 DEF MonthInv

(* The order a purchase becomes.                                              *)
LEMMA BuyOrder ==
  ASSUME MonthInv, NEW id \in Ids, Buy(id)
  PROVE  LET o == NewOrder(id, "buy", Specifics[Asset[id].kind].class, approvals[id].usd)
         IN /\ o \in Orders /\ o.id = id /\ o.stamp = now /\ o.side = "buy" /\ o.state = "open"
            /\ o.executed = 0 /\ o.requested = approvals[id].usd
            /\ orders' = orders \cup {o} /\ id \in DOMAIN approvals
<1>1. id \in DOMAIN stage /\ DOMAIN stage = DOMAIN approvals
  BY DEF Buy, StageOf, MonthInv, TypeOK
<1>2. approvals[id].usd \in Nat /\ now \in Nat
  BY <1>1, NowIsAMoment DEF MonthInv, Filed, TypeOK
<1>3. Specifics[Asset[id].kind].class \in {"EQUITY", "ETF", "CRYPTO"}
  BY MonthConstants DEF Specifics
<1> DEFINE c == Specifics[Asset[id].kind].class
           u == approvals[id].usd
           o == NewOrder(id, "buy", c, u)
<1> HIDE DEF c, u
<1>4. o = [id |-> id, stamp |-> now, side |-> "buy", class |-> c, state |-> "open",
           requested |-> u, executed |-> 0]
  BY DEF NewOrder
<1>5. /\ o \in Orders /\ o.id = id /\ o.stamp = now /\ o.side = "buy" /\ o.state = "open"
      /\ o.executed = 0 /\ o.requested = u
  BY <1>2, <1>3, <1>4 DEF Orders, KnownStates, c, u
<1>6. orders' = orders \cup {o}
  BY DEF Buy, c, u
<1> HIDE DEF o
<1>q. QED BY <1>1, <1>5, <1>6 DEF o, c, u

(* An order that is placed has the id of an approval.                         *)
LEMMA BuyKeepsMonth ==
  ASSUME MonthInv, NEW id \in Ids, Buy(id)
  PROVE  MonthInv'
<1> DEFINE o == NewOrder(id, "buy", Specifics[Asset[id].kind].class, approvals[id].usd)
<1>1. o \in Orders /\ o.id = id /\ orders' = orders \cup {o} /\ id \in DOMAIN approvals
  BY BuyOrder
<1> HIDE DEF o
<1>2. UNCHANGED <<clock, budget, disk, plans, approvals, holding, history>>
      /\ stage' = [stage EXCEPT ![id] = "SUBMITTED"]
  BY DEF Buy
<1> USE DEF history
<1>3. stage' \in [DOMAIN approvals -> ExecutionState] /\ DOMAIN stage' = DOMAIN stage
  BY <1>2 DEF MonthInv, TypeOK, ExecutionState
<1>4. orders' \subseteq Orders
  BY <1>1 DEF MonthInv, TypeOK
<1>5. TypeOK'
  BY <1>2, <1>3, <1>4 DEF MonthInv, TypeOK
<1>6. IsFiniteSet(orders')
  BY <1>1, FS_AddElement DEF MonthInv, Listed
<1>7. Filed' /\ Listed'
  BY <1>1, <1>2, <1>6 DEF MonthInv, Filed, Listed
<1>8. Charged'
  BY <1>2 DEF MonthInv, Charged, Accounts
<1>q. QED BY <1>5, <1>7, <1>8 DEF MonthInv

(* What a script loads and holds accounts for the charges, as the file does.  *)
LEMMA SettleKeepsMonth ==
  ASSUME MonthInv, NEW o \in orders, NEW commit \in BOOLEAN, Settle(o, commit)
  PROVE  MonthInv'
<1> USE DEF history, outside
<1>1. UNCHANGED <<clock, budget, orders, disk, plans, approvals, forced, commits>>
  BY DEF Settle
<1>2. o.id \in DOMAIN approvals /\ DOMAIN approvals = DOMAIN stage /\ o.executed \in Nat
  BY DEF Settle, MonthInv, Listed, TypeOK, Orders
<1>3. Outcome(o) \in ExecutionState
  <2>1. o.state \in KnownStates /\ (o.state # "open" \/ o.executed > 0)
    BY DEF Settle, MonthInv, TypeOK, Orders
  <2>q. QED BY <2>1 DEF Outcome, KnownStates, ExecutionState
<1>4. stage' \in [DOMAIN approvals -> ExecutionState] /\ DOMAIN stage' = DOMAIN stage
  <2>1. stage' = [stage EXCEPT ![o.id] = Outcome(o)]
    BY DEF Settle
  <2>q. QED BY <1>3, <2>1 DEF MonthInv, TypeOK
<1>5. \/ holding' = None
      \/ /\ holding' = [ledger |-> Loaded, id |-> o.id, usd |-> o.executed]
         /\ o.executed > 0 /\ Loaded # None
  BY DEF Settle
<1>6. holding' \in [ledger : Ledgers, id : DOMAIN stage', usd : Nat \ {0}] \cup {None}
  <2>1. Loaded # None => Loaded \in Ledgers
    BY LoadedLedger DEF MonthInv
  <2>q. QED BY <1>2, <1>4, <1>5, <2>1
<1>7. TypeOK'
  BY <1>1, <1>4, <1>6 DEF MonthInv, TypeOK
<1>8. Filed' /\ Listed'
  BY <1>1 DEF MonthInv, Filed, Listed
<1>9. ~forced /\ Loaded # None => Accounts(Loaded)
  BY LoadedAccounts DEF MonthInv, Charged
<1>10. holding' # None => Loaded # None /\ holding'.ledger = Loaded
  BY <1>5
<1>11. ~forced /\ holding' # None =>
         /\ \A c \in commits : c.id \in holding'.ledger.acted /\ c.month <= holding'.ledger.month
         /\ holding'.ledger.committed = Charges(commits, holding'.ledger.month)
  BY <1>9, <1>10 DEF Accounts
<1>12. Charged'
  BY <1>1, <1>11 DEF MonthInv, Charged, Accounts
<1>q. QED BY <1>7, <1>8, <1>12 DEF MonthInv

(* One charge more, of a purchase that was not charged.                       *)
LEMMA ChargesAdd ==
  ASSUME NEW C, IsFiniteSet(C), C \subseteq [id : Ids, usd : Nat \ {0}, month : Int],
         NEW c, c \in [id : Ids, usd : Nat \ {0}, month : Int], c \notin C
  PROVE  Charges(C \cup {c}, c.month) = Charges(C, c.month) + c.usd
<1> DEFINE D == {x \in C : x.month = c.month}
           E == {x \in C \cup {c} : x.month = c.month}
           f == [x \in E |-> x.usd]
           g == [x \in D |-> x.usd]
<1>1. E = D \cup {c} /\ c \notin D
  OBVIOUS
<1>2. IsFiniteSet(D)
  BY FS_Subset
<1>3. (\A x \in D : f[x] = g[x] /\ g[x] \in Int /\ f[x] \in Int)
      /\ f[c] = c.usd /\ f[c] \in Int
  <2>1. \A x \in E : f[x] = x.usd /\ x.usd \in Int
    OBVIOUS
  <2>2. \A x \in D : g[x] = x.usd
    OBVIOUS
  <2> HIDE DEF f, g, D, E
  <2>q. QED BY <1>1, <2>1, <2>2
<1>4. Charges(C \cup {c}, c.month) = SumOver(f, E) /\ Charges(C, c.month) = SumOver(g, D)
  BY DEF Charges
<1> HIDE DEF D, E, f, g
<1>5. SumOver(f, D \cup {c}) = f[c] + SumOver(f, D)
  BY <1>1, <1>2, <1>3, SumOverAdd
<1>6. SumOver(f, D) = SumOver(g, D)
  BY <1>2, <1>3, SumOverSame
<1>7. D \in SUBSET D /\ \A x \in D : g[x] \in Int
  BY <1>3
<1>8. SumOver(g, D) \in Int
  BY <1>2, <1>7, SumOverInt
<1>q. QED BY <1>1, <1>3, <1>4, <1>5, <1>6, <1>8

(* The one step that charges: what the loaded ledger remembers is not charged *)
(* again, and what it adds up to grows by the purchase.                       *)
LEMMA FinishKeepsMonth ==
  ASSUME MonthInv, FinishCommit
  PROVE  MonthInv'
<1> USE DEF history, outside
<1>1. /\ UNCHANGED <<clock, budget, orders, plans, approvals, stage, forced>>
      /\ holding # None /\ holding' = None
  BY DEF FinishCommit
<1>2. Filed' /\ Listed'
  BY <1>1 DEF MonthInv, Filed, Listed
<1>3. CASE ~MayCommit(holding.ledger, holding.id, holding.usd)
  <2>1. UNCHANGED <<disk, commits>>
    BY <1>3 DEF FinishCommit
  <2>2. TypeOK' /\ Charged'
    BY <1>1, <2>1 DEF MonthInv, TypeOK, Charged, Accounts
  <2>q. QED BY <1>2, <2>2 DEF MonthInv
<1>4. CASE MayCommit(holding.ledger, holding.id, holding.usd)
  <2>1. PICK l, i, u : l = holding.ledger /\ i = holding.id /\ u = holding.usd
    OBVIOUS
  <2>2. l \in Ledgers /\ i \in DOMAIN stage /\ i \in Ids /\ u \in Nat \ {0}
    BY <1>1, <2>1 DEF MonthInv, TypeOK
  <2>3. i \notin l.acted /\ l.committed + u <= l.authorized
    BY <1>4, <2>1 DEF MayCommit
  <2> DEFINE c == [id |-> i, usd |-> u, month |-> l.month]
  <2>4. disk' = CommitPurchase(l, i, u) /\ commits' = commits \cup {c}
    BY <1>4, <2>1 DEF FinishCommit
  <2>5. l.month \in Int /\ l.authorized \in Nat /\ l.committed \in Nat /\ l.acted \in SUBSET Ids
    BY <2>2 DEF Ledgers
  <2> DEFINE k == l.committed + u
             a == l.acted \cup {i}
  <2>6. disk' = [month |-> l.month, authorized |-> l.authorized, committed |-> k, acted |-> a]
    BY <2>4 DEF CommitPurchase
  <2>7. k \in Nat /\ k <= l.authorized /\ a \in SUBSET Ids
    BY <2>2, <2>3, <2>5
  <2>8. c \in [id : Ids, usd : Nat \ {0}, month : Int]
        /\ c.id = i /\ c.usd = u /\ c.month = l.month
    BY <2>2, <2>5
  <2>9. a = l.acted \cup {i} /\ k = l.committed + u
    OBVIOUS
  <2> HIDE DEF c, k, a
  <2>10. /\ disk' \in Ledgers /\ disk'.month = l.month /\ disk'.committed = k /\ disk'.acted = a
    BY <2>5, <2>6, <2>7 DEF Ledgers
  <2>11. TypeOK'
    BY <1>1, <2>4, <2>8, <2>10 DEF MonthInv, TypeOK
  <2>12. IsFiniteSet(commits')
    BY <2>4, FS_AddElement DEF MonthInv, Charged
  <2>13. ASSUME ~forced PROVE /\ Accounts(disk)' /\ \A x, y \in commits' : x.id = y.id => x = y
    <3>1. /\ Accounts(l) /\ IsFiniteSet(commits)
          /\ \A x, y \in commits : x.id = y.id => x = y
      BY <1>1, <2>1, <2>13 DEF MonthInv, Charged
    <3>2. \A x \in commits : x.id # c.id /\ x.id \in l.acted /\ x.month <= l.month
      BY <2>3, <2>8, <3>1 DEF Accounts
    <3>3. \A x, y \in commits' : x.id = y.id => x = y
      BY <2>4, <3>1, <3>2
    <3>4. \A x \in commits' : x.id \in a /\ x.month <= l.month
      BY <2>4, <2>5, <2>8, <2>9, <3>2
    <3>5. Charges(commits', l.month) = Charges(commits, l.month) + u
      <4>1. commits \subseteq [id : Ids, usd : Nat \ {0}, month : Int] /\ c \notin commits
        BY <3>2 DEF MonthInv, TypeOK
      <4>2. Charges(commits \cup {c}, c.month) = Charges(commits, c.month) + c.usd
        BY <2>8, <3>1, <4>1, ChargesAdd
      <4>q. QED BY <2>4, <2>8, <4>2
    <3>6. disk'.committed = Charges(commits', disk'.month)
      BY <2>9, <2>10, <3>1, <3>5 DEF Accounts
    <3>q. QED BY <2>10, <3>3, <3>4, <3>6 DEF Accounts
  <2>14. disk' # None
    BY <2>10, NoneIsNoLedger
  <2>15. Charged'
    BY <1>1, <2>12, <2>13, <2>14 DEF Charged
  <2>q. QED BY <1>2, <2>11, <2>15 DEF MonthInv
<1>q. QED BY <1>3, <1>4

(* A ledger begun where there was none forgets nothing: none was charged.     *)
LEMMA LedgerBegunKeepsMonth ==
  ASSUME MonthInv, NEW force \in BOOLEAN, InitLedger(force)
  PROVE  MonthInv'
<1> USE DEF history, outside
<1>1. /\ UNCHANGED <<clock, budget, orders, plans, approvals, stage, holding, commits>>
      /\ holding = None /\ forced' = (forced \/ force) /\ (disk = None \/ force)
  BY DEF InitLedger, Idle, MayInit
<1>2. Month \in Int /\ budget \in Nat
  BY NowIsAMoment, MonthConstants DEF MonthInv, TypeOK
<1>3. disk' = [month |-> Month, authorized |-> budget, committed |-> 0, acted |-> {}]
  BY DEF InitLedger, FreshState, Month
<1>4. disk' \in Ledgers /\ disk' # None /\ disk'.committed = 0
  BY <1>2, <1>3, NoneIsNoLedger DEF Ledgers
<1>5. TypeOK' /\ Filed' /\ Listed'
  BY <1>1, <1>4 DEF MonthInv, TypeOK, Filed, Listed
<1>6. ~forced' => ~forced /\ commits' = {}
  BY <1>1 DEF MonthInv, Charged
<1>7. \A m : Charges({}, m) = 0
  <2>1. \A m : {c \in {} : c.month = m} = {}
    OBVIOUS
  <2>q. QED BY <2>1, SumOverNothing DEF Charges
<1>8. IsFiniteSet(commits')
  BY <1>1 DEF MonthInv, Charged
<1>9. Charged'
  BY <1>1, <1>4, <1>6, <1>7, <1>8 DEF Charged, Accounts
<1>q. QED BY <1>5, <1>9 DEF MonthInv

(* --- what holds of a month -------------------------------------------------- *)

(* To begin with there is no ledger, and nothing was charged.                 *)
LEMMA MonthBegins == Init => MonthInv
<1> SUFFICES ASSUME Init PROVE MonthInv
  OBVIOUS
<1>1. 1 \in 1 .. Len(Moments)
  <2>1. Len(Moments) \in Nat /\ Len(Moments) # 0
    BY MonthConstants, LenProperties, EmptySeq
  <2>q. QED BY <2>1
<1>2. TypeOK
  BY <1>1, MonthConstants DEF Init, TypeOK
<1>3. Filed
  <2>1. plans \in Seq({})
    BY EmptySeq DEF Init
  <2>q. QED BY <2>1 DEF Init, Filed
<1>4. Listed /\ Charged
  BY FS_EmptySet DEF Init, Listed, Charged
<1>q. QED BY <1>2, <1>3, <1>4 DEF MonthInv

(* Every step keeps the invariant.                                            *)
LEMMA MonthStep == MonthInv /\ [Next]_vars => MonthInv'
<1> SUFFICES ASSUME MonthInv, [Next]_vars PROVE MonthInv'
  OBVIOUS
<1>1. clock \in 1 .. Len(Moments) /\ budget \in Budgets /\ Len(Moments) \in Nat
  BY MonthConstants, LenProperties DEF MonthInv, TypeOK
<1>2. CASE UNCHANGED vars
  BY <1>1, <1>2, AsideKeepsMonth DEF vars, outside
<1>3. CASE Tick
  <2>1. clock' \in 1 .. Len(Moments)
    BY <1>1, <1>3 DEF Tick
  <2>q. QED BY <1>1, <1>3, <2>1, AsideKeepsMonth DEF Tick
<1>4. CASE \E usd \in Budgets : EditBudget(usd)
  BY <1>1, <1>4, AsideKeepsMonth DEF EditBudget
<1>5. CASE Review \/ Dismiss
  BY <1>1, <1>5, AsideKeepsMonth DEF Review, Dismiss, outside
<1>6. CASE \/ \E id \in ByHandIds, side \in {"buy", "sell"}, usd \in ByHandUsd :
                TradeByHand(id, side, usd)
           \/ \E o \in orders : OrderMoves(o)
  BY <1>6, TradeKeepsMonth, MoveKeepsMonth
<1>7. CASE Draft \/ \E id \in Ids : Approve(id) \/ Buy(id)
  BY <1>7, DraftKeepsMonth, ApproveKeepsMonth, BuyKeepsMonth
<1>8. CASE \E o \in orders, commit \in BOOLEAN : Settle(o, commit)
  BY <1>8, SettleKeepsMonth
<1>9. CASE FinishCommit \/ \E force \in BOOLEAN : InitLedger(force)
  BY <1>9, FinishKeepsMonth, LedgerBegunKeepsMonth
<1>q. QED BY <1>2, <1>3, <1>4, <1>5, <1>6, <1>7, <1>8, <1>9 DEF Next

(* The files are what the program writes, whoever edits and trades meanwhile  *)
(* (state.py's parsing and saving, approve_decision.py's two saves).          *)
THEOREM MonthTypes == Spec => []TypeOK
<1>1. MonthInv => TypeOK
  BY DEF MonthInv
<1>q. QED BY MonthBegins, MonthStep, <1>1, PTL DEF Spec

(* No decision is ever charged to the ledger twice, over any number of        *)
(* months, late fills and edits of the budget, with the clock moving between  *)
(* a load and its save, unless the ledger was forced back to nothing          *)
(* (state.py, reconcile_submission.py, check_status.py --init).               *)
THEOREM ChargedOnce == Spec => []NeverReplayed
<1>1. MonthInv => NeverReplayed
  BY DEF MonthInv, Charged, NeverReplayed
<1>q. QED BY MonthBegins, MonthStep, <1>1, PTL DEF Spec

(* Whatever lay on disk when the month turned, a ledger that loads says of    *)
(* this month exactly what was charged to it: the dollars of last month's     *)
(* late fills are last month's (load_budget_state, commit_purchase).          *)
THEOREM LedgerCounts == Spec => []LedgerCountsItsMonth
<1>1. MonthInv => LedgerCountsItsMonth
  <2> SUFFICES ASSUME MonthInv, ~forced, Loaded # None
               PROVE  Loaded.committed = Charges(commits, Month)
    BY DEF LedgerCountsItsMonth
  <2>1. Accounts(Loaded)
    BY LoadedAccounts DEF MonthInv, Charged
  <2>2. Loaded.month = Month
    BY LoadedLedger DEF MonthInv
  <2>q. QED BY <2>1, <2>2 DEF Accounts
<1>q. QED BY MonthBegins, MonthStep, <1>1, PTL DEF Spec

(* --- what a purchase leaves ------------------------------------------------- *)

(* What UTC dates in this month may cost no more than reconciliation counts.  *)
LEMMA StampedIsCounted ==
  ASSUME MonthInv
  PROVE  LET buys == {o \in {p \in orders : OrderMonth(p) = Month} : o.side \in {"buy", None}}
         IN /\ MayCost(StampedThisMonth) <= UsdOf(buys) /\ UsdOf(buys) \in Int
            /\ MayCost(StampedThisMonth) \in Int
<1> DEFINE buys == {o \in {p \in orders : OrderMonth(p) = Month} : o.side \in {"buy", None}}
           stamped == StampedThisMonth
           f == [o \in buys |-> CommittedUsd(o)]
           g == [o \in stamped |-> Claim(o)]
<1>1. IsFiniteSet(buys) /\ IsFiniteSet(stamped) /\ stamped \subseteq buys
  BY FS_Subset DEF MonthInv, Listed, StampedThisMonth
<1>2. ASSUME NEW o \in orders
      PROVE  CommittedUsd(o) \in Nat /\ Claim(o) \in Nat /\ Claim(o) <= CommittedUsd(o)
  <2>1. o.requested \in Nat /\ o.executed \in Nat /\ o.executed <= o.requested
    BY DEF MonthInv, TypeOK, Orders
  <2>q. QED BY <2>1 DEF CommittedUsd, Claim
<1>3. /\ \A o \in buys : f[o] \in Nat /\ f[o] \in Int
      /\ \A o \in stamped : g[o] \in Int /\ f[o] \in Int /\ g[o] <= f[o]
  <2>1. \A o \in buys : o \in orders /\ f[o] = CommittedUsd(o)
    OBVIOUS
  <2>2. \A o \in stamped : o \in orders /\ g[o] = Claim(o)
    BY DEF StampedThisMonth
  <2> HIDE DEF f, g, buys, stamped
  <2>q. QED BY <1>1, <1>2, <2>1, <2>2
<1>4. UsdOf(buys) = SumOver(f, buys) /\ MayCost(stamped) = SumOver(g, stamped)
  BY DEF UsdOf, MayCost
<1> HIDE DEF f, g, buys, stamped
<1>5. SumOver(g, stamped) <= SumOver(f, stamped)
  BY <1>1, <1>3, SumOverAtMost
<1>6. SumOver(f, stamped) <= SumOver(f, buys)
  BY <1>1, <1>3, SumOverMore
<1>7. SumOver(f, stamped) \in Int /\ SumOver(f, buys) \in Int
  BY <1>1, <1>3, SumOverInt
<1>8. SumOver(g, stamped) \in Int
  <2>1. stamped \in SUBSET stamped /\ \A o \in stamped : g[o] \in Int
    BY <1>3
  <2>q. QED BY <1>1, <2>1, SumOverInt
<1>9. MayCost(stamped) <= UsdOf(buys) /\ UsdOf(buys) \in Int /\ MayCost(stamped) \in Int
  BY <1>4, <1>5, <1>6, <1>7, <1>8
<1>q. QED BY <1>9 DEF buys, stamped

(* What preflight still allows, on top of that or of what the ledger has, is  *)
(* what is left of the budget.                                                *)
LEMMA RoomIsLeft ==
  ASSUME NoneIsNoList, MonthInv, Loaded # None, Reconciled # None, ~Reconciled.blocking
  PROVE  /\ MayCost(StampedThisMonth) \in Int /\ Loaded.committed \in Int
         /\ MaxAdditional(Reconciled) \in Int
         /\ MayCost(StampedThisMonth) + MaxAdditional(Reconciled) <= budget
         /\ Loaded.committed + MaxAdditional(Reconciled) <= budget
<1> DEFINE equity == {o \in orders : o.class # "CRYPTO"}
           crypto == {o \in orders : o.class = "CRYPTO"}
           buys == {o \in {p \in orders : OrderMonth(p) = Month} : o.side \in {"buy", None}}
           broker == UsdOf(buys)
           reconciled == IF broker > Loaded.committed THEN broker ELSE Loaded.committed
           cost == MayCost(StampedThisMonth)
<1>1. None # crypto /\ equity \cup crypto = orders
  <2>1. crypto \in SUBSET Orders
    BY DEF MonthInv, TypeOK
  <2>q. QED BY <2>1 DEF NoneIsNoList
<1>2. Loaded.month = Month /\ Loaded.committed \in Nat /\ Month = ProjectMonth(now)
  BY LoadedLedger DEF MonthInv, Ledgers, Month
<1>3. cost <= broker /\ broker \in Int /\ cost \in Int
  BY StampedIsCounted
<1>4. budget \in Int
  BY MonthConstants DEF MonthInv, TypeOK
<1>5. /\ Reconciled.remaining = AtLeastZero(budget - reconciled)
      /\ ~(reconciled > budget)
  <2>1. Reconciled = Reconcile(budget, Loaded, equity, crypto, now)
    BY DEF Reconciled
  <2> HIDE DEF equity, crypto
  <2>q. QED BY <1>1, <1>2, <2>1 DEF Reconcile
<1>6. MaxAdditional(Reconciled) = Reconciled.remaining
  BY DEF MaxAdditional
<1> HIDE DEF broker, cost
<1>7. reconciled \in Int /\ cost <= reconciled /\ Loaded.committed <= reconciled
  BY <1>2, <1>3
<1> HIDE DEF reconciled
<1>8. AtLeastZero(budget - reconciled) = budget - reconciled
  BY <1>4, <1>5, <1>7 DEF AtLeastZero
<1>9. MaxAdditional(Reconciled) = budget - reconciled
  BY <1>5, <1>6, <1>8
<1>10. /\ cost + MaxAdditional(Reconciled) <= budget
       /\ Loaded.committed + MaxAdditional(Reconciled) <= budget
       /\ MaxAdditional(Reconciled) \in Int
  BY ONLY <1>2, <1>3, <1>4, <1>7, <1>9
<1>q. QED BY <1>2, <1>3, <1>10 DEF cost

(* What one order may cost.                                                   *)
LEMMA CostOfOne ==
  ASSUME NEW o, Claim(o) \in Int
  PROVE  MayCost({o}) = Claim(o)
<1> DEFINE f == [x \in {o} |-> Claim(x)]
<1>1. f[o] = Claim(o) /\ f[o] \in Int /\ {} \cup {o} = {o}
  OBVIOUS
<1> HIDE DEF f
<1>2. SumOver(f, {} \cup {o}) = f[o] + SumOver(f, {})
  BY <1>1, FS_EmptySet, SumOverAdd
<1>3. SumOver(f, {o}) = Claim(o)
  BY <1>1, <1>2, SumOverNothing
<1>q. QED BY <1>3 DEF f, MayCost

(* A purchase may cost what was approved.                                     *)
LEMMA PurchaseCosts ==
  ASSUME MonthInv, NEW id \in Ids, Buy(id)
  PROVE  /\ MayCost(orders' \ orders) \in Int /\ approvals[id].usd \in Int
         /\ MayCost(orders' \ orders) <= approvals[id].usd
<1> DEFINE o == NewOrder(id, "buy", Specifics[Asset[id].kind].class, approvals[id].usd)
           usd == approvals[id].usd
<1>1. o.state = "open" /\ o.requested = usd /\ orders' = orders \cup {o} /\ id \in DOMAIN approvals
  BY BuyOrder
<1>2. usd \in Nat
  BY <1>1 DEF MonthInv, Filed
<1> HIDE DEF o, usd
<1>3. Claim(o) = usd
  BY <1>1 DEF Claim
<1>4. CASE o \in orders
  <2>1. orders' \ orders = {}
    BY <1>1, <1>4
  <2>2. MayCost(orders' \ orders) = 0
    BY <2>1, SumOverNothing DEF MayCost
  <2>q. QED BY <1>2, <2>2 DEF usd
<1>5. CASE o \notin orders
  <2>1. orders' \ orders = {o}
    BY <1>1, <1>5
  <2>2. MayCost(orders' \ orders) = usd
    BY <1>2, <1>3, <2>1, CostOfOne
  <2>q. QED BY <1>2, <2>2 DEF usd
<1>q. QED BY <1>4, <1>5

(* Only a purchase takes a record from approved to submitted.                 *)
LEMMA OnlyBuyingBuys ==
  ASSUME MonthInv, [Next]_vars, NEW id \in Ids, Bought(id)
  PROVE  Buy(id)
<1>1. StageOf(id) = "APPROVED" /\ StageOf(id)' = "SUBMITTED" /\ id \in DOMAIN stage
      /\ stage[id] = "APPROVED" /\ stage' # stage
  BY DEF Bought, StageOf
<1>2. CASE \E i \in Ids : Buy(i)
  <2>1. PICK i \in Ids : Buy(i)
    BY <1>2
  <2>2. stage' = [stage EXCEPT ![i] = "SUBMITTED"]
    BY <2>1 DEF Buy
  <2>3. i = id
    BY <1>1, <2>2 DEF StageOf
  <2>q. QED BY <2>1, <2>3
<1>3. CASE \E i \in Ids : Approve(i)
  <2>1. PICK i \in Ids : stage' = Put(stage, i, "APPROVED")
    BY <1>3 DEF Approve
  <2>2. id \in DOMAIN stage' /\ stage'[id] = "APPROVED"
    BY <1>1, <2>1 DEF Put
  <2>q. QED BY <1>1, <2>2 DEF StageOf
<1>4. CASE \E o \in orders, commit \in BOOLEAN : Settle(o, commit)
  <2>1. PICK o \in orders : /\ stage' = [stage EXCEPT ![o.id] = Outcome(o)]
                            /\ o.state # "open" \/ o.executed > 0
    BY <1>4 DEF Settle
  <2>2. o.state \in KnownStates
    BY DEF MonthInv, TypeOK, Orders
  <2>3. Outcome(o) # "SUBMITTED"
    BY <2>1, <2>2 DEF Outcome, KnownStates
  <2>q. QED BY <1>1, <2>1, <2>3 DEF StageOf
<1>5. CASE UNCHANGED stage
  BY <1>1, <1>5
<1>6. UNCHANGED stage \/ (\E i \in Ids : Buy(i) \/ Approve(i))
      \/ \E o \in orders, commit \in BOOLEAN : Settle(o, commit)
  BY DEF Next, vars, files, Tick, EditBudget, TradeByHand, OrderMoves, Draft, Review,
         Dismiss, FinishCommit, InitLedger
<1>q. QED BY <1>2, <1>3, <1>4, <1>5, <1>6

(* A purchase that is prepared leaves both within the budget.                 *)
LEMMA BuyWithinBudget ==
  ASSUME NoneIsNoList, MonthInv, NEW id \in Ids, Buy(id)
  PROVE  LET bought == MayCost(orders' \ orders)
         IN /\ MayCost(StampedThisMonth) + bought <= budget
            /\ ~forced => Charges(commits, Month) + bought <= budget
<1> DEFINE bought == MayCost(orders' \ orders)
           usd == approvals[id].usd
           cost == MayCost(StampedThisMonth)
           room == MaxAdditional(Reconciled)
<1>1. Loaded # None /\ Reconciled # None /\ ~Reconciled.blocking /\ usd <= room
  BY DEF Buy
<1>2. bought \in Int /\ usd \in Int /\ bought <= usd
  BY PurchaseCosts
<1>3. /\ cost \in Int /\ Loaded.committed \in Int /\ room \in Int
      /\ cost + room <= budget /\ Loaded.committed + room <= budget
  BY <1>1, RoomIsLeft
<1>4. budget \in Int
  BY MonthConstants DEF MonthInv, TypeOK
<1>5. ~forced => Charges(commits, Month) = Loaded.committed
  <2>1. ~forced => Accounts(Loaded)
    BY <1>1, LoadedAccounts DEF MonthInv, Charged
  <2>2. Loaded.month = Month
    BY <1>1, LoadedLedger DEF MonthInv
  <2>q. QED BY <2>1, <2>2 DEF Accounts
<1> HIDE DEF bought, usd, cost, room
<1>6. cost + bought <= budget /\ Loaded.committed + bought <= budget
  BY ONLY <1>1, <1>2, <1>3, <1>4
<1>q. QED BY <1>5, <1>6 DEF bought, cost

(* A purchase leaves within the budget of that moment what it costs with the  *)
(* orders UTC dates in the project's month, whoever placed them and whatever  *)
(* became of them; and what it costs with the ledger's charges of the month,  *)
(* unless the ledger was forced back to nothing. Each purchase is on the      *)
(* broker's list before the next is prepared. Orders of the month's last      *)
(* evening are not among the first, so this does not bound what the project's *)
(* month costs (preflight with reconcile, which dates orders by their UTC     *)
(* month; MonthStaysInBudget is what it does not give).                       *)
THEOREM PurchasesStayInBudget ==
  ASSUME NoneIsNoList
  PROVE  Spec => BuysStayInBudget
<1> DEFINE Within == \A id \in Ids : Bought(id) =>
       LET bought == MayCost(orders' \ orders)
       IN /\ MayCost(StampedThisMonth) + bought <= budget
          /\ ~forced => Charges(commits, Month) + bought <= budget
<1>1. MonthInv /\ [Next]_vars => [Within]_vars
  <2> SUFFICES ASSUME MonthInv, [Next]_vars, NEW id \in Ids, Bought(id)
               PROVE  LET bought == MayCost(orders' \ orders)
                      IN /\ MayCost(StampedThisMonth) + bought <= budget
                         /\ ~forced => Charges(commits, Month) + bought <= budget
    OBVIOUS
  <2>1. Buy(id)
    BY OnlyBuyingBuys
  <2>q. QED BY <2>1, BuyWithinBudget
<1>2. BuysStayInBudget <=> [][Within]_vars
  BY DEF BuysStayInBudget
<1> HIDE DEF Within
<1>q. QED BY MonthBegins, MonthStep, <1>1, <1>2, PTL DEF Spec

(* --- a plan and the rest of its day ------------------------------------------ *)

(* A later moment of the same day.                                            *)
Later(t, u) == t \in Nat /\ u \in Nat /\ t <= u /\ SameDay(t, u)

(* What is counted from the project's date and from the exchange's stays, the *)
(* day of UTC's month only grows, and the month's last opportunity stays.     *)
LEMMA SameCounts ==
  ASSUME NEW t, NEW u, Later(t, u)
  PROVE  /\ DaysRemainingInMonth(u) = DaysRemainingInMonth(t)
         /\ TradableSessionsRemaining(u) = TradableSessionsRemaining(t)
         /\ DayOf(UtcDate(t)) <= DayOf(UtcDate(u))
         /\ DayOf(UtcDate(t)) \in Int /\ DayOf(UtcDate(u)) \in Int
         /\ \A c : FinalOpportunity(UtcDate(u), c) = FinalOpportunity(UtcDate(t), c)
<1>1. /\ ProjectDate(t) = ProjectDate(u) /\ ExchangeDate(t) = ExchangeDate(u)
      /\ YearMonth(UtcDate(t)) = YearMonth(UtcDate(u)) /\ t \in Nat /\ u \in Nat /\ t <= u
  BY DEF Later, SameDay
<1>2. DaysRemainingInMonth(u) = DaysRemainingInMonth(t)
  BY <1>1 DEF DaysRemainingInMonth
<1>3. TradableSessionsRemaining(u) = TradableSessionsRemaining(t)
  BY <1>1 DEF TradableSessionsRemaining
<1>4. UtcDate(t) \in Int /\ UtcDate(u) \in Int /\ UtcDate(t) <= UtcDate(u)
  BY <1>1 DEF UtcDate
<1>5. FirstOfMonth(UtcDate(t)) = FirstOfMonth(UtcDate(u))
      /\ LastOfMonth(UtcDate(t)) = LastOfMonth(UtcDate(u))
  BY <1>1, <1>4, SameMonth
<1>6. FirstOfMonth(UtcDate(t)) \in Int
  <2>1. MonthOf(UtcDate(t)) \in Int
    BY <1>4, MonthsAreTwelve
  <2>2. MarchYear(UtcDate(t)) \in Int
    BY <1>4 DEF MarchYear
  <2>3. YearOf(UtcDate(t)) \in Int
    BY <2>1, <2>2 DEF YearOf
  <2>4. \A y, m \in Int : Date(y, m, 1) \in Int
    BY DEF Date
  <2>q. QED BY <2>1, <2>3, <2>4 DEF FirstOfMonth
<1>7. /\ DayOf(UtcDate(t)) <= DayOf(UtcDate(u))
      /\ DayOf(UtcDate(t)) \in Int /\ DayOf(UtcDate(u)) \in Int
  BY <1>4, <1>5, <1>6 DEF DayOf
<1>8. LastTradingDayOfMonth(UtcDate(u)) = LastTradingDayOfMonth(UtcDate(t))
  BY <1>5 DEF LastTradingDayOfMonth
<1>9. \A c : FinalOpportunity(UtcDate(u), c) = FinalOpportunity(UtcDate(t), c)
  BY <1>5, <1>8 DEF FinalOpportunity
<1>q. QED BY <1>2, <1>3, <1>7, <1>9

(* The verdict on the awaited events does not depend on the hour.             *)
LEMMA SameEvents ==
  ASSUME NEW t, NEW u, Later(t, u), NEW d
  PROVE  CheckEvents(d, u) = CheckEvents(d, t)
<1>1. \A e : InReach(e, u) = InReach(e, t)
  BY SameCounts DEF InReach, ActionableThisMonth
<1>2. \A e : EventViolations(e, u) = EventViolations(e, t)
  BY <1>1 DEF EventViolations
<1>q. QED BY <1>1, <1>2 DEF CheckEvents

(* The case for holding on to cash is asked for early in the month: a  *)
(* decision that made it, or did not have to, need not make it later.         *)
LEMMA OptionalityWanes ==
  ASSUME NEW t, NEW u, Later(t, u), NEW d, NEW ledger
  PROVE  CheckOptionality(d, ledger, u) \subseteq CheckOptionality(d, ledger, t)
<1> DEFINE early(m) == DayOf(UtcDate(m)) < MidMonthDay
<1>1. early(u) => early(t)
  BY SameCounts DEF MidMonthDay
<1>2. DaysRemainingInMonth(u) = DaysRemainingInMonth(t)
      /\ TradableSessionsRemaining(u) = TradableSessionsRemaining(t)
  BY SameCounts
<1>q. QED BY <1>1, <1>2 DEF CheckOptionality, When

(* So a purchase's violations can only become fewer ...                       *)
LEMMA CommonWanes ==
  ASSUME NEW t, NEW u, Later(t, u), NEW d, NEW budg, NEW ledger
  PROVE  CheckBuyCommon(d, budg, ledger, u) \subseteq CheckBuyCommon(d, budg, ledger, t)
<1>1. CheckOptionality(d, ledger, u) \subseteq CheckOptionality(d, ledger, t)
  BY OptionalityWanes
<1>q. QED BY <1>1 DEF CheckBuyCommon

(* ... a decision's ...                                                       *)
LEMMA ValidationWanes ==
  ASSUME NEW t, NEW u, Later(t, u), NEW raw, NEW budg, NEW ledger, NEW universe
  PROVE  Validate(raw, budg, ledger, universe, u) \subseteq Validate(raw, budg, ledger, universe, t)
<1> DEFINE d == Normalized(raw)
<1>1. CheckEvents(d, u) = CheckEvents(d, t)
  BY SameEvents
<1>2. CheckBuyCommon(d, budg, ledger, u) \subseteq CheckBuyCommon(d, budg, ledger, t)
  BY CommonWanes
<1>q. QED BY <1>1, <1>2 DEF Validate

(* ... and a plan's.                                                          *)
LEMMA PlanWanes ==
  ASSUME NEW t, NEW u, Later(t, u), NEW plan, NEW budg, NEW ledger, NEW universe
  PROVE  ValidatePlan(plan, budg, ledger, universe, u)
           \subseteq ValidatePlan(plan, budg, ledger, universe, t)
<1>1. \A i : LegViolations(plan, i, budg, ledger, universe, u)
               \subseteq LegViolations(plan, i, budg, ledger, universe, t)
  <2> TAKE i
  <2> DEFINE leg == plan.legs[i]
             seen == CumulativeState(ledger, Preceding(plan.legs, i))
  <2>1. Validate(leg, budg, seen, universe, u) \subseteq Validate(leg, budg, seen, universe, t)
    BY ValidationWanes
  <2> QED BY <2>1 DEF LegViolations
<1>2. WaitPlanViolations(plan, budg, ledger, universe, u)
        \subseteq WaitPlanViolations(plan, budg, ledger, universe, t)
  BY ValidationWanes DEF WaitPlanViolations
<1>q. QED BY <1>1, <1>2 DEF ValidatePlan

(* Every plan was valid when it was logged, which is not in the future.       *)
Sound ==
  \A k \in DOMAIN plans :
    /\ plans[k].at \in Nat /\ plans[k].at <= now
    /\ ValidatePlan(plans[k].plan, plans[k].budget, plans[k].ledger, Universe, plans[k].at) = {}

(* The moments come in order.                                                 *)
LEMMA TimePasses ==
  ASSUME MonthInv, Tick
  PROVE  now \in Nat /\ now' \in Nat /\ now <= now'
<1>1. clock \in 1 .. Len(Moments) /\ Len(Moments) \in Nat /\ clock < Len(Moments)
      /\ clock' = clock + 1
  BY MonthConstants, LenProperties DEF MonthInv, TypeOK, Tick
<1>2. clock \in 1 .. Len(Moments) - 1 /\ clock' \in 1 .. Len(Moments)
  BY <1>1
<1>3. Moments[clock] \in Nat /\ Moments[clock'] \in Nat
  BY <1>1, <1>2, MonthConstants, ElementOfSeq
<1>4. Moments[clock] < Moments[clock + 1]
  BY <1>2, MonthConstants
<1>q. QED BY <1>1, <1>3, <1>4 DEF now

(* A plan that is logged is valid, and none is changed afterwards.            *)
LEMMA SoundStep ==
  ASSUME MonthInv, Sound, [Next]_vars
  PROVE  Sound'
<1>1. CASE Draft
  <2>1. PICK S : plans \in Seq(S)
    BY DEF MonthInv, Filed
  <2>2. PICK plan : /\ ValidatePlan(plan, budget, Loaded, Universe, now) = {}
                    /\ plans' = Append(plans, [plan |-> plan, at |-> now, budget |-> budget,
                                               ledger |-> Loaded])
    BY <1>1 DEF Draft
  <2> DEFINE entry == [plan |-> plan, at |-> now, budget |-> budget, ledger |-> Loaded]
  <2>3. now' = now /\ now \in Nat
    BY <1>1, NowIsAMoment DEF Draft, outside, now, MonthInv, TypeOK
  <2>4. /\ entry.plan = plan /\ entry.at = now /\ entry.budget = budget
        /\ entry.ledger = Loaded /\ plans' = Append(plans, entry)
    BY <2>2
  <2> HIDE DEF entry
  <2>5. ASSUME NEW k \in DOMAIN plans'
        PROVE  (k \in DOMAIN plans /\ plans'[k] = plans[k]) \/ plans'[k] = entry
    <3>1. /\ plans \in Seq(S \cup {entry}) /\ entry \in S \cup {entry}
      BY <2>1
    <3>2. /\ DOMAIN plans = 1 .. Len(plans) /\ Len(plans) \in Nat
          /\ DOMAIN plans' = 1 .. Len(plans) + 1
          /\ \A i \in 1 .. Len(plans) : plans'[i] = plans[i]
          /\ plans'[Len(plans) + 1] = entry
      BY <2>4, <3>1
    <3>q. QED BY <3>2
  <2>6. ASSUME NEW k \in DOMAIN plans'
        PROVE  /\ plans'[k].at \in Nat /\ plans'[k].at <= now'
               /\ ValidatePlan(plans'[k].plan, plans'[k].budget, plans'[k].ledger, Universe,
                               plans'[k].at) = {}
    <3>1. CASE k \in DOMAIN plans /\ plans'[k] = plans[k]
      BY <2>3, <3>1 DEF Sound
    <3>2. CASE plans'[k] = entry
      BY <2>2, <2>3, <2>4, <3>2
    <3>q. QED BY <2>5, <3>1, <3>2
  <2>q. QED BY <2>6 DEF Sound
<1>2. CASE Tick
  <2>1. plans' = plans /\ now \in Nat /\ now' \in Nat /\ now <= now'
    BY <1>2, TimePasses DEF Tick, files
  <2>q. QED BY <2>1 DEF Sound
<1>3. CASE UNCHANGED <<plans, clock>>
  BY <1>3 DEF Sound, now
<1>4. Draft \/ Tick \/ UNCHANGED <<plans, clock>>
  BY DEF Next, vars, files, outside, EditBudget, TradeByHand, OrderMoves, Review, Dismiss,
         Approve, Buy, Settle, FinishCommit, InitLedger
<1>q. QED BY <1>1, <1>2, <1>3, <1>4

(* What was valid when it was logged is valid for the rest of that day.       *)
LEMMA SoundStaysSound ==
  ASSUME MonthInv, Sound
  PROVE  StableWithinTheDay
<1> SUFFICES ASSUME NEW k \in DOMAIN plans, SameDay(plans[k].at, now),
                    Loaded = plans[k].ledger, budget = plans[k].budget
             PROVE  ValidatePlan(plans[k].plan, budget, Loaded, Universe, now) = {}
  BY DEF StableWithinTheDay
<1>1. Later(plans[k].at, now)
  BY NowIsAMoment DEF Later, Sound, MonthInv, TypeOK
<1>2. ValidatePlan(plans[k].plan, budget, Loaded, Universe, plans[k].at) = {}
  BY DEF Sound
<1>3. ValidatePlan(plans[k].plan, budget, Loaded, Universe, now)
        \subseteq ValidatePlan(plans[k].plan, budget, Loaded, Universe, plans[k].at)
  BY <1>1, PlanWanes
<1>q. QED BY <1>2, <1>3

(* A plan does not go bad during the day it was filed: with the ledger and    *)
(* the budget as they were, whatever purchases of whatever amounts it makes   *)
(* and whatever events their legs await, a later hour of the same day in      *)
(* Chicago and New York finds nothing wrong with it. Not claimed of the       *)
(* evening on which UTC moves to another month, when the same events may be   *)
(* judged differently (validate_plan, days_remaining_in_month,                *)
(* tradable_sessions_remaining, final_opportunity).                           *)
THEOREM PlansStaySound == Spec => []StableWithinTheDay
<1>1. Init => Sound
  <2> SUFFICES ASSUME Init PROVE Sound
    OBVIOUS
  <2>1. DOMAIN plans = {}
    BY DEF Init
  <2>q. QED BY <2>1 DEF Sound
<1>2. MonthInv /\ Sound /\ [Next]_vars => Sound'
  BY SoundStep
<1>3. MonthInv /\ Sound => StableWithinTheDay
  BY SoundStaysSound
<1>q. QED BY MonthBegins, MonthStep, <1>1, <1>2, <1>3, PTL DEF Spec

(* --- one leg for many ------------------------------------------------------- *)

(* A decision that differs from another in its dollars alone, and in whether  *)
(* it has the analysis they may call for.                                     *)
Resized(d, e) ==
  /\ DOMAIN d = DOMAIN Unfiled /\ DOMAIN e = DOMAIN Unfiled
  /\ \A f \in DOMAIN Unfiled \ {"amount", "after", "gaps"} : e[f] = d[f]
  /\ \A part : part # "optionality_analysis" => (part \in e.gaps <=> part \in d.gaps)

(* The fields that are the same, by name.                                     *)
LEMMA ResizedFields ==
  ASSUME NEW d, NEW e, Resized(d, e)
  PROVE  /\ e.id = d.id /\ e.decision = d.decision /\ e.action = d.action /\ e.side = d.side
         /\ e.assetClass = d.assetClass /\ e.assetType = d.assetType
         /\ e.position = d.position /\ e.classification = d.classification
         /\ e.ticker = d.ticker /\ e.exchange = d.exchange /\ e.confidence = d.confidence
         /\ e.horizon = d.horizon /\ e.price = d.price /\ e.fractional = d.fractional
         /\ e.before = d.before /\ e.days = d.days /\ e.sessions = d.sessions
         /\ e.average = d.average /\ e.direction = d.direction /\ e.theme = d.theme
         /\ e.subtheme = d.subtheme /\ e.alternative = d.alternative
         /\ e.research = d.research /\ e.sources = d.sources /\ e.events = d.events
         /\ e.bases = d.bases /\ e.marks = d.marks /\ e.garbled = d.garbled
BY DEF Resized, Unfiled

(* So every rule that does not look at the dollars finds the same.            *)
LEMMA ResizedChecks ==
  ASSUME NEW d, NEW e, Resized(d, e), NEW t
  PROVE  /\ IsCrypto(e) = IsCrypto(d)
         /\ CheckSelfApproval(e) = CheckSelfApproval(d)
         /\ CheckProhibited(e) = CheckProhibited(d)
         /\ CheckLessons(e) = CheckLessons(d)
         /\ CheckEvents(e, t) = CheckEvents(d, t)
         /\ CheckAsset(e) = CheckAsset(d)
         /\ CheckTheme(e) = CheckTheme(d)
         /\ CheckCostBasis(e) = CheckCostBasis(d)
         /\ CheckNewPosition(e) = CheckNewPosition(d)
         /\ CheckResearch(e) = CheckResearch(d)
         /\ CheckPrimarySources(e) = CheckPrimarySources(d)
<1> USE ResizedFields
<1>0. \A part : part # "optionality_analysis" => (Stated(e, part) <=> Stated(d, part))
  BY DEF Resized, Stated
<1>1. IsCrypto(e) = IsCrypto(d)
  BY DEF IsCrypto
<1>2. CheckSelfApproval(e) = CheckSelfApproval(d)
  BY DEF CheckSelfApproval
<1>3. CheckProhibited(e) = CheckProhibited(d)
  BY <1>1 DEF CheckProhibited
<1>4. CheckLessons(e) = CheckLessons(d)
  <2>1. Stated(e, "research_package") = Stated(d, "research_package")
    BY <1>0 DEF Stated
  <2>q. QED BY <2>1 DEF CheckLessons
<1>5. CheckEvents(e, t) = CheckEvents(d, t)
  <2>1. Stated(e, "expiry_acknowledged") = Stated(d, "expiry_acknowledged")
    BY <1>0 DEF Stated
  <2>2. e.events = d.events /\ e.decision = d.decision /\ e.bases = d.bases
        /\ e.garbled = d.garbled
    OBVIOUS
  <2>q. QED BY ONLY <2>1, <2>2 DEF CheckEvents
<1>6. CheckAsset(e) = CheckAsset(d)
  BY DEF CheckAsset
<1>7. CheckTheme(e) = CheckTheme(d)
  BY <1>0 DEF CheckTheme
<1>8. CheckCostBasis(e) = CheckCostBasis(d)
  BY <1>0 DEF CheckCostBasis
<1>9. CheckNewPosition(e) = CheckNewPosition(d)
  BY <1>0 DEF CheckNewPosition
<1>10. CheckResearch(e) = CheckResearch(d)
  <2>1. Stated(e, "research_package") = Stated(d, "research_package")
    BY <1>0 DEF Stated
  <2>2. e.assetType = d.assetType /\ e.research = d.research
    OBVIOUS
  <2>q. QED BY ONLY <1>1, <2>1, <2>2 DEF CheckResearch
<1>11. CheckPrimarySources(e) = CheckPrimarySources(d)
  <2>1. ("evidence_list" \in e.gaps) = ("evidence_list" \in d.gaps)
    BY DEF Resized
  <2>q. QED BY <2>1 DEF CheckPrimarySources
<1>q. QED BY <1>1, <1>2, <1>3, <1>4, <1>5, <1>6, <1>7, <1>8, <1>9, <1>10, <1>11

(* What is asked of a purchase: of any decision, of where it is traded, of it *)
(* as a purchase, and of its dollars.                                         *)
OwnRules(x, ledger, t) ==
  UNION {CheckSelfApproval(x), CheckProhibited(x), CheckLessons(x), CheckEvents(x, t),
         When(x.id = None, "MISSING_DECISION_ID"),
         When(x.id \in ledger.acted, "DUPLICATE_DECISION_ID"),
         When(x.confidence \notin {"LOW", "MEDIUM", "HIGH", None}, "INVALID_CONFIDENCE")}
PlaceRules(x) ==
  CASE IsCrypto(x) -> CheckCrypto(x, Universe)
    [] ~IsCrypto(x) /\ (x.assetType \in {"us_common_stock", "us_etf"}
                          \/ x.assetClass \in {"EQUITY", "ETF"}) -> CheckEquity(x)
    [] OTHER -> When(x.ticker = None, "MISSING_TICKER")
PurchaseRules(x) ==
  UNION {
    When(x.side # "buy" \/ x.action \notin {"buy", None}, "NOT_EXPLICIT_BUY"),
    CheckAsset(x),
    When(x.position = None, "MISSING_POSITION_TYPE"),
    When(x.position \notin {"EXISTING_POSITION", "NEW_POSITION", None}, "INVALID_POSITION_TYPE"),
    When(x.horizon = None \/ x.classification = None \/ ~Stated(x, "narrative"),
         "MISSING_REQUIRED_FIELD"),
    IF x.horizon = None THEN {} ELSE When(x.horizon < MinHorizon, "HORIZON_TOO_SHORT"),
    When(x.classification \notin ValidClassifications \cup {None}, "INVALID_CLASSIFICATION"),
    When(x.classification \in ValidClassifications \ BuyableClassifications,
         "CLASSIFICATION_CONTRADICTS_BUY"),
    When(~Stated(x, "sprawl"), "MISSING_SPRAWL_ASSESSMENT"),
    CheckTheme(x),
    IF x.position = "EXISTING_POSITION" THEN CheckCostBasis(x) ELSE {},
    IF x.position = "NEW_POSITION"
    THEN CheckNewPosition(x) \cup CheckResearch(x) \cup CheckPrimarySources(x) ELSE {}}
DollarRules(x, budg, ledger, t) ==
  CheckAmount(x, budg, ledger) \cup CheckReportedBudget(x, ledger) \cup CheckOptionality(x, ledger, t)

(* That is all that is asked of it.                                           *)
LEMMA PurchaseIsJudged ==
  ASSUME NEW raw, Normalized(raw).decision = "BUY", NEW budg, NEW ledger, NEW t
  PROVE  LET x == Normalized(raw)
         IN Valid(raw, budg, ledger, Universe, t) <=>
              /\ ParseViolations(raw) = {} /\ OwnRules(x, ledger, t) = {} /\ PlaceRules(x) = {}
              /\ PurchaseRules(x) = {} /\ DollarRules(x, budg, ledger, t) = {}
<1> DEFINE x == Normalized(raw)
<1>1. CheckBuyCommon(x, budg, ledger, t) = PurchaseRules(x) \cup DollarRules(x, budg, ledger, t)
  BY DEF CheckBuyCommon, PurchaseRules, DollarRules
<1>2. Validate(raw, budg, ledger, Universe, t)
        = ParseViolations(raw) \cup OwnRules(x, ledger, t) \cup PlaceRules(x)
            \cup CheckBuyCommon(x, budg, ledger, t)
  BY DEF Validate, OwnRules, PlaceRules, When
<1> HIDE DEF x
<1>3. (ParseViolations(raw) \cup OwnRules(x, ledger, t) \cup PlaceRules(x)
         \cup CheckBuyCommon(x, budg, ledger, t) = {})
        <=> /\ ParseViolations(raw) = {} /\ OwnRules(x, ledger, t) = {} /\ PlaceRules(x) = {}
            /\ CheckBuyCommon(x, budg, ledger, t) = {}
  OBVIOUS
<1>4. (CheckBuyCommon(x, budg, ledger, t) = {})
        <=> PurchaseRules(x) = {} /\ DollarRules(x, budg, ledger, t) = {}
  BY <1>1
<1>q. QED BY <1>2, <1>3, <1>4 DEF Valid, x

(* A purchase of more dollars, which are there: the new balance follows, and  *)
(* what they call for was written.                                            *)
Enlarged(d, e, budg, ledger, t) ==
  /\ Resized(d, e) /\ budg \in Int /\ ledger \in Ledgers
  /\ d.decision = "BUY" /\ d.garbled = {} /\ d.marks = {} /\ d.price \in Int
  /\ d.amount \in Int /\ e.amount \in Int /\ 0 < d.amount /\ d.amount <= e.amount
  /\ e.amount <= Remaining(ledger) /\ Remaining(ledger) <= budg
  /\ e.after = Remaining(ledger) - e.amount
  /\ Stated(d, "optionality_analysis") => Stated(e, "optionality_analysis")
  /\ (/\ ledger.committed + e.amount > HalfOf(ledger.authorized)
      /\ DayOf(UtcDate(t)) < MidMonthDay)
        => Stated(e, "optionality_analysis")

(* If the smaller one is valid, so is it.                                     *)
LEMMA MoreIsValid ==
  ASSUME NEW d, NEW e, NEW t, NEW budg, NEW ledger, Enlarged(d, e, budg, ledger, t),
         Valid(d, budg, ledger, Universe, t)
  PROVE  Valid(e, budg, ledger, Universe, t)
<1>0. /\ Resized(d, e) /\ budg \in Int /\ ledger \in Ledgers
      /\ d.decision = "BUY" /\ d.garbled = {} /\ d.marks = {} /\ d.price \in Int
      /\ d.amount \in Int /\ e.amount \in Int /\ 0 < d.amount /\ d.amount <= e.amount
      /\ e.amount <= Remaining(ledger) /\ Remaining(ledger) <= budg
      /\ e.after = Remaining(ledger) - e.amount
  BY DEF Enlarged
<1>e. /\ Stated(d, "optionality_analysis") => Stated(e, "optionality_analysis")
      /\ (/\ ledger.committed + e.amount > HalfOf(ledger.authorized)
          /\ DayOf(UtcDate(t)) < MidMonthDay)
            => Stated(e, "optionality_analysis")
  BY DEF Enlarged
<1>1. PICK c, a \in Nat : c = ledger.committed /\ a = ledger.authorized
  BY <1>0 DEF Ledgers
<1>2. Remaining(ledger) = a - c
  BY <1>0, <1>1 DEF Remaining
<1> USE <1>0
<1> DEFINE n == Normalized(d)
           m == Normalized(e)
<1>3. /\ DOMAIN n = DOMAIN Unfiled /\ DOMAIN m = DOMAIN Unfiled
      /\ \A f \in DOMAIN Unfiled : n[f] = d[f] /\ m[f] = e[f]
  <2>1. e.garbled = {} /\ e.marks = {}
    BY ResizedFields
  <2>q. QED BY <2>1 DEF Normalized, Resized
<1>4. /\ n.amount = d.amount /\ n.price = d.price /\ n.garbled = {} /\ n.marks = {}
      /\ n.gaps = d.gaps /\ n.decision = "BUY"
      /\ m.amount = e.amount /\ m.after = e.after /\ m.gaps = e.gaps
  BY <1>3 DEF Unfiled
<1>5. Resized(n, m)
  <2>1. \A f \in DOMAIN Unfiled \ {"amount", "after", "gaps"} : e[f] = d[f]
    BY DEF Resized
  <2>2. \A f \in DOMAIN Unfiled \ {"amount", "after", "gaps"} : m[f] = n[f]
    BY <1>3, <2>1
  <2> HIDE DEF n, m
  <2>q. QED BY <1>3, <1>4, <2>2 DEF Resized
<1>6. ParseViolations(e) = ParseViolations(d)
  BY ResizedFields DEF ParseViolations
<1> HIDE DEF n, m
<1>7. /\ OwnRules(n, ledger, t) = {} /\ PlaceRules(n) = {} /\ PurchaseRules(n) = {}
      /\ DollarRules(n, budg, ledger, t) = {} /\ ParseViolations(d) = {}
  BY <1>4, PurchaseIsJudged DEF n
<1> USE ResizedFields, ResizedChecks
<1>8. OwnRules(m, ledger, t) = OwnRules(n, ledger, t)
  BY <1>5 DEF OwnRules
<1>9. PurchaseRules(m) = PurchaseRules(n)
  <2>1. Stated(m, "narrative") = Stated(n, "narrative") /\ Stated(m, "sprawl") = Stated(n, "sprawl")
    BY <1>5 DEF Resized, Stated
  <2>2. /\ m.side = n.side /\ m.action = n.action /\ m.position = n.position
        /\ m.horizon = n.horizon /\ m.classification = n.classification
        /\ CheckAsset(m) = CheckAsset(n) /\ CheckTheme(m) = CheckTheme(n)
        /\ CheckCostBasis(m) = CheckCostBasis(n) /\ CheckNewPosition(m) = CheckNewPosition(n)
        /\ CheckResearch(m) = CheckResearch(n) /\ CheckPrimarySources(m) = CheckPrimarySources(n)
    BY <1>5
  <2>q. QED BY ONLY <2>1, <2>2 DEF PurchaseRules
<1>10. CheckAmount(m, budg, ledger) = {}
  <2>1. CheckAmount(n, budg, ledger) = {}
    BY <1>7 DEF DollarRules
  <2>2. /\ "sub_cent" \notin n.marks
        /\ n.amount \in 1 .. MinEquityOrder - 1 => IsCrypto(n)
    BY <2>1 DEF CheckAmount, When
  <2>3. "sub_cent" \notin m.marks /\ IsCrypto(m) = IsCrypto(n)
    BY <1>5, <2>2
  <2>4. m.amount \in 1 .. MinEquityOrder - 1 => n.amount \in 1 .. MinEquityOrder - 1
    BY <1>4, GuardrailConstants
  <2>5. m.amount \in Int /\ m.amount > 0 /\ m.amount <= budg /\ m.amount <= Remaining(ledger)
        /\ ledger.committed + m.amount <= ledger.authorized
    BY <1>1, <1>2, <1>4
  <2>6. /\ ~(m.amount = 0) /\ ~(m.amount < 0) /\ ~(m.amount > 0 /\ m.amount > budg)
        /\ ~(m.amount > 0 /\ m.amount > Remaining(ledger))
        /\ ~(m.amount > 0 /\ ledger.committed + m.amount > ledger.authorized)
        /\ ~(m.amount \in 1 .. MinEquityOrder - 1 /\ ~IsCrypto(m))
    BY <1>1, <1>2, <2>2, <2>3, <2>4, <2>5
  <2>q. QED BY <2>3, <2>6 DEF CheckAmount, When
<1>11. CheckReportedBudget(m, ledger) = {}
  <2>1. CheckReportedBudget(n, ledger) = {}
    BY <1>7 DEF DollarRules
  <2>q. QED BY <1>1, <1>2, <1>4, <1>5, <2>1 DEF CheckReportedBudget, When
<1>12. CheckOptionality(m, ledger, t) = {}
  <2>1. CheckOptionality(n, ledger, t) = {}
    BY <1>7 DEF DollarRules
  <2>2. Stated(m, "optionality") = Stated(n, "optionality")
    BY <1>5 DEF Resized, Stated
  <2>3. Stated(m, "optionality_analysis") = Stated(e, "optionality_analysis")
    BY <1>4 DEF Stated
  <2>q. QED BY <1>1, <1>2, <1>4, <1>5, <1>e, <2>1, <2>2, <2>3 DEF CheckOptionality, When
<1>13. PlaceRules(m) = {}
  <2>1. CheckEquity(n) = {} => CheckEquity(m) = {}
    BY <1>4, <1>5 DEF CheckEquity, When
  <2>2. CheckCrypto(n, Universe) = {} => CheckCrypto(m, Universe) = {}
    <3>1. ASSUME NEW pair, pair.minSize \in Nat \cup {None}
          PROVE  PairRules(n, pair) = {} => PairRules(m, pair) = {}
      BY <1>4, <1>5, <3>1 DEF PairRules, When
    <3>2. /\ m.ticker = n.ticker
          /\ Universe # None => \A pair \in DOMAIN Universe : Universe[pair].minSize \in Nat \cup {None}
      BY <1>5, MonthConstants
    <3>3. SUFFICES ASSUME CheckCrypto(n, Universe) = {} PROVE CheckCrypto(m, Universe) = {}
      OBVIOUS
    <3>4. /\ "crypto" \in Allow /\ n.ticker # None /\ n.ticker \in PairSymbols /\ Universe # None
          /\ n.ticker \in DOMAIN Universe
      BY <3>3 DEF CheckCrypto
    <3>5. PairRules(n, Universe[n.ticker]) = {}
      BY <3>3, <3>4 DEF CheckCrypto
    <3>6. PairRules(m, Universe[m.ticker]) = {}
      BY <3>1, <3>2, <3>4, <3>5
    <3>q. QED BY <3>2, <3>4, <3>6 DEF CheckCrypto
  <2>q. QED BY <1>5, <1>7, <2>1, <2>2 DEF PlaceRules
<1>14. m.decision = "BUY" /\ ParseViolations(e) = {}
  BY <1>4, <1>5, <1>6, <1>7
<1>15. DollarRules(m, budg, ledger, t) = {}
  BY <1>10, <1>11, <1>12 DEF DollarRules
<1>q. QED BY <1>7, <1>8, <1>9, <1>13, <1>14, <1>15, PurchaseIsJudged DEF m

(* What a leg that follows its template says.                                 *)
LEMMA LegIsFiled ==
  ASSUME NEW p, Asset[p.id].kind \in DOMAIN Specifics, NEW ledger
  PROVE  LET d == Leg(p, ledger)
         IN /\ DOMAIN d = DOMAIN Unfiled
            /\ d.decision = "BUY" /\ d.id = p.id /\ d.amount = p.usd /\ d.price \in Int
            /\ d.before = Remaining(ledger) /\ d.after = Remaining(ledger) - p.usd
            /\ d.events = p.events /\ d.marks = {} /\ d.garbled = {}
<1> DEFINE d == BuyLeg(Asset[p.id].kind, Asset[p.id].position, p.id, p.usd, ledger, now, p.thin)
           l == Leg(p, ledger)
<1>1. DOMAIN d = DOMAIN Unfiled
  BY DEF BuyLeg
<1>2. d.decision = "BUY" /\ d.id = p.id /\ d.amount = p.usd
      /\ d.price = Specifics[Asset[p.id].kind].price
  BY DEF BuyLeg, Unfiled
<1>3. d.before = Remaining(ledger) /\ d.after = Remaining(ledger) - p.usd
  BY DEF BuyLeg, Unfiled
<1>4. d.marks = {} /\ d.garbled = {}
  BY DEF BuyLeg, Unfiled
<1>5. Specifics[Asset[p.id].kind].price \in Int
  BY DEF Specifics
<1>6. l = [d EXCEPT !.events = p.events]
  BY DEF Leg
<1> HIDE DEF d, l
<1>7. /\ DOMAIN l = DOMAIN Unfiled /\ l.events = p.events
      /\ \A f \in DOMAIN Unfiled \ {"events"} : l[f] = d[f]
  BY <1>1, <1>6 DEF Unfiled
<1>8. /\ l.decision = d.decision /\ l.id = d.id /\ l.amount = d.amount /\ l.price = d.price
      /\ l.before = d.before /\ l.after = d.after /\ l.marks = d.marks /\ l.garbled = d.garbled
  BY <1>7 DEF Unfiled
<1>q. QED BY <1>2, <1>3, <1>4, <1>5, <1>7, <1>8 DEF l

(* The dollars ahead of a leg grow by what the leg takes.                     *)
LEMMA PrecedingGrows ==
  ASSUME NEW legs, NEW n \in Nat, \A j \in 1 .. n : LegAmount(legs[j]) \in Nat
  PROVE  /\ Preceding(legs, 1) = 0
         /\ Preceding(legs, n + 1) \in Nat
         /\ n # 0 => /\ Preceding(legs, n) \in Nat
                     /\ Preceding(legs, n + 1) = Preceding(legs, n) + LegAmount(legs[n])
                     /\ LegAmount(legs[1]) <= Preceding(legs, n + 1)
<1> DEFINE F(k) == [j \in 1 .. k |-> LegAmount(legs[j])]
           f == F(n)
<1>1. IsFiniteSet(1 .. n) /\ \A j \in 1 .. n : f[j] \in Nat /\ f[j] = LegAmount(legs[j])
  BY FS_Interval
<1>2. Preceding(legs, 1) = 0
  <2>1. 1 .. 1 - 1 = {}
    OBVIOUS
  <2>q. QED BY <2>1, SumOverNothing DEF Preceding
<1>3. Preceding(legs, n + 1) = SumOver(f, 1 .. n)
  <2>1. n + 1 - 1 = n
    OBVIOUS
  <2>q. QED BY <2>1 DEF Preceding
<1>4. \A S \in SUBSET (1 .. n) : SumOver(f, S) \in Int /\ 0 <= SumOver(f, S)
  <2> HIDE DEF f
  <2>1. \A j \in 1 .. n : f[j] \in Int
    BY <1>1
  <2>2. ASSUME NEW S \in SUBSET (1 .. n) PROVE SumOver(f, S) \in Int /\ 0 <= SumOver(f, S)
    <3>1. SumOver(f, S) \in Int
      BY <1>1, <2>1, SumOverInt
    <3>2. IsFiniteSet(S) /\ {} \subseteq S /\ \A j \in S : f[j] \in Nat
      BY <1>1, FS_Subset
    <3>3. SumOver(f, {}) <= SumOver(f, S)
      BY <3>2, SumOverMore
    <3>q. QED BY <3>1, <3>3, SumOverNothing
  <2>q. QED BY <2>2
<1>5. ASSUME n # 0
      PROVE  /\ Preceding(legs, n) \in Nat
             /\ Preceding(legs, n + 1) = Preceding(legs, n) + LegAmount(legs[n])
             /\ LegAmount(legs[1]) <= Preceding(legs, n + 1)
  <2> DEFINE S == 1 .. n - 1
             g == F(n - 1)
  <2>1. n \in 1 .. n /\ n \notin S /\ 1 .. n = S \cup {n} /\ IsFiniteSet(S) /\ S \subseteq 1 .. n
        /\ 1 \in 1 .. n
    <3>1. IsFiniteSet(1 .. n - 1)
      BY FS_Interval
    <3>2. 1 .. n = S \cup {n} /\ n \notin S /\ S \subseteq 1 .. n
      BY <1>5
    <3>q. QED BY <1>5, <3>1, <3>2
  <2>2. \A j \in S : g[j] = f[j] /\ g[j] \in Int
    BY <1>1
  <2>3. Preceding(legs, n) = SumOver(g, S)
    BY DEF Preceding
  <2> HIDE DEF S, f, g
  <2>4. SumOver(g, S) = SumOver(f, S)
    BY <2>1, <2>2, SumOverSame
  <2>5. SumOver(f, S \cup {n}) = f[n] + SumOver(f, S)
    <3>1. f[n] \in Int /\ \A j \in S : f[j] \in Int
      BY <1>1, <2>1
    <3>q. QED BY <2>1, <3>1, SumOverAdd
  <2>6. f[1] <= SumOver(f, 1 .. n)
    <3>1. SumOver(f, {} \cup {1}) = f[1] + SumOver(f, {})
      <4>1. IsFiniteSet({}) /\ 1 \notin {} /\ f[1] \in Int /\ \A j \in {} : f[j] \in Int
        BY <1>1, <2>1, FS_EmptySet
      <4>q. QED BY <4>1, SumOverAdd
    <3>2. SumOver(f, {1}) = f[1]
      BY <1>1, <2>1, <3>1, SumOverNothing
    <3>3. SumOver(f, {1}) <= SumOver(f, 1 .. n)
      <4>1. {1} \subseteq 1 .. n
        BY <2>1
      <4>q. QED BY <1>1, <4>1, SumOverMore
    <3>q. QED BY <3>2, <3>3
  <2>7. SumOver(f, S) \in Nat /\ f[n] = LegAmount(legs[n]) /\ f[n] \in Nat /\ f[1] = LegAmount(legs[1])
    BY <1>1, <1>4, <2>1
  <2>8. Preceding(legs, n + 1) = LegAmount(legs[n]) + Preceding(legs, n)
        /\ LegAmount(legs[1]) <= Preceding(legs, n + 1) /\ Preceding(legs, n) \in Nat
    BY <1>3, <2>1, <2>3, <2>4, <2>5, <2>6, <2>7
  <2>q. QED BY <2>7, <2>8
<1>q. QED BY <1>2, <1>3, <1>4, <1>5

(* A ledger that loads has the month's budget for its authorization.          *)
LEMMA LoadedAuthorizes ==
  ASSUME Loaded # None, TypeOK
  PROVE  Loaded.authorized = budget
<1>1. disk # None /\ ParseBudgetState(disk, budget) = disk /\ disk \in Ledgers
  BY LoadedLedger DEF Loaded, LoadBudgetState, ParseBudgetState
<1>2. DOMAIN disk = {"month", "authorized", "committed", "acted"}
  BY <1>1 DEF Ledgers
<1>3. \/ Loaded = [disk EXCEPT !.authorized = budget]
      \/ Loaded = [month |-> ProjectMonth(now), authorized |-> budget, committed |-> 0,
                   acted |-> disk.acted]
  BY <1>1 DEF Loaded, LoadBudgetState, RolledOver, FreshState
<1>q. QED BY <1>2, <1>3

(* A split plan that is valid is, as one leg, a valid purchase.               *)
LEMMA SplitIsOnePurchase ==
  ASSUME MonthInv, Loaded # None, NEW legs, NEW n \in Nat, DOMAIN legs = 1 .. n, Len(legs) = n,
         \A i \in 1 .. n :
           \E ahead : \E p \in Proposal :
             /\ legs[i] = Leg(p, CumulativeState(Loaded, ahead))
             /\ i = 1 => ahead = 0,
         NEW plan, plan.legs = legs, plan.type = "SPLIT_BUY_PLAN",
         ValidatePlan(plan, budget, Loaded, Universe, now) = {}
  PROVE  Valid(AsOneLeg(legs), budget, Loaded, Universe, now)
<1>1. /\ Loaded \in Ledgers /\ Loaded.authorized = budget /\ budget \in Nat
      /\ Loaded.authorized \in Nat /\ Loaded.committed \in Nat
  BY LoadedLedger, LoadedAuthorizes, MonthConstants DEF MonthInv, TypeOK, Ledgers
<1>2. ASSUME NEW i \in 1 .. n
      PROVE  /\ DOMAIN legs[i] = DOMAIN Unfiled /\ legs[i].decision = "BUY"
             /\ legs[i].amount \in Nat \ {0} /\ legs[i].price \in Int
             /\ legs[i].marks = {} /\ legs[i].garbled = {}
             /\ LegAmount(legs[i]) = legs[i].amount
             /\ i = 1 => legs[i].after = Remaining(CumulativeState(Loaded, 0)) - legs[i].amount
  <2>1. PICK ahead : \E p \in Proposal :
             /\ legs[i] = Leg(p, CumulativeState(Loaded, ahead))
             /\ i = 1 => ahead = 0
    OBVIOUS
  <2>a. PICK p \in Proposal :
             /\ legs[i] = Leg(p, CumulativeState(Loaded, ahead))
             /\ i = 1 => ahead = 0
    BY <2>1
  <2>2. p.id \in Ids /\ p.usd \in Nat \ {0} /\ Asset[p.id].kind \in DOMAIN Specifics
    BY <2>a, MonthConstants DEF Proposal
  <2>3. /\ DOMAIN legs[i] = DOMAIN Unfiled /\ legs[i].decision = "BUY" /\ legs[i].amount = p.usd
        /\ legs[i].price \in Int /\ legs[i].marks = {} /\ legs[i].garbled = {}
        /\ legs[i].after = Remaining(CumulativeState(Loaded, ahead)) - p.usd
    BY <2>a, <2>2, LegIsFiled
  <2>q. QED BY <2>a, <2>2, <2>3 DEF LegAmount
<1>a. \A j \in 1 .. n : LegAmount(legs[j]) \in Nat
  BY <1>2
<1> DEFINE total == Preceding(legs, n + 1)
           d == legs[1]
           e == AsOneLeg(legs)
<1>3. CrossLegViolations(plan, Loaded) = {} /\ \A i \in 1 .. n : LegViolations(plan, i, budget, Loaded, Universe, now) = {}
  <2>1. plan.type \in PlanTypes /\ plan.type # "WAIT"
    BY DEF PlanTypes
  <2> DEFINE own == When("approved" \in plan.marks, "SELF_APPROVAL_ATTEMPTED")
                      \cup When(plan.id = None, "MISSING_PLAN_ID")
             of(i) == LegViolations(plan, i, budget, Loaded, Universe, now)
  <2>2. ValidatePlan(plan, budget, Loaded, Universe, now)
          = own \cup CrossLegViolations(plan, Loaded) \cup UNION {of(i) : i \in DOMAIN plan.legs}
    BY <2>1 DEF ValidatePlan
  <2> HIDE DEF own, of
  <2>3. CrossLegViolations(plan, Loaded) = {} /\ \A i \in DOMAIN plan.legs : of(i) = {}
    BY <2>2
  <2>q. QED BY <2>3 DEF of
<1>4. n \in 2 .. 5 /\ total <= Remaining(Loaded)
  <2>1. n \in LegCounts["SPLIT_BUY_PLAN"] /\ ~(total > Remaining(Loaded))
    BY <1>3 DEF CrossLegViolations, When
  <2>2. total \in Nat
    BY <1>a, PrecedingGrows
  <2>q. QED BY <1>1, <2>1, <2>2 DEF LegCounts, Remaining
<1>5. \A i \in 1 .. n : Valid(legs[i], budget, CumulativeState(Loaded, Preceding(legs, i)), Universe, now)
  BY <1>3 DEF LegViolations, Valid
<1>6. CumulativeState(Loaded, 0) = Loaded
  <2>1. DOMAIN Loaded = {"month", "authorized", "committed", "acted"}
    BY <1>1 DEF Ledgers
  <2>2. Loaded.committed + 0 = Loaded.committed
    BY <1>1
  <2>q. QED BY <1>1, <2>1, <2>2 DEF CumulativeState, Ledgers
<1>7. /\ total \in Nat /\ Preceding(legs, 1) = 0 /\ Preceding(legs, n) \in Nat
      /\ total = Preceding(legs, n) + legs[n].amount /\ d.amount <= total
      /\ d.amount \in Nat \ {0} /\ legs[n].amount \in Nat \ {0}
  <2>1. 1 \in 1 .. n /\ n \in 1 .. n /\ n # 0
    BY <1>4
  <2>2. /\ Preceding(legs, 1) = 0 /\ Preceding(legs, n + 1) \in Nat /\ Preceding(legs, n) \in Nat
        /\ Preceding(legs, n + 1) = Preceding(legs, n) + LegAmount(legs[n])
        /\ LegAmount(legs[1]) <= Preceding(legs, n + 1)
    BY <1>a, <2>1, PrecedingGrows
  <2>3. LegAmount(legs[1]) = legs[1].amount /\ LegAmount(legs[n]) = legs[n].amount
        /\ legs[1].amount \in Nat \ {0} /\ legs[n].amount \in Nat \ {0}
    BY <1>2, <2>1
  <2>q. QED BY <2>2, <2>3
<1>8. /\ DOMAIN d = DOMAIN Unfiled /\ d.decision = "BUY" /\ d.price \in Int
      /\ d.marks = {} /\ d.garbled = {} /\ d.after = Remaining(Loaded) - d.amount
      /\ Valid(d, budget, Loaded, Universe, now)
  <2>1. 1 \in 1 .. n
    BY <1>4
  <2>q. QED BY <1>2, <1>5, <1>6, <1>7, <2>1
<1> DEFINE analysed == \E i \in DOMAIN legs : Stated(legs[i], "optionality_analysis")
           gaps == IF analysed THEN d.gaps \ {"optionality_analysis"} ELSE d.gaps
<1>9. e = [d EXCEPT !.amount = total, !.after = d.after + d.amount - total, !.gaps = gaps]
  BY DEF AsOneLeg
<1> HIDE DEF d, e, total, gaps, analysed
<1>10. /\ DOMAIN e = DOMAIN Unfiled /\ e.amount = total /\ e.gaps = gaps
       /\ e.after = d.after + d.amount - total
       /\ \A f \in DOMAIN Unfiled \ {"amount", "after", "gaps"} : e[f] = d[f]
  BY <1>8, <1>9 DEF Unfiled
<1>11. Resized(d, e)
  BY <1>8, <1>10 DEF Resized, gaps
<1>12. e.after = Remaining(Loaded) - e.amount /\ Remaining(Loaded) <= budget /\ Remaining(Loaded) \in Int
  <2>1. Remaining(Loaded) \in Int /\ Remaining(Loaded) <= budget
    BY <1>1 DEF Remaining
  <2>2. d.after = Remaining(Loaded) - d.amount /\ e.after = d.after + d.amount - total
        /\ e.amount = total /\ d.amount \in Int /\ total \in Int
    BY <1>7, <1>8, <1>10
  <2>q. QED BY <2>1, <2>2
<1>13. Stated(d, "optionality_analysis") => Stated(e, "optionality_analysis")
  BY <1>10 DEF Stated, gaps
<1>14. ASSUME Loaded.committed + e.amount > HalfOf(Loaded.authorized), DayOf(UtcDate(now)) < MidMonthDay
       PROVE  Stated(e, "optionality_analysis")
  <2>1. CASE analysed
    BY <1>10, <2>1 DEF Stated, gaps
  <2>2. CASE ~analysed
    <3> DEFINE x == Normalized(legs[n])
               seen == CumulativeState(Loaded, Preceding(legs, n))
    <3>1. n \in 1 .. n /\ n \in DOMAIN legs
      BY <1>4
    <3>2. x.amount = legs[n].amount /\ x.gaps = legs[n].gaps /\ x.decision = "BUY"
      BY <1>2, <3>1 DEF Normalized, Unfiled
    <3>3. seen.committed = Loaded.committed + Preceding(legs, n) /\ seen.authorized = Loaded.authorized
      BY <1>1 DEF CumulativeState, Ledgers
    <3> HIDE DEF seen
    <3>4. Valid(legs[n], budget, seen, Universe, now)
      BY <1>5, <3>1 DEF seen
    <3>5. DollarRules(x, budget, seen, now) = {}
      BY <3>2, <3>4, PurchaseIsJudged
    <3> HIDE DEF x
    <3>6. CheckOptionality(x, seen, now) = {}
      BY <3>5 DEF DollarRules
    <3>7. ~(/\ x.amount > 0 /\ seen.committed + x.amount > HalfOf(seen.authorized)
            /\ DayOf(UtcDate(now)) < MidMonthDay /\ ~Stated(x, "optionality_analysis"))
      BY <3>6 DEF CheckOptionality, When
    <3>8. ~Stated(x, "optionality_analysis")
      BY <2>2, <3>1, <3>2 DEF analysed, Stated
    <3>9. seen.committed + x.amount = Loaded.committed + e.amount /\ x.amount > 0
      <4>1. /\ Loaded.committed \in Nat /\ Preceding(legs, n) \in Nat /\ legs[n].amount \in Nat \ {0}
            /\ e.amount = Preceding(legs, n) + legs[n].amount
        BY <1>1, <1>7, <1>10
      <4>2. x.amount = legs[n].amount /\ seen.committed = Loaded.committed + Preceding(legs, n)
        BY <3>2, <3>3
      <4>q. QED BY ONLY <4>1, <4>2
    <3>q. QED BY <1>14, <3>3, <3>7, <3>8, <3>9
  <2>q. QED BY <2>1, <2>2
<1>15. d.amount \in Int /\ e.amount \in Int /\ 0 < d.amount /\ d.amount <= e.amount
       /\ e.amount <= Remaining(Loaded) /\ budget \in Int
  BY <1>1, <1>4, <1>7, <1>10
<1>16. Enlarged(d, e, budget, Loaded, now)
  BY <1>1, <1>8, <1>11, <1>12, <1>13, <1>14, <1>15 DEF Enlarged
<1>17. Valid(e, budget, Loaded, Universe, now)
  BY <1>8, <1>16, MoreIsValid
<1>q. QED BY <1>17 DEF e

(* A split that is filed is made of such legs.                                *)
LEMMA SplitsAreLegs ==
  ASSUME NEW ledger, NEW plan \in Drafts(ledger), plan.type = "SPLIT_BUY_PLAN"
  PROVE  \E n \in Nat :
           /\ DOMAIN plan.legs = 1 .. n /\ Len(plan.legs) = n
           /\ \A i \in 1 .. n :
                \E ahead : \E q \in Proposal :
                  /\ plan.legs[i] = Leg(q, CumulativeState(ledger, ahead))
                  /\ i = 1 => ahead = 0
<1>1. plan # Plan("WAIT", <<>>, WaitDecision(CHOOSE id \in Ids : TRUE, ledger))
  BY DEF Plan
<1>2. PICK p \in Proposals :
        plan = Plan(IF Len(p) = 1 THEN "SINGLE_BUY" ELSE "SPLIT_BUY_PLAN",
               [i \in DOMAIN p |->
                  LET ahead == SumOver([j \in 1 .. i - 1 |-> p[j].usd], 1 .. i - 1)
                  IN Leg(p[i], CumulativeState(ledger, ahead))], None)
  BY <1>1 DEF Drafts
<1> DEFINE Ahead(i) == SumOver([j \in 1 .. i - 1 |-> p[j].usd], 1 .. i - 1)
           Drafted(i) == Leg(p[i], CumulativeState(ledger, Ahead(i)))
<1>3. plan.legs = [i \in DOMAIN p |-> Drafted(i)]
  BY <1>2 DEF Plan
<1>4. Len(p) \in Nat /\ DOMAIN p = 1 .. Len(p) /\ \A i \in 1 .. Len(p) : p[i] \in Proposal
  BY MonthConstants, LenProperties, ElementOfSeq
<1>5. Ahead(1) = 0
  <2>1. 1 .. 1 - 1 = {}
    OBVIOUS
  <2>q. QED BY <2>1, SumOverNothing
<1> HIDE DEF Ahead
<1>6. ASSUME NEW i \in 1 .. Len(p)
      PROVE  \E ahead : \E q \in Proposal :
               /\ plan.legs[i] = Leg(q, CumulativeState(ledger, ahead))
               /\ i = 1 => ahead = 0
  <2>1. plan.legs[i] = Leg(p[i], CumulativeState(ledger, Ahead(i)))
    BY <1>3, <1>4
  <2>2. i = 1 => Ahead(i) = 0
    BY <1>5
  <2>3. PICK q \in Proposal : q = p[i]
    BY <1>4
  <2>4. plan.legs[i] = Leg(q, CumulativeState(ledger, Ahead(i)))
    BY <2>1, <2>3
  <2>5. PICK a : a = Ahead(i)
    OBVIOUS
  <2>6. plan.legs[i] = Leg(q, CumulativeState(ledger, a)) /\ (i = 1 => a = 0)
    BY <2>2, <2>4, <2>5
  <2>q. QED BY <2>6
<1> HIDE DEF Drafted
<1>7. DOMAIN plan.legs = 1 .. Len(p) /\ Len(plan.legs) = Len(p)
  BY <1>3, <1>4
<1>q. QED BY <1>4, <1>6, <1>7

(* A split cannot spend what one purchase could not: whatever proposal passes *)
(* the plan's validation leg by leg, its dollars as a single leg of the first *)
(* asset, with whatever analysis any leg has, validate too (validate_plan and *)
(* its cumulative state, check_amount, _check_optionality).                   *)
THEOREM SplitsBuyNothing == Spec => SplittingBuysNothing
<1> DEFINE Logged == Len(plans') > Len(plans) =>
                       LET plan == plans'[Len(plans')].plan
                       IN plan.type = "SPLIT_BUY_PLAN" =>
                            Valid(AsOneLeg(plan.legs), budget, Loaded, Universe, now)
<1>1. MonthInv /\ [Next]_vars => [Logged]_vars
  <2> SUFFICES ASSUME MonthInv, [Next]_vars, Len(plans') > Len(plans),
                      plans'[Len(plans')].plan.type = "SPLIT_BUY_PLAN"
               PROVE  Valid(AsOneLeg(plans'[Len(plans')].plan.legs), budget, Loaded, Universe, now)
    OBVIOUS
  <2>1. PICK S : plans \in Seq(S)
    BY DEF MonthInv, Filed
  <2>2. Draft
    <3>1. Len(plans) \in Nat
      BY <2>1, LenProperties
    <3>2. plans' # plans
      BY <3>1
    <3>q. QED BY <3>2 DEF Next, vars, files, outside, Tick, EditBudget, TradeByHand, OrderMoves,
           Review, Dismiss, Approve, Buy, Settle, FinishCommit, InitLedger
  <2>3. PICK plan \in Drafts(Loaded) :
          /\ ValidatePlan(plan, budget, Loaded, Universe, now) = {}
          /\ plans' = Append(plans, [plan |-> plan, at |-> now, budget |-> budget,
                                     ledger |-> Loaded])
    BY <2>2 DEF Draft
  <2>4. plans'[Len(plans')].plan = plan /\ Loaded # None
    <3> DEFINE entry == [plan |-> plan, at |-> now, budget |-> budget, ledger |-> Loaded]
    <3>1. entry.plan = plan /\ plans' = Append(plans, entry)
      BY <2>3
    <3> HIDE DEF entry
    <3>2. plans \in Seq(S \cup {entry}) /\ entry \in S \cup {entry}
      BY <2>1, SeqMonotonic
    <3>3. plans'[Len(plans')] = entry
      BY <3>1, <3>2, AppendProperties
    <3>q. QED BY <2>2, <3>1, <3>3 DEF Draft
  <2>5. PICK n \in Nat :
           /\ DOMAIN plan.legs = 1 .. n /\ Len(plan.legs) = n
           /\ \A i \in 1 .. n :
                \E ahead : \E p \in Proposal :
                  /\ plan.legs[i] = Leg(p, CumulativeState(Loaded, ahead))
                  /\ i = 1 => ahead = 0
    BY <2>4, SplitsAreLegs
  <2>6. PICK legs : legs = plan.legs
    OBVIOUS
  <2>7. Valid(AsOneLeg(legs), budget, Loaded, Universe, now)
    BY <2>3, <2>4, <2>5, <2>6, SplitIsOnePurchase
  <2>q. QED BY <2>4, <2>6, <2>7
<1>2. SplittingBuysNothing <=> [][Logged]_vars
  BY DEF SplittingBuysNothing
<1> HIDE DEF Logged
<1>q. QED BY MonthBegins, MonthStep, <1>1, <1>2, PTL DEF Spec

(* --- what a verdict says of the events awaited ------------------------------- *)

(* A month begins and ends on a date.                                         *)
LEMMA MonthEndsAreDates ==
  ASSUME NEW d \in Int
  PROVE  FirstOfMonth(d) \in Int /\ LastOfMonth(d) \in Int
<1>1. MonthOf(d) \in Int
  BY MonthsAreTwelve
<1>2. YearOf(d) \in Int
  BY <1>1 DEF YearOf, MarchYear
<1>3. \A y, m \in Int : Date(y, m, 1) \in Int
  BY DEF Date
<1>4. FirstOfNext(YearOf(d), MonthOf(d)) \in Int
  <2>1. YearOf(d) + 1 \in Int /\ MonthOf(d) + 1 \in Int
    BY <1>1, <1>2
  <2>2. Date(YearOf(d) + 1, 1, 1) \in Int /\ Date(YearOf(d), MonthOf(d) + 1, 1) \in Int
    BY <1>2, <1>3, <2>1
  <2>q. QED BY <2>2 DEF FirstOfNext
<1>q. QED BY <1>1, <1>2, <1>3, <1>4 DEF FirstOfMonth, LastOfMonth

(* The search backwards finds the last session of the month.                  *)
LEMMA LastSessionIsLast ==
  ASSUME NEW date \in Int
  PROVE  LET s == LastTradingDayOfMonth(date)
         IN /\ s \in FirstOfMonth(date) .. LastOfMonth(date) /\ IsTradingDay(s)
            /\ \A later \in s + 1 .. LastOfMonth(date) : ~IsTradingDay(later)
<1>1. PICK first, last \in Int : first = FirstOfMonth(date) /\ last = LastOfMonth(date)
  BY MonthEndsAreDates
<1> DEFINE T == {n \in Nat : last - n \in first .. last /\ IsTradingDay(last - n)}
<1>2. T # {}
  <2>1. PICK d \in first .. last : IsTradingDay(d)
    BY <1>1, EveryMonthHasASession
  <2>2. PICK n \in Nat : n = last - d
    OBVIOUS
  <2>3. last - n = d
    BY <2>2
  <2>q. QED BY <2>1, <2>3
<1>3. PICK n \in T : \A m \in T : n <= m
  <2>1. T \in SUBSET Nat
    OBVIOUS
  <2> HIDE DEF T
  <2>q. QED BY <1>2, <2>1, LeastNumber
<1>4. PICK s \in first .. last : s = last - n /\ IsTradingDay(s)
  BY <1>3
<1>5. ASSUME NEW later \in s + 1 .. last PROVE ~IsTradingDay(later)
  <2>1. PICK m \in Nat : m = last - later
    OBVIOUS
  <2>2. last - m = later /\ later \in first .. last /\ m < n
    BY <1>3, <1>4, <2>1
  <2>q. QED BY <1>3, <2>2
<1>6. \E d \in FirstOfMonth(date) .. LastOfMonth(date) :
        /\ IsTradingDay(d)
        /\ \A later \in d + 1 .. LastOfMonth(date) : ~IsTradingDay(later)
  BY <1>1, <1>4, <1>5
<1>q. QED BY <1>6 DEF LastTradingDayOfMonth

(* An event is in reach exactly if a session is left in its month on which to *)
(* act on it, when UTC and the project agree on the month.                    *)
LEMMA ReachIsTime ==
  ASSUME now \in Nat, ~OnlyUtcIsAMonthAhead, NEW e, e.date \in Int, e.afterClose \in BOOLEAN
  PROVE  InReach(e, now) = InTime(e)
<1>1. PICK u, p \in Int : u = UtcDate(now) /\ p = ProjectDate(now)
  BY ClocksBehindUtc DEF UtcDate, ProjectDate
<1>2. LastOfMonth(u) = LastOfMonth(p)
  BY <1>1, SameMonth DEF OnlyUtcIsAMonthAhead, Month, ProjectMonth
<1>3. PICK last, date \in Int : last = LastOfMonth(u) /\ date = e.date
  BY MonthEndsAreDates
<1>b. InReach(e, now) \in BOOLEAN /\ InTime(e) \in BOOLEAN
  <2>1. InReach(e, now) \in BOOLEAN
    BY DEF InReach, ActionableThisMonth
  <2>2. CASE e.class = "CRYPTO"
    BY <2>1, <2>2 DEF InTime
  <2>3. CASE e.class # "CRYPTO"
    BY <2>1, <2>3 DEF InTime
  <2>q. QED BY <2>2, <2>3
<1>4. InTime(e) <=> IF e.class = "CRYPTO" THEN date <= last
                    ELSE \E d \in date .. last : IsTradingDay(d) /\ (e.afterClose => d > date)
  BY <1>1, <1>2, <1>3 DEF InTime
<1>5. CASE e.class = "CRYPTO"
  <2>1. FinalOpportunity(u, e.class) = <<last, LateNight>>
    BY <1>3, <1>5 DEF FinalOpportunity
  <2>2. EventMoment(date, e.afterClose, e.class)
          = <<date, IF e.afterClose THEN 16 * 3600 + 1 ELSE 60 * RegularOpen>>
    BY <1>5 DEF EventMoment
  <2>3. After(EventMoment(date, e.afterClose, e.class), FinalOpportunity(u, e.class)) <=> date > last
    BY <2>1, <2>2 DEF After, LateNight, RegularOpen
  <2>4. InReach(e, now) <=> date <= last
    BY <1>1, <1>3, <2>3 DEF InReach, ActionableThisMonth
  <2>q. QED BY ONLY <1>4, <1>5, <1>b, <2>4
<1>6. CASE e.class # "CRYPTO"
  <2>1. PICK s \in Int : /\ s = LastTradingDayOfMonth(u) /\ s <= last /\ IsTradingDay(s)
                         /\ \A later \in s + 1 .. last : ~IsTradingDay(later)
    <3>1. /\ LastTradingDayOfMonth(u) \in FirstOfMonth(u) .. last
          /\ IsTradingDay(LastTradingDayOfMonth(u))
          /\ \A later \in LastTradingDayOfMonth(u) + 1 .. last : ~IsTradingDay(later)
      BY <1>3, LastSessionIsLast
    <3>2. FirstOfMonth(u) \in Int
      BY MonthEndsAreDates
    <3>q. QED BY <3>1, <3>2
  <2>2. \A d : MarketClose(d) \in {780, 960}
    BY DEF MarketClose
  <2>3. PICK close, other \in {780, 960} : close = MarketClose(s) /\ other = MarketClose(date)
    BY <2>2
  <2>4. FinalOpportunity(u, e.class) = <<s, 60 * close>>
    BY <1>6, <2>1, <2>3 DEF FinalOpportunity
  <2>5. EventMoment(date, e.afterClose, e.class)
          = <<date, IF e.afterClose THEN 60 * other + 1 ELSE 60 * RegularOpen>>
    BY <1>6, <2>3 DEF EventMoment
  <2>6. date = s => other = close
    BY <2>3
  <2>7. After(EventMoment(date, e.afterClose, e.class), FinalOpportunity(u, e.class))
          <=> date > s \/ (date = s /\ e.afterClose)
    BY <2>4, <2>5, <2>6 DEF After, RegularOpen
  <2>8. InReach(e, now) <=> date < s \/ (date = s /\ ~e.afterClose)
    BY <1>1, <1>3, <2>7 DEF InReach, ActionableThisMonth
  <2>9. (\E d \in date .. last : IsTradingDay(d) /\ (e.afterClose => d > date))
          <=> date < s \/ (date = s /\ ~e.afterClose)
    BY <2>1
  <2>q. QED BY ONLY <1>4, <1>6, <1>b, <2>8, <2>9
<1>q. QED BY <1>5, <1>6

(* A departure leaves a decision its fields, and its events unless it is      *)
(* about them.                                                                *)
LEMMA DepartKeepsEvents ==
  ASSUME NEW d, DOMAIN d = DOMAIN Unfiled, NEW x
  PROVE  /\ DOMAIN Depart(d, x) = DOMAIN Unfiled
         /\ Depart(d, x).events = IF x[1] = "events" THEN x[2] ELSE d.events
<1>1. "events" \in DOMAIN d
  BY DEF Unfiled
<1>2. CASE x[1] \in {"marks", "gaps", "garbled"}
  BY <1>1, <1>2 DEF Depart
<1>3. CASE x[1] = "amount"
  BY <1>1, <1>3 DEF Depart
<1>4. CASE x[1] \notin {"marks", "gaps", "garbled", "amount"}
  BY <1>1, <1>4 DEF Depart
<1>q. QED BY <1>2, <1>3, <1>4

(* A valid decision declares of each event it awaits what is in reach.        *)
LEMMA ValidDeclares ==
  ASSUME NEW d, DOMAIN d = DOMAIN Unfiled, NEW budg, NEW ledger, NEW t,
         Valid(d, budg, ledger, Universe, t), d.events # None, NEW e \in d.events
  PROVE  e.date # None /\ e.declared = InReach(e, t)
<1> DEFINE n == Normalized(d)
<1>1. n.events = d.events
  BY DEF Normalized, Unfiled
<1> HIDE DEF n
<1>2. CheckEvents(n, t) = {}
  BY DEF Valid, Validate, n
<1>3. EventViolations(e, t) = {}
  BY <1>1, <1>2 DEF CheckEvents, When
<1>q. QED BY <1>3 DEF EventViolations, JudgedEvent, When

(* What is reviewed is a purchase with two departures.                        *)
InReview ==
  reviewed # None =>
    /\ DOMAIN reviewed.base = DOMAIN Unfiled /\ reviewed.base.events = {}
    /\ reviewed.x \in Faults \cup EventFaults /\ reviewed.y \in Faults \cup EventFaults

(* Only a review puts a decision up. *)
LEMMA ReviewStep ==
  ASSUME InReview, [Next]_vars
  PROVE  InReview'
<1>1. CASE Review
  <2>1. PICK id \in Ids, position \in {"EXISTING_POSITION", "NEW_POSITION"},
             pair \in (EventFaults \X EventFaults) \cup (Faults \X Faults) :
          reviewed' = [base |-> BuyLeg(Asset[id].kind, position, id, ReviewedUsd, Loaded, now, {}),
                       x |-> pair[1], y |-> pair[2]]
    BY <1>1 DEF Review
  <2> DEFINE base == BuyLeg(Asset[id].kind, position, id, ReviewedUsd, Loaded, now, {})
  <2>2. DOMAIN base = DOMAIN Unfiled /\ base.events = {}
    <3>1. DOMAIN base = DOMAIN Unfiled
      BY DEF BuyLeg
    <3>2. base.events = {}
      BY DEF BuyLeg, Unfiled
    <3>q. QED BY <3>1, <3>2
  <2> HIDE DEF base
  <2>3. reviewed'.base = base /\ reviewed'.x = pair[1] /\ reviewed'.y = pair[2]
    BY <2>1 DEF base
  <2>4. pair[1] \in Faults \cup EventFaults /\ pair[2] \in Faults \cup EventFaults
    OBVIOUS
  <2>q. QED BY <2>2, <2>3, <2>4 DEF InReview
<1>2. CASE Dismiss
  BY <1>2 DEF Dismiss, InReview
<1>3. CASE UNCHANGED reviewed
  BY <1>3 DEF InReview
<1>q. QED BY <1>1, <1>2, <1>3 DEF Next, vars, Tick, EditBudget, TradeByHand, OrderMoves, Draft,
       Approve, Buy, Settle, FinishCommit, InitLedger

(* A valid decision says truly whether an event it awaits comes in time: of   *)
(* every event, of either kind of market and at any distance, it declares     *)
(* whether a session is left in the project's month on which to act on it     *)
(* (validate_event_actionability, is_actionable_this_month), unless UTC is a  *)
(* month ahead.                                                               *)
THEOREM EventVerdicts == Spec => []EventVerdictHonest
<1>1. Init => InReview
  BY DEF Init, InReview
<1>2. InReview /\ [Next]_vars => InReview'
  BY ReviewStep
<1>3. MonthInv /\ InReview => EventVerdictHonest
  <2> SUFFICES ASSUME MonthInv, InReview, reviewed # None, ~OnlyUtcIsAMonthAhead, Verdict(Both),
                      NEW e \in Both.events
               PROVE  e.declared = InTime(e)
    BY DEF EventVerdictHonest
  <2>1. now \in Nat
    BY NowIsAMoment DEF MonthInv, TypeOK
  <2> DEFINE x == reviewed.x
             y == reviewed.y
             one == Depart(reviewed.base, x)
  <2>2. /\ DOMAIN one = DOMAIN Unfiled
        /\ one.events = IF x[1] = "events" THEN x[2] ELSE {}
    BY DepartKeepsEvents DEF InReview
  <2> HIDE DEF one
  <2>3. /\ DOMAIN Both = DOMAIN Unfiled
        /\ Both.events = IF y[1] = "events" THEN y[2] ELSE one.events
    BY <2>2, DepartKeepsEvents DEF Both, one
  <2>4. e.date \in Int \cup {None} /\ e.afterClose \in BOOLEAN
    BY <2>2, <2>3, MonthConstants DEF InReview
  <2>5. e.date # None /\ e.declared = InReach(e, now)
    <3>1. Both.events # None
      BY <2>2, <2>3, MonthConstants DEF InReview
    <3>q. QED BY <2>3, <3>1, ValidDeclares DEF Verdict
  <2>q. QED BY <2>1, <2>4, <2>5, ReachIsTime
<1>q. QED BY MonthBegins, MonthStep, <1>1, <1>2, <1>3, PTL DEF Spec

(* --- what the capital gate lets through --------------------------------------- *)

(* The ids that were approved are finitely many.                              *)
Few == IsFiniteSet(DOMAIN approvals)
LEMMA FewStep ==
  ASSUME Few, [Next]_vars
  PROVE  Few'
<1>1. CASE \E id \in Ids : Approve(id)
  <2>1. PICK id, approval : approvals' = Put(approvals, id, approval)
    BY <1>1 DEF Approve
  <2>2. DOMAIN approvals' = DOMAIN approvals \cup {id}
    BY <2>1 DEF Put
  <2>q. QED BY <2>2, FS_AddElement DEF Few
<1>2. CASE UNCHANGED approvals
  BY <1>2 DEF Few
<1>q. QED BY <1>1, <1>2 DEF Next, vars, files, outside, Tick, EditBudget, TradeByHand, OrderMoves, Draft,
       Review, Dismiss, Buy, Settle, FinishCommit, InitLedger

(* What is reserved for approved decisions is an amount.                      *)
LEMMA ReservedIsAnAmount ==
  ASSUME Filed, Few
  PROVE  SiblingReservations(approvals, stage, Month, {}) \in Nat
<1> DEFINE held == {id \in DOMAIN approvals \ {} :
                      /\ approvals[id].month = Month
                      /\ id \in DOMAIN stage => stage[id] \notin IN_FLIGHT_STATES \cup RELEASED_STATES}
           f == [id \in held |-> approvals[id].usd]
<1>1. IsFiniteSet(held) /\ \A id \in held : f[id] \in Nat
  BY FS_Subset DEF Few, Filed
<1>2. SiblingReservations(approvals, stage, Month, {}) = SumOver(f, held)
  BY DEF SiblingReservations
<1> HIDE DEF f, held
<1>q. QED BY <1>1, <1>2, SumOverNat

(* What reconciliation calls filled and what it calls pending are all it      *)
(* counts as the broker's.                                                    *)
LEMMA FilledAndPending ==
  ASSUME NEW B, IsFiniteSet(B), B \subseteq Orders
  PROVE  LET open == {o \in B : o.state = "open"}
             done == {o \in B : o.state # "open"}
         IN UsdOf(B) = UsdOf(done) + UsdOf(open) /\ UsdOf(done) \in Int /\ UsdOf(open) \in Int
<1> DEFINE open == {o \in B : o.state = "open"}
           done == {o \in B : o.state # "open"}
           F(S) == [o \in S |-> CommittedUsd(o)]
           f == F(B)
<1>1. \A o \in B : CommittedUsd(o) \in Int
  <2>1. \A o \in B : o.requested \in Nat /\ o.executed \in Nat
    BY DEF Orders
  <2>q. QED BY <2>1 DEF CommittedUsd
<1>2. B = done \cup open /\ done \cap open = {} /\ IsFiniteSet(done) /\ IsFiniteSet(open)
  BY FS_Subset
<1>3. \A o \in B : f[o] \in Int
  BY <1>1
<1>4. SumOver(f, done \cup open) = SumOver(f, done) + SumOver(f, open)
  <2> HIDE DEF f, done, open
  <2>q. QED BY <1>2, <1>3, SumOverUnion
<1>5. ASSUME NEW S \in SUBSET B, IsFiniteSet(S)
      PROVE  UsdOf(S) = SumOver(f, S) /\ UsdOf(S) \in Int
  <2> DEFINE g == F(S)
  <2>1. \A o \in S : g[o] \in Int /\ g[o] = f[o]
    BY <1>1
  <2>2. UsdOf(S) = SumOver(g, S)
    BY DEF UsdOf
  <2> HIDE DEF f, g
  <2>3. SumOver(g, S) = SumOver(f, S)
    BY <1>5, <2>1, SumOverSame
  <2>4. SumOver(g, S) \in Int
    <3>1. S \in SUBSET S /\ \A o \in S : g[o] \in Int
      BY <2>1
    <3>q. QED BY <1>5, <3>1, SumOverInt
  <2>q. QED BY <2>2, <2>3, <2>4
<1>6. UsdOf(B) = SumOver(f, B)
  BY DEF UsdOf
<1> HIDE DEF f
<1>7. UsdOf(done) = SumOver(f, done) /\ UsdOf(done) \in Int
  BY <1>2, <1>5
<1>8. UsdOf(open) = SumOver(f, open) /\ UsdOf(open) \in Int
  BY <1>2, <1>5
<1>9. UsdOf(B) = UsdOf(done) + UsdOf(open)
  <2> HIDE DEF done, open
  <2>q. QED BY <1>2, <1>4, <1>6, <1>7, <1>8
<1>q. QED BY <1>7, <1>8, <1>9

(* A reconciliation that knows of no order the ledger does not leaves the     *)
(* ledger's remainder beside all it found filled and pending.                 *)
LEMMA LedgerCoversOrders ==
  ASSUME NoneIsNoList, MonthInv, Loaded # None, Reconciled # None, ~Reconciled.blocking,
         Reconciled.remaining = Remaining(Loaded)
  PROVE  /\ Reconciled.filled \in Int /\ Reconciled.pending \in Int
         /\ Reconciled.filled + Reconciled.pending + Remaining(Loaded) <= budget
<1> DEFINE equity == {o \in orders : o.class # "CRYPTO"}
           crypto == {o \in orders : o.class = "CRYPTO"}
           buys == {o \in {p \in orders : OrderMonth(p) = Month} : o.side \in {"buy", None}}
           broker == UsdOf(buys)
           filled == UsdOf({o \in buys : o.state # "open"})
           pending == UsdOf({o \in buys : o.state = "open"})
           reconciled == IF broker > Loaded.committed THEN broker ELSE Loaded.committed
<1>1. None # crypto /\ equity \cup crypto = orders
  <2>1. crypto \in SUBSET Orders
    BY DEF MonthInv, TypeOK
  <2>q. QED BY <2>1 DEF NoneIsNoList
<1>2. Loaded.month = Month /\ Loaded.committed \in Nat /\ Month = ProjectMonth(now)
  BY LoadedLedger DEF MonthInv, Ledgers, Month
<1>3. IsFiniteSet(buys) /\ buys \subseteq Orders
  BY FS_Subset DEF MonthInv, TypeOK, Listed
<1>4. budget \in Int /\ Loaded.authorized = budget
  BY LoadedAuthorizes, MonthConstants DEF MonthInv, TypeOK
<1>5. /\ Reconciled.remaining = AtLeastZero(budget - reconciled)
      /\ ~(reconciled > budget)
      /\ Reconciled.filled = filled /\ Reconciled.pending = pending
  <2>1. Reconciled = Reconcile(budget, Loaded, equity, crypto, now)
    BY DEF Reconciled
  <2> HIDE DEF equity, crypto
  <2>q. QED BY <1>1, <1>2, <2>1 DEF Reconcile
<1> HIDE DEF buys
<1>6. broker = filled + pending /\ filled \in Int /\ pending \in Int
  BY <1>3, FilledAndPending
<1> HIDE DEF broker, filled, pending
<1>7. reconciled \in Int /\ broker <= reconciled
  BY <1>2, <1>6
<1> HIDE DEF reconciled
<1>8. AtLeastZero(budget - reconciled) = budget - reconciled
  BY <1>4, <1>5, <1>7 DEF AtLeastZero
<1>9. Remaining(Loaded) = budget - reconciled
  BY <1>5, <1>8
<1>10. filled + pending + Remaining(Loaded) <= budget
  BY ONLY <1>4, <1>6, <1>7, <1>9
<1>q. QED BY <1>5, <1>6, <1>10

(* What the gate calls deployable was authorized, is not reserved, and is no  *)
(* less than the least it lets an evaluation be paid for.                     *)
LEMMA DeployableIsThere ==
  ASSUME NEW remaining \in Int, NEW reserved \in Nat, NEW cash, cash.cash \in Nat,
         cash.unsettled = None, NEW t,
         EvaluateGate(remaining, reserved, cash, t).outcome = "EVALUATE"
  PROVE  LET deployable == EvaluateGate(remaining, reserved, cash, t).deployable
         IN /\ deployable \in Int /\ MinDeployable <= deployable
            /\ deployable + reserved <= remaining
<1> DEFINE available == Available(remaining, reserved)
<1>1. reserved # None /\ remaining # None /\ cash.cash # None
  BY NoneIsNoNumber
<1>2. available = AtLeastZero(remaining - reserved)
  BY <1>1 DEF Available
<1> HIDE DEF available
<1>3. available \in Int /\ (available > 0 => available + reserved <= remaining)
  BY <1>2 DEF AtLeastZero
<1>4. /\ ~(available < MinDeployable)
      /\ AuthorizationGate(remaining, reserved).outcome = "EVALUATE"
      /\ AuthorizationGate(remaining, reserved).available = available
  BY <1>1 DEF EvaluateGate, AuthorizationGate, Decided, available
<1>5. EvaluateGate(remaining, reserved, cash, t) = CashGate(available, cash, t)
  BY <1>4 DEF EvaluateGate
<1>6. cash # None
  BY <1>5 DEF CashGate, SettledCash, SnapshotAge, Decided
<1>7. SettledCash(cash) \in Int
  BY <1>1, <1>6 DEF SettledCash, AtLeastZero
<1>8. /\ CashGate(available, cash, t).deployable = Lesser(available, SettledCash(cash))
      /\ ~(Lesser(available, SettledCash(cash)) < MinDeployable)
  BY <1>5 DEF CashGate, Decided
<1>9. Lesser(available, SettledCash(cash)) \in Int /\ Lesser(available, SettledCash(cash)) <= available
  BY <1>3, <1>7 DEF Lesser
<1>10. MinDeployable \in Nat \ {0}
  BY GateConstants
<1>q. QED BY <1>3, <1>4, <1>5, <1>8, <1>9, <1>10

(* A purchase that follows the equity example is valid for any dollars the    *)
(* ledger has left, if they are the broker's minimum: what it reports of the  *)
(* budget and of the days is what the ledger and the calendar say, and its    *)
(* example is of the taxonomy (buy_leg_template against validate).            *)
LEMMA ExampleIsValid ==
  ASSUME NoneIsNoList, NEW ledger \in Ledgers, NEW budg \in Int, NEW usd \in Int, NEW t,
         MinEquityOrder <= usd, usd <= Remaining(ledger), Remaining(ledger) <= budg,
         NEW id, id # None, id \notin Ids
  PROVE  Valid(BuyLeg("equity", "EXISTING_POSITION", id, usd, ledger, t, {}),
               budg, ledger, Universe, t)
<1> DEFINE d == BuyLeg("equity", "EXISTING_POSITION", id, usd, ledger, t, {})
           n == Normalized(d)
<1>1. DOMAIN d = DOMAIN Unfiled
  BY DEF BuyLeg
<1>2. /\ d.id = id /\ d.decision = "BUY" /\ d.action = "buy" /\ d.side = "buy"
      /\ d.assetClass = "EQUITY" /\ d.assetType = "us_common_stock"
      /\ d.position = "EXISTING_POSITION" /\ d.classification = "PROMISING"
      /\ d.ticker = "SNDK" /\ d.exchange = "NASDAQ"
  BY DEF BuyLeg, Unfiled, Specifics
<1>3. /\ d.confidence = "MEDIUM" /\ d.horizon = 36 /\ d.amount = usd /\ d.price = 160919
      /\ d.fractional = TRUE /\ d.before = Remaining(ledger)
      /\ d.after = Remaining(ledger) - usd /\ d.days = DaysRemainingInMonth(t)
      /\ d.sessions = TradableSessionsRemaining(t)
  BY DEF BuyLeg, Unfiled, Specifics
<1>4. /\ d.average = 92656 /\ d.direction = "RAISES" /\ d.theme = "storage_memory"
      /\ d.subtheme = "nand_flash_storage" /\ d.events = {} /\ d.marks = {} /\ d.garbled = {}
      /\ d.gaps = {"hurdle", "research_package"}
  BY DEF BuyLeg, Unfiled, Specifics
<1> HIDE DEF d
<1>5. /\ DOMAIN n = DOMAIN Unfiled
      /\ \A f \in DOMAIN Unfiled : n[f] = d[f]
  <2>1. d.garbled = {} /\ d.marks = {}
    BY <1>4
  <2>q. QED BY ONLY <1>1, <2>1 DEF Normalized
<1> HIDE DEF n
<1>6. /\ n.id = id /\ n.decision = "BUY" /\ n.action = "buy" /\ n.side = "buy"
      /\ n.assetClass = "EQUITY" /\ n.assetType = "us_common_stock"
      /\ n.position = "EXISTING_POSITION" /\ n.classification = "PROMISING"
      /\ n.ticker = "SNDK" /\ n.exchange = "NASDAQ"
  BY <1>2, <1>5 DEF Unfiled
<1>7. /\ n.confidence = "MEDIUM" /\ n.horizon = 36 /\ n.amount = usd /\ n.price = 160919
      /\ n.fractional = TRUE /\ n.before = Remaining(ledger)
      /\ n.after = Remaining(ledger) - usd /\ n.days = DaysRemainingInMonth(t)
      /\ n.sessions = TradableSessionsRemaining(t)
  BY <1>3, <1>5 DEF Unfiled
<1>8. /\ n.average = 92656 /\ n.direction = "RAISES" /\ n.theme = "storage_memory"
      /\ n.subtheme = "nand_flash_storage" /\ n.events = {} /\ n.marks = {} /\ n.garbled = {}
      /\ n.gaps = {"hurdle", "research_package"}
  BY <1>4, <1>5 DEF Unfiled
<1>9. /\ MinHorizon <= 36 /\ MinEquityOrder <= 160919 /\ "SNDK" \in EquityTickers
      /\ "nand_flash_storage" \in DOMAIN ThemeOf
      /\ ThemeOf["nand_flash_storage"] = "storage_memory"
      /\ None \notin {"us_common_stock", "EQUITY", "SNDK", "storage_memory", "nand_flash_storage",
                      "PROMISING", "EXISTING_POSITION", "RAISES"}
      /\ None \notin Int /\ MinEquityOrder \in Nat \ {0} /\ MinHorizon \in Nat \ {0}
  BY ExampleConstants, NoneIsNoNumber, GuardrailConstants DEF Specifics
<1>10. PICK c, a \in Nat : c = ledger.committed /\ a = ledger.authorized
  BY DEF Ledgers
<1>11. Remaining(ledger) = a - c
  BY <1>10 DEF Remaining
<1>12. ParseViolations(d) = {}
  BY <1>4 DEF ParseViolations, When
<1>13. OwnRules(n, ledger, t) = {}
  <2>1. CheckSelfApproval(n) = {} /\ CheckProhibited(n) = {}
    BY <1>6, <1>8 DEF CheckSelfApproval, CheckProhibited, When, IsCrypto,
         ForbiddenActions, ForbiddenSides, ForbiddenTypes
  <2>2. CheckLessons(n) = {}
    BY <1>8 DEF CheckLessons, Stated, When
  <2>3. CheckEvents(n, t) = {}
    <3>1. n.events # None
      BY <1>8 DEF NoneIsNoList
    <3>q. QED BY <1>8, <3>1 DEF CheckEvents, When
  <2>4. n.id # None /\ n.id \notin ledger.acted
    BY <1>6 DEF Ledgers
  <2>q. QED BY <1>7, <2>1, <2>2, <2>3, <2>4 DEF OwnRules, When
<1>14. PlaceRules(n) = {}
  <2>1. CheckEquity(n) = {}
    <3>1. /\ ~(n.ticker = None) /\ ~(n.ticker # None /\ n.ticker \notin EquityTickers)
          /\ ~(n.exchange # None /\ n.exchange \notin MajorExchanges)
      BY <1>6, <1>9 DEF MajorExchanges
    <3>2. n.price # None /\ ~(n.price <= 0) /\ ~(n.price \in 1 .. MinEquityOrder - 1)
          /\ ~(n.fractional = FALSE)
      BY <1>7, <1>9
    <3>q. QED BY ONLY <3>1, <3>2 DEF CheckEquity, When
  <2>2. ~IsCrypto(n) /\ n.assetClass \in {"EQUITY", "ETF"}
    BY <1>6 DEF IsCrypto
  <2>q. QED BY ONLY <2>1, <2>2 DEF PlaceRules
<1>15. PurchaseRules(n) = {}
  <2>1. CheckAsset(n) = {}
    BY <1>6, <1>9 DEF CheckAsset, When, AllowedTypes, ForbiddenTypes, ClassForType
  <2>2. CheckTheme(n) = {}
    BY <1>8, <1>9 DEF CheckTheme, When, Stated
  <2>3. CheckCostBasis(n) = {}
    BY <1>7, <1>8, <1>9 DEF CheckCostBasis, When, Stated
  <2>4. Stated(n, "narrative") /\ Stated(n, "sprawl")
    BY <1>8 DEF Stated
  <2>q. QED BY <1>6, <1>7, <1>9, <2>1, <2>2, <2>3, <2>4
       DEF PurchaseRules, When, ValidClassifications, BuyableClassifications
<1>16. DollarRules(n, budg, ledger, t) = {}
  <2>1. CheckAmount(n, budg, ledger) = {}
    <3>1. n.amount \in Int /\ n.amount > 0 /\ n.amount <= budg /\ n.amount <= Remaining(ledger)
          /\ ledger.committed + n.amount <= ledger.authorized /\ MinEquityOrder <= n.amount
      BY <1>7, <1>9, <1>10, <1>11
    <3>2. n.amount \notin 1 .. MinEquityOrder - 1
      BY <1>9, <3>1
    <3>3. /\ ~(n.amount = 0) /\ ~(n.amount < 0) /\ ~(n.amount > 0 /\ n.amount > budg)
          /\ ~(n.amount > 0 /\ n.amount > Remaining(ledger))
          /\ ~(n.amount > 0 /\ ledger.committed + n.amount > ledger.authorized)
      BY <1>10, <1>11, <3>1
    <3>q. QED BY <1>8, <3>2, <3>3 DEF CheckAmount, When
  <2>2. CheckReportedBudget(n, ledger) = {}
    BY <1>7, <1>8, <1>10, <1>11 DEF CheckReportedBudget, When
  <2>3. CheckOptionality(n, ledger, t) = {}
    BY <1>7, <1>8 DEF CheckOptionality, When, Stated
  <2>q. QED BY <2>1, <2>2, <2>3 DEF DollarRules
<1>q. QED BY <1>6, <1>12, <1>13, <1>14, <1>15, <1>16, PurchaseIsJudged DEF n, d

(* When an evaluation is paid for, the least and the most it may be told to   *)
(* spend can be bought: such a purchase passes the guardrails, and fits with  *)
(* what is filled, pending and approved, for any ledger, budget, moment and   *)
(* set of approvals, if the broker lists no order the ledger has not counted  *)
(* (evaluate_gate against validate and the plan ceiling).                     *)
THEOREM GateAgrees ==
  ASSUME NoneIsNoList
  PROVE  Spec => []GateAgreesWithValidator
<1>1. Init => Few
  <2>1. Init => DOMAIN approvals = {}
    BY DEF Init
  <2>q. QED BY <2>1, FS_EmptySet DEF Few
<1>2. Few /\ [Next]_vars => Few'
  BY FewStep
<1>3. MonthInv /\ Few => GateAgreesWithValidator
  <2> DEFINE ledger == Loaded
             reserved == SiblingReservations(approvals, stage, Month, {})
             cash == [asOf |-> now, agentic |-> TRUE, cash |-> 10 * budget, unsettled |-> None]
             gate == EvaluateGate(Remaining(ledger), reserved, cash, now)
  <2> SUFFICES ASSUME MonthInv, Few, ledger # None, gate.outcome = "EVALUATE",
                      Reconciled # None, ~Reconciled.blocking,
                      Reconciled.remaining = Remaining(ledger),
                      NEW usd \in {MinEquityOrder, gate.deployable}
               PROVE  /\ PlanWithinAuthorization(Reconciled, budget, reserved, usd)
                      /\ Valid(BuyLeg("equity", "EXISTING_POSITION", "another", usd, ledger, now, {}),
                               budget, ledger, Universe, now)
    BY DEF GateAgreesWithValidator
  <2>1. /\ ledger \in Ledgers /\ ledger.committed \in Nat /\ ledger.authorized = budget
        /\ budget \in Nat
    BY LoadedLedger, LoadedAuthorizes, MonthConstants DEF MonthInv, TypeOK, Ledgers
  <2>2. Remaining(ledger) \in Int /\ Remaining(ledger) <= budget
    BY <2>1 DEF Remaining
  <2>3. reserved \in Nat
    BY ReservedIsAnAmount DEF MonthInv
  <2>4. cash.cash \in Nat /\ cash.unsettled = None
    BY <2>1
  <2>5. /\ Reconciled.filled \in Int /\ Reconciled.pending \in Int
        /\ Reconciled.filled + Reconciled.pending + Remaining(ledger) <= budget
    BY LedgerCoversOrders
  <2> HIDE DEF ledger, reserved, cash
  <2>6. /\ gate.deployable \in Int /\ MinDeployable <= gate.deployable
        /\ gate.deployable + reserved <= Remaining(ledger)
    BY <2>2, <2>3, <2>4, DeployableIsThere
  <2> HIDE DEF gate
  <2>7. /\ MinEquityOrder \in Nat /\ MinDeployable \in Nat /\ MinEquityOrder <= MinDeployable
    BY GuardrailConstants, GateConstants, GateKnowsTheMinimum
  <2>8. usd \in Int /\ MinEquityOrder <= usd /\ usd + reserved <= Remaining(ledger)
    BY <2>2, <2>3, <2>6, <2>7
  <2>9. usd <= Remaining(ledger)
    BY <2>2, <2>3, <2>8
  <2>10. PlanWithinAuthorization(Reconciled, budget, reserved, usd)
    <3>1. Reconciled.filled + Reconciled.pending + reserved + usd <= budget
      BY ONLY <2>1, <2>2, <2>3, <2>5, <2>8
    <3>q. QED BY ONLY <3>1 DEF PlanWithinAuthorization, CombinedExposure
  <2>11. Valid(BuyLeg("equity", "EXISTING_POSITION", "another", usd, ledger, now, {}),
               budget, ledger, Universe, now)
    <3>1. budget \in Int /\ "another" # None /\ "another" \notin Ids
      BY <2>1, AnotherIsNotFiled
    <3>q. QED BY <2>1, <2>2, <2>8, <2>9, <3>1, ExampleIsValid
  <2>q. QED BY <2>10, <2>11 DEF ledger, reserved
<1>q. QED BY MonthBegins, MonthStep, <1>1, <1>2, <1>3, PTL DEF Spec

(* --- two departures ------------------------------------------------------------ *)

Exempting == Allow \cap {"options", "leveraged", "inverse"}

(* A purchase that follows its template.                                      *)
Templated(b) ==
  /\ DOMAIN b = DOMAIN Unfiled /\ b.decision = "BUY"
  /\ b.events = {} /\ b.marks = {} /\ b.garbled = {} /\ b.bases = {} /\ DOMAIN b.buckets = {}
  /\ b.assetType \in AllowedTypes /\ b.assetClass = ClassForType[b.assetType]
  /\ \/ b.position = "EXISTING_POSITION" /\ "hurdle" \in b.gaps /\ "research_package" \in b.gaps
     \/ b.position = "NEW_POSITION" /\ "cost_basis" \in b.gaps

(* Every leg of a template does.                                              *)
LEMMA LegIsTemplated ==
  ASSUME NEW kind \in DOMAIN Specifics, NEW position \in {"EXISTING_POSITION", "NEW_POSITION"},
         NEW id, NEW usd, NEW ledger, NEW t
  PROVE  Templated(BuyLeg(kind, position, id, usd, ledger, t, {}))
<1> DEFINE b == BuyLeg(kind, position, id, usd, ledger, t, {})
<1>1. DOMAIN b = DOMAIN Unfiled
  BY DEF BuyLeg
<1>2. /\ b.decision = "BUY" /\ b.assetType = Specifics[kind].type
      /\ b.assetClass = Specifics[kind].class /\ b.position = position
  BY DEF BuyLeg, Unfiled
<1>3. b.events = {} /\ b.marks = {} /\ b.garbled = {}
  BY DEF BuyLeg, Unfiled
<1>4. b.bases = {} /\ b.buckets = <<>>
  BY DEF BuyLeg, Unfiled
<1>5. b.gaps = IF position = "NEW_POSITION" THEN {"cost_basis"} ELSE {"hurdle", "research_package"}
  BY DEF BuyLeg, Unfiled
<1>6. Specifics[kind].type \in AllowedTypes /\ Specifics[kind].class = ClassForType[Specifics[kind].type]
  BY DEF Specifics, AllowedTypes, ClassForType
<1> HIDE DEF b
<1>7. DOMAIN b.buckets = {}
  BY <1>4
<1>8. \/ b.position = "EXISTING_POSITION" /\ "hurdle" \in b.gaps /\ "research_package" \in b.gaps
      \/ b.position = "NEW_POSITION" /\ "cost_basis" \in b.gaps
  BY <1>2, <1>5
<1>9. Templated(b)
  BY <1>1, <1>2, <1>3, <1>4, <1>6, <1>7, <1>8 DEF Templated
<1>q. QED BY <1>9 DEF b

(* Between `b` and `e`, which departs from it in two fields, lies `d`, which  *)
(* departs in one of them. It has two fields both from one side.              *)
SameSide(b, d, e, f, g) ==
  (d[f] = b[f] /\ d[g] = b[g]) \/ (d[f] = e[f] /\ d[g] = e[g])
Between(b, d, e) ==
  /\ Templated(b) /\ DOMAIN d = DOMAIN Unfiled /\ DOMAIN e = DOMAIN Unfiled
  /\ \A f \in DOMAIN Unfiled : d[f] = b[f] \/ d[f] = e[f]
  /\ b.marks \subseteq d.marks /\ d.marks \subseteq e.marks
  /\ b.gaps \subseteq d.gaps /\ d.gaps \subseteq e.gaps
  /\ b.garbled \subseteq d.garbled /\ d.garbled \subseteq e.garbled
  /\ SameSide(b, d, e, "amount", "after")
  /\ SameSide(b, d, e, "assetClass", "assetType") /\ SameSide(b, d, e, "assetClass", "marks")
  /\ SameSide(b, d, e, "price", "amount") /\ SameSide(b, d, e, "price", "fractional")
  /\ SameSide(b, d, e, "amount", "fractional")
  /\ SameSide(b, d, e, "price", "direction") /\ SameSide(b, d, e, "price", "average")
  /\ SameSide(b, d, e, "average", "direction")
  /\ SameSide(b, d, e, "theme", "subtheme") /\ SameSide(b, d, e, "ticker", "alternative")
  /\ SameSide(b, d, e, "gaps", "amount") /\ SameSide(b, d, e, "sources", "gaps")
  /\ b.assetClass = "CRYPTO" =>
       SameSide(b, d, e, "ticker", "price") /\ SameSide(b, d, e, "ticker", "amount")
  /\ "average" \in e.garbled => SameSide(b, d, e, "garbled", "price")
  /\ Exempting # {} =>
       SameSide(b, d, e, "assetType", "gaps") /\ SameSide(b, d, e, "assetType", "research")
  /\ e.assetClass = b.assetClass \/ e.assetType = b.assetType
  /\ e.assetClass = b.assetClass \/ e.marks = b.marks
  /\ e.decision = "BUY" \/ e.bases = {} \/ DOMAIN e.buckets = {}

(* What a departure leaves alone.                                             *)
Touches(x, f) == x[1] = f \/ (x[1] = "amount" /\ f = "after")
LEMMA DepartLeaves ==
  ASSUME NEW d, DOMAIN d = DOMAIN Unfiled, NEW x
  PROVE  /\ DOMAIN Depart(d, x) = DOMAIN Unfiled
         /\ \A f \in DOMAIN Unfiled : ~Touches(x, f) => Depart(d, x)[f] = d[f]
         /\ d.marks \subseteq Depart(d, x).marks /\ d.gaps \subseteq Depart(d, x).gaps
         /\ d.garbled \subseteq Depart(d, x).garbled
<1> DEFINE e == Depart(d, x)
<1>1. "marks" \in DOMAIN d /\ "gaps" \in DOMAIN d /\ "garbled" \in DOMAIN d
  BY DEF Unfiled
<1>2. CASE x[1] \in {"marks", "gaps", "garbled"}
  <2>1. e = [d EXCEPT ![x[1]] = @ \cup {x[2]}]
    BY <1>2 DEF Depart
  <2> HIDE DEF e
  <2>q. QED BY <1>1, <1>2, <2>1 DEF Touches, e
<1>3. CASE x[1] = "amount"
  <2>1. e = [d EXCEPT !.amount = x[2], !.after = d.before - x[2]]
    BY <1>3 DEF Depart
  <2> HIDE DEF e
  <2>q. QED BY <1>1, <1>3, <2>1 DEF Touches, e
<1>4. CASE x[1] \notin {"marks", "gaps", "garbled", "amount"}
  <2>1. e = [d EXCEPT ![x[1]] = x[2]]
    BY <1>4 DEF Depart
  <2> HIDE DEF e
  <2>q. QED BY <1>1, <1>4, <2>1 DEF Touches, e
<1>q. QED BY <1>2, <1>3, <1>4

(* Departures in two fields that are not judged together give such three.     *)
LEMMA DeparturesApart ==
  ASSUME reviewed # None, Templated(reviewed.base), reviewed.x[1] # reviewed.y[1],
         {reviewed.x[1], reviewed.y[1]} \notin JudgedTogether
  PROVE  Between(reviewed.base, Depart(reviewed.base, reviewed.x), Both)
<1> DEFINE x == reviewed.x
           y == reviewed.y
           b == reviewed.base
           d == Depart(b, x)
           e == Both
<1>1. DOMAIN b = DOMAIN Unfiled
  BY DEF Templated
<1>2. /\ DOMAIN d = DOMAIN Unfiled
      /\ \A f \in DOMAIN Unfiled : ~Touches(x, f) => d[f] = b[f]
      /\ b.marks \subseteq d.marks /\ b.gaps \subseteq d.gaps /\ b.garbled \subseteq d.garbled
  BY <1>1, DepartLeaves
<1>3. e = Depart(d, y)
  BY DEF Both
<1> HIDE DEF d
<1>4. /\ DOMAIN e = DOMAIN Unfiled
      /\ \A f \in DOMAIN Unfiled : ~Touches(y, f) => e[f] = d[f]
      /\ d.marks \subseteq e.marks /\ d.gaps \subseteq e.gaps /\ d.garbled \subseteq e.garbled
  BY <1>2, <1>3, DepartLeaves
<1> HIDE DEF e, b
<1>5. ASSUME NEW f, NEW g, {f, g} \in JudgedTogether
      PROVE  ~(x[1] \in {f, g} /\ y[1] \in {f, g})
  <2>1. SUFFICES ASSUME x[1] \in {f, g}, y[1] \in {f, g} PROVE {x[1], y[1]} = {f, g}
    BY <1>5
  <2>q. QED BY <2>1
<1>6. {"amount", "after"} \in JudgedTogether
  BY DEF JudgedTogether
<1>7. ~(x[1] \in {"amount", "after"} /\ y[1] \in {"amount", "after"})
  BY <1>5, <1>6
<1>8. \A f \in DOMAIN Unfiled : d[f] = b[f] \/ d[f] = e[f]
  BY <1>2, <1>4, <1>7 DEF Touches
<1>9. SameSide(b, d, e, "amount", "after")
  <2>1. "amount" \in DOMAIN Unfiled /\ "after" \in DOMAIN Unfiled
    BY DEF Unfiled
  <2>q. QED BY <1>2, <1>4, <1>7, <2>1 DEF SameSide, Touches
<1>10. ASSUME NEW f \in DOMAIN Unfiled, NEW g \in DOMAIN Unfiled, f # "after", g # "after",
              {f, g} \in JudgedTogether
       PROVE  SameSide(b, d, e, f, g) /\ (e[f] = b[f] \/ e[g] = b[g])
  <2>1. ~(x[1] \in {f, g} /\ y[1] \in {f, g})
    BY <1>5, <1>10
  <2>2. CASE x[1] \notin {f, g}
    <3>1. d[f] = b[f] /\ d[g] = b[g]
      BY <1>2, <1>10, <2>2 DEF Touches
    <3>2. e[f] = d[f] \/ e[g] = d[g]
      <4>1. f # g
        <5>1. ASSUME f = g PROVE FALSE
          BY <1>10, <5>1 DEF JudgedTogether
        <5>q. QED BY <5>1
      <4>2. y[1] # f \/ y[1] # g
        BY <4>1
      <4>q. QED BY <1>4, <1>10, <4>2 DEF Touches
    <3>q. QED BY <3>1, <3>2 DEF SameSide
  <2>3. CASE y[1] \notin {f, g}
    <3>1. e[f] = d[f] /\ e[g] = d[g]
      BY <1>4, <1>10, <2>3 DEF Touches
    <3>2. d[f] = b[f] \/ d[g] = b[g]
      <4>1. f # g
        <5>1. ASSUME f = g PROVE FALSE
          BY <1>10, <5>1 DEF JudgedTogether
        <5>q. QED BY <5>1
      <4>2. x[1] # f \/ x[1] # g
        BY <4>1
      <4>q. QED BY <1>2, <1>10, <4>2 DEF Touches
    <3>q. QED BY <3>1, <3>2 DEF SameSide
  <2>q. QED BY <2>1, <2>2, <2>3
<1>11. /\ "amount" \in DOMAIN Unfiled /\ "assetClass" \in DOMAIN Unfiled /\ "assetType" \in DOMAIN Unfiled
       /\ "marks" \in DOMAIN Unfiled /\ "price" \in DOMAIN Unfiled /\ "fractional" \in DOMAIN Unfiled
       /\ "direction" \in DOMAIN Unfiled /\ "average" \in DOMAIN Unfiled /\ "theme" \in DOMAIN Unfiled
       /\ "subtheme" \in DOMAIN Unfiled /\ "ticker" \in DOMAIN Unfiled /\ "alternative" \in DOMAIN Unfiled
       /\ "gaps" \in DOMAIN Unfiled /\ "sources" \in DOMAIN Unfiled /\ "garbled" \in DOMAIN Unfiled
       /\ "research" \in DOMAIN Unfiled /\ "decision" \in DOMAIN Unfiled /\ "bases" \in DOMAIN Unfiled
       /\ "buckets" \in DOMAIN Unfiled
  BY DEF Unfiled
<1>12. /\ {"assetClass", "assetType"} \in JudgedTogether /\ {"assetClass", "marks"} \in JudgedTogether
       /\ {"price", "amount"} \in JudgedTogether /\ {"price", "fractional"} \in JudgedTogether
       /\ {"amount", "fractional"} \in JudgedTogether /\ {"price", "direction"} \in JudgedTogether
       /\ {"price", "average"} \in JudgedTogether /\ {"average", "direction"} \in JudgedTogether
       /\ {"theme", "subtheme"} \in JudgedTogether /\ {"ticker", "alternative"} \in JudgedTogether
       /\ {"gaps", "amount"} \in JudgedTogether /\ {"sources", "gaps"} \in JudgedTogether
  BY DEF JudgedTogether
<1>13. /\ SameSide(b, d, e, "assetClass", "assetType") /\ SameSide(b, d, e, "assetClass", "marks")
       /\ SameSide(b, d, e, "price", "amount") /\ SameSide(b, d, e, "price", "fractional")
       /\ SameSide(b, d, e, "amount", "fractional")
       /\ SameSide(b, d, e, "price", "direction") /\ SameSide(b, d, e, "price", "average")
       /\ SameSide(b, d, e, "average", "direction")
       /\ SameSide(b, d, e, "theme", "subtheme") /\ SameSide(b, d, e, "ticker", "alternative")
       /\ SameSide(b, d, e, "gaps", "amount") /\ SameSide(b, d, e, "sources", "gaps")
       /\ e["assetClass"] = b["assetClass"] \/ e["assetType"] = b["assetType"]
       /\ e["assetClass"] = b["assetClass"] \/ e["marks"] = b["marks"]
  BY <1>10, <1>11, <1>12
<1>14. b.assetClass = "CRYPTO" =>
         SameSide(b, d, e, "ticker", "price") /\ SameSide(b, d, e, "ticker", "amount")
  <2>1. b.assetClass = "CRYPTO" =>
          {"ticker", "price"} \in JudgedTogether /\ {"ticker", "amount"} \in JudgedTogether
    BY DEF JudgedTogether, b
  <2>q. QED BY <1>10, <1>11, <2>1
<1>15. "average" \in e.garbled => SameSide(b, d, e, "garbled", "price")
  <2>1. "average" \in e.garbled => {"garbled", "price"} \in JudgedTogether
    BY DEF JudgedTogether, e
  <2>q. QED BY <1>10, <1>11, <2>1
<1>16. Exempting # {} =>
         SameSide(b, d, e, "assetType", "gaps") /\ SameSide(b, d, e, "assetType", "research")
  <2>1. Exempting # {} =>
          {"assetType", "gaps"} \in JudgedTogether /\ {"assetType", "research"} \in JudgedTogether
    BY DEF JudgedTogether, Exempting
  <2>q. QED BY <1>10, <1>11, <2>1
<1>17. e.decision = "BUY" \/ e.bases = {} \/ DOMAIN e.buckets = {}
  <2>1. b.decision = "BUY" /\ b.bases = {} /\ DOMAIN b.buckets = {}
    BY DEF Templated, b
  <2>2. \/ x[1] # "decision" /\ y[1] # "decision"
        \/ x[1] # "bases" /\ y[1] # "bases"
        \/ x[1] # "buckets" /\ y[1] # "buckets"
    OBVIOUS
  <2>3. e["decision"] = b["decision"] \/ e["bases"] = b["bases"] \/ e["buckets"] = b["buckets"]
    BY <1>2, <1>4, <1>11, <2>2 DEF Touches
  <2>q. QED BY <2>1, <2>3
<1>18. Templated(b)
  BY DEF b
<1>q. QED BY <1>2, <1>4, <1>8, <1>9, <1>13, <1>14, <1>15, <1>16, <1>17, <1>18 DEF Between, b, d, e

(* What is stated, and parses, is read as it is written.                      *)
LEMMA ReadAsWritten ==
  ASSUME NEW d, DOMAIN d = DOMAIN Unfiled,
         "amount" \notin d.garbled, "price" \notin d.garbled, "horizon" \notin d.garbled,
         "is_crypto" \notin d.marks \/ d.assetClass # None
  PROVE  /\ DOMAIN Normalized(d) = DOMAIN Unfiled
         /\ \A f \in DOMAIN Unfiled : Normalized(d)[f] = d[f]
BY DEF Normalized

(* What lies between is read like its two sides, if the one that departs      *)
(* twice passes: that one is still a purchase.                                *)
LEMMA BetweenIsRead ==
  ASSUME NEW b, NEW d, NEW e, Between(b, d, e), NEW budg, NEW ledger, NEW t,
         Valid(e, budg, ledger, Universe, t)
  PROVE  /\ ParseViolations(d) = {} /\ Normalized(e).decision = "BUY"
         /\ Normalized(b).decision = "BUY" /\ Normalized(d).decision = "BUY"
         /\ Between(Normalized(b), Normalized(d), Normalized(e))
<1>1. Templated(b) /\ DOMAIN b = DOMAIN Unfiled /\ DOMAIN d = DOMAIN Unfiled /\ DOMAIN e = DOMAIN Unfiled
  BY DEF Between, Templated
<1>2. ParseViolations(e) = {}
  BY DEF Valid, Validate
<1>3. {"amount", "price", "horizon", "flag"} \cap e.garbled = {}
  BY <1>2 DEF ParseViolations, When
<1>4. d.garbled \subseteq e.garbled /\ b.garbled = {} /\ b.marks = {}
  BY DEF Between, Templated
<1>5. ParseViolations(d) = {}
  BY <1>3, <1>4 DEF ParseViolations, When
<1>6. b.assetClass # None
  BY <1>1, ExampleConstants DEF Templated, AllowedTypes, ClassForType, Specifics
<1>7. "is_crypto" \notin e.marks \/ e.assetClass # None
  BY <1>4, <1>6 DEF Between
<1>8. "is_crypto" \notin d.marks \/ d.assetClass # None
  BY <1>4, <1>6, <1>7 DEF Between, SameSide
<1> DEFINE nb == Normalized(b)
           nd == Normalized(d)
           ne == Normalized(e)
<1>9. /\ DOMAIN nb = DOMAIN Unfiled /\ \A f \in DOMAIN Unfiled : nb[f] = b[f]
      /\ DOMAIN nd = DOMAIN Unfiled /\ \A f \in DOMAIN Unfiled : nd[f] = d[f]
      /\ DOMAIN ne = DOMAIN Unfiled /\ \A f \in DOMAIN Unfiled : ne[f] = e[f]
  BY <1>1, <1>3, <1>4, <1>6, <1>7, <1>8, ReadAsWritten
<1>10. CheckWait(ne, ledger) = {} \/ ne.decision # "WAIT"
  BY DEF Valid, Validate
<1>11. ne.decision \in {"BUY", "WAIT"}
  BY DEF Valid, Validate, When
<1> HIDE DEF nb, nd, ne
<1>12. Between(nb, nd, ne)
  <2>1. /\ Templated(nb)
        /\ \A f \in DOMAIN Unfiled : nd[f] = nb[f] \/ nd[f] = ne[f]
        /\ nb.marks \subseteq nd.marks /\ nd.marks \subseteq ne.marks
        /\ nb.gaps \subseteq nd.gaps /\ nd.gaps \subseteq ne.gaps
        /\ nb.garbled \subseteq nd.garbled /\ nd.garbled \subseteq ne.garbled
    BY <1>1, <1>9 DEF Between, Templated, Unfiled
  <2>2. \A f, g \in DOMAIN Unfiled : SameSide(b, d, e, f, g) => SameSide(nb, nd, ne, f, g)
    BY <1>9 DEF SameSide
  <2>3. /\ "amount" \in DOMAIN Unfiled /\ "assetClass" \in DOMAIN Unfiled /\ "assetType" \in DOMAIN Unfiled
        /\ "marks" \in DOMAIN Unfiled /\ "price" \in DOMAIN Unfiled /\ "fractional" \in DOMAIN Unfiled
        /\ "direction" \in DOMAIN Unfiled /\ "average" \in DOMAIN Unfiled /\ "theme" \in DOMAIN Unfiled
        /\ "subtheme" \in DOMAIN Unfiled /\ "ticker" \in DOMAIN Unfiled /\ "alternative" \in DOMAIN Unfiled
        /\ "gaps" \in DOMAIN Unfiled /\ "sources" \in DOMAIN Unfiled /\ "garbled" \in DOMAIN Unfiled
        /\ "research" \in DOMAIN Unfiled /\ "decision" \in DOMAIN Unfiled /\ "bases" \in DOMAIN Unfiled
        /\ "buckets" \in DOMAIN Unfiled /\ "after" \in DOMAIN Unfiled
    BY DEF Unfiled
  <2>4. /\ nb.assetClass = b.assetClass /\ ne.assetClass = e.assetClass
        /\ nb.assetType = b.assetType /\ ne.assetType = e.assetType
        /\ nb.marks = b.marks /\ ne.marks = e.marks /\ ne.garbled = e.garbled
        /\ ne.decision = e.decision /\ ne.bases = e.bases /\ ne.buckets = e.buckets
    BY <1>9, <2>3
  <2>q. QED BY <1>9, <2>1, <2>2, <2>3, <2>4 DEF Between
<1>13. ne.decision = "BUY"
  <2>1. ne.decision = "WAIT" => ne.bases # {} /\ WaitBuckets \ DOMAIN ne.buckets = {}
    BY <1>10 DEF CheckWait, When
  <2>2. WaitBuckets # {}
    BY DEF WaitBuckets
  <2>q. QED BY <1>11, <1>12, <2>1, <2>2 DEF Between
<1>14. nb.decision = "BUY" /\ nd.decision = "BUY"
  <2>1. "decision" \in DOMAIN Unfiled
    BY DEF Unfiled
  <2>q. QED BY <1>12, <1>13, <2>1 DEF Between, Templated
<1>q. QED BY <1>5, <1>12, <1>13, <1>14 DEF nb, nd, ne

(* A purchase that passes is of a template's class, and holds or opens the    *)
(* position the template does; its type is the template's unless it is of a   *)
(* kind that `Allow` exempts.                                                 *)
LEMMA SameKind ==
  ASSUME NEW b, NEW d, NEW e, Between(b, d, e),
         PurchaseRules(e) = {}, CheckProhibited(e) = {}
  PROVE  /\ d.assetClass = b.assetClass /\ e.assetClass = b.assetClass
         /\ b.assetClass \in {"EQUITY", "ETF", "CRYPTO"}
         /\ IsCrypto(b) <=> b.assetClass = "CRYPTO"
         /\ IsCrypto(d) <=> b.assetClass = "CRYPTO"
         /\ IsCrypto(e) <=> b.assetClass = "CRYPTO"
         /\ d.position = b.position /\ e.position = b.position
         /\ e.assetType = b.assetType \/ e.assetType \notin AllowedTypes
         /\ e.assetType = b.assetType \/ Exempting # {}
<1>1. /\ b.assetType \in AllowedTypes /\ b.assetClass = ClassForType[b.assetType]
      /\ b.assetClass \in {"EQUITY", "ETF", "CRYPTO"}
      /\ b.assetType = "crypto" <=> b.assetClass = "CRYPTO"
  BY DEF Between, Templated, AllowedTypes, ClassForType
<1>2. CheckAsset(e) = {}
  BY DEF PurchaseRules
<1>3. /\ e.assetClass \in {"EQUITY", "ETF", "CRYPTO"}
      /\ e.assetType \in AllowedTypes => e.assetClass = ClassForType[e.assetType]
      /\ e.assetType \in AllowedTypes \cup DOMAIN ForbiddenTypes
  BY <1>2 DEF CheckAsset, When
<1>4. e.assetClass = b.assetClass
  BY <1>1, <1>3 DEF Between
<1>5. e.assetType = b.assetType \/ e.assetType \notin AllowedTypes
  BY <1>1, <1>3, <1>4 DEF AllowedTypes, ClassForType
<1>6. e.assetType \in DOMAIN ForbiddenTypes => Exempting # {}
  BY DEF CheckProhibited, When, ForbiddenTypes, Exempting
<1>7. "assetClass" \in DOMAIN Unfiled /\ "assetType" \in DOMAIN Unfiled /\ "position" \in DOMAIN Unfiled
  BY DEF Unfiled
<1>8. d.assetClass = b.assetClass /\ (d.assetType = b.assetType \/ d.assetType = e.assetType)
  BY <1>4, <1>7 DEF Between
<1>9. "crypto" \in AllowedTypes
  BY DEF AllowedTypes
<1>10. e.position = b.position
  <2>1. b.position \in {"EXISTING_POSITION", "NEW_POSITION"} /\ b.gaps \subseteq e.gaps
        /\ (b.position = "EXISTING_POSITION" => "hurdle" \in b.gaps)
        /\ (b.position = "NEW_POSITION" => "cost_basis" \in b.gaps)
    BY DEF Between, Templated
  <2>2. e.position \in {"EXISTING_POSITION", "NEW_POSITION"}
    BY DEF PurchaseRules, When
  <2>3. e.position = "EXISTING_POSITION" => "cost_basis" \notin e.gaps
    BY DEF PurchaseRules, CheckCostBasis, Stated
  <2>4. e.position = "NEW_POSITION" => "hurdle" \notin e.gaps
    BY DEF PurchaseRules, CheckNewPosition, Stated, When
  <2>q. QED BY <2>1, <2>2, <2>3, <2>4
<1>11. d.position = b.position
  BY <1>7, <1>10 DEF Between
<1>12. /\ IsCrypto(b) <=> b.assetClass = "CRYPTO"
       /\ IsCrypto(d) <=> b.assetClass = "CRYPTO"
       /\ IsCrypto(e) <=> b.assetClass = "CRYPTO"
  BY <1>1, <1>4, <1>5, <1>8, <1>9 DEF IsCrypto
<1>q. QED BY <1>1, <1>3, <1>4, <1>5, <1>6, <1>8, <1>10, <1>11, <1>12

(* --- what passes on both sides passes between them ------------------------------ *)

(* What is asked of any decision.                                             *)
LEMMA OwnBetween ==
  ASSUME NEW b, NEW d, NEW e, Between(b, d, e), NEW ledger, NEW t, NoneIsNoList,
         e.decision = "BUY",
         OwnRules(b, ledger, t) = {}, OwnRules(e, ledger, t) = {}, PurchaseRules(e) = {}
  PROVE  OwnRules(d, ledger, t) = {}
<1>1. /\ CheckSelfApproval(b) = {} /\ CheckProhibited(b) = {} /\ CheckLessons(b) = {}
      /\ CheckEvents(b, t) = {} /\ b.id # None /\ b.id \notin ledger.acted
      /\ b.confidence \in {"LOW", "MEDIUM", "HIGH", None}
  BY DEF OwnRules, When
<1>2. /\ CheckSelfApproval(e) = {} /\ CheckProhibited(e) = {} /\ CheckLessons(e) = {}
      /\ CheckEvents(e, t) = {} /\ e.id # None /\ e.id \notin ledger.acted
      /\ e.confidence \in {"LOW", "MEDIUM", "HIGH", None}
  BY DEF OwnRules, When
<1>3. /\ IsCrypto(b) <=> b.assetClass = "CRYPTO"
      /\ IsCrypto(d) <=> b.assetClass = "CRYPTO"
      /\ IsCrypto(e) <=> b.assetClass = "CRYPTO"
      /\ e.position = b.position
      /\ e.assetType = b.assetType \/ e.assetType \notin AllowedTypes
  BY <1>2, SameKind
<1>4. /\ d.id = b.id \/ d.id = e.id
      /\ d.confidence = b.confidence \/ d.confidence = e.confidence
      /\ d.action = b.action \/ d.action = e.action
      /\ d.side = b.side \/ d.side = e.side
      /\ d.decision = b.decision \/ d.decision = e.decision
      /\ d.assetType = b.assetType \/ d.assetType = e.assetType
      /\ d.research = b.research \/ d.research = e.research
      /\ d.events = b.events \/ d.events = e.events
  BY DEF Between, Unfiled
<1>5. b.marks \subseteq d.marks /\ d.marks \subseteq e.marks /\ b.gaps \subseteq d.gaps /\ d.gaps \subseteq e.gaps
  BY DEF Between
<1>6. CheckSelfApproval(d) = {}
  BY <1>2, <1>5 DEF CheckSelfApproval, When
<1>7. CheckProhibited(d) = {}
  BY <1>1, <1>2, <1>3, <1>4, <1>5 DEF CheckProhibited, When
<1>8. CheckLessons(d) = {}
  <2>1. d.marks \cap {"lesson_field", "overreach"} = {}
    BY <1>2, <1>5 DEF CheckLessons, When
  <2>2. CASE e.assetType = b.assetType
    <3>1. "research_package" \in b.gaps \/ "research_package" \notin e.gaps
      <4>1. CASE b.position = "EXISTING_POSITION"
        BY <4>1 DEF Between, Templated
      <4>2. CASE b.position = "NEW_POSITION"
        <5>1. CheckResearch(e) = {} /\ e.assetType \in AllowedTypes
          BY <1>3, <2>2, <4>2 DEF PurchaseRules, Between, Templated
        <5>q. QED BY <5>1 DEF CheckResearch, Stated
      <4>q. QED BY <4>1, <4>2 DEF Between, Templated
    <3>q. QED BY <1>1, <1>2, <1>4, <1>5, <2>1, <3>1 DEF CheckLessons, When, Stated
  <2>3. CASE e.assetType # b.assetType
    <3>1. Exempting # {}
      BY <1>2, <2>3, SameKind
    <3>2. \/ d.gaps = b.gaps /\ d.research = b.research
          \/ d.gaps = e.gaps /\ d.research = e.research
      BY <1>4, <2>3, <3>1 DEF Between, SameSide
    <3>q. QED BY <1>1, <1>2, <2>1, <3>2 DEF CheckLessons, When, Stated
  <2>q. QED BY <2>2, <2>3
<1>9. CheckEvents(d, t) = {}
  <2>1. b.events = {} /\ None # {}
    BY DEF Between, Templated, NoneIsNoList
  <2>4. d.decision = "BUY"
    BY <1>4 DEF Between, Templated
  <2>5. d.garbled \cap {"event_list", "event"} = {} /\ e.garbled \cap {"event_list", "event"} = {}
    <3>1. e.garbled \cap {"event_list", "event"} = {}
      BY <1>2 DEF CheckEvents, When
    <3>2. d.garbled \subseteq e.garbled
      BY DEF Between
    <3>q. QED BY <3>1, <3>2
  <2>2. CASE d.events = b.events
    BY <2>1, <2>2, <2>5 DEF CheckEvents, When
  <2>3. CASE d.events = e.events
    <3>1. /\ e.events = None => d.events = None
          /\ Stated(e, "expiry_acknowledged") => Stated(d, "expiry_acknowledged")
      BY <1>5, <2>3 DEF Stated
    <3>2. CASE e.events = None
      BY <2>4, <2>5, <3>1, <3>2 DEF CheckEvents, When
    <3>3. CASE e.events # None
      <4>1. /\ UNION {EventViolations(x, t) : x \in e.events} = {}
            /\ (\E x \in e.events : JudgedEvent(x) /\ ~InReach(x, t))
                 => Stated(e, "expiry_acknowledged")
        BY <1>2, <2>5, <3>3 DEF CheckEvents, When
      <4>q. QED BY <2>3, <2>5, <3>1, <3>3, <4>1 DEF CheckEvents, When
    <3>q. QED BY <3>2, <3>3
  <2>q. QED BY <1>4, <2>2, <2>3
<1>q. QED BY <1>1, <1>2, <1>4, <1>6, <1>7, <1>8, <1>9 DEF OwnRules, When

(* What is asked of where it is traded.                                       *)
LEMMA PlaceBetween ==
  ASSUME NEW b, NEW d, NEW e, Between(b, d, e),
         PlaceRules(b) = {}, PlaceRules(e) = {}, PurchaseRules(e) = {}, CheckProhibited(e) = {}
  PROVE  PlaceRules(d) = {}
<1>1. /\ IsCrypto(b) <=> b.assetClass = "CRYPTO"
      /\ IsCrypto(d) <=> b.assetClass = "CRYPTO"
      /\ IsCrypto(e) <=> b.assetClass = "CRYPTO"
      /\ b.assetClass \in {"EQUITY", "ETF", "CRYPTO"}
      /\ d.assetClass = b.assetClass /\ e.assetClass = b.assetClass
  BY SameKind
<1>2. /\ d.ticker = b.ticker \/ d.ticker = e.ticker
      /\ d.exchange = b.exchange \/ d.exchange = e.exchange
      /\ d.price = b.price \/ d.price = e.price
      /\ d.amount = b.amount \/ d.amount = e.amount
      /\ d.fractional = b.fractional \/ d.fractional = e.fractional
  BY DEF Between, Unfiled
<1>3. /\ SameSide(b, d, e, "price", "amount") /\ SameSide(b, d, e, "price", "fractional")
      /\ SameSide(b, d, e, "amount", "fractional")
      /\ b.assetClass = "CRYPTO" =>
           SameSide(b, d, e, "ticker", "price") /\ SameSide(b, d, e, "ticker", "amount")
  BY DEF Between
<1>4. CASE b.assetClass = "CRYPTO"
  <2>1. CheckCrypto(b, Universe) = {} /\ CheckCrypto(e, Universe) = {}
    BY <1>1, <1>4 DEF PlaceRules
  <2>2. \A x : CheckCrypto(x, Universe) = {} <=>
               /\ "crypto" \in Allow /\ x.ticker # None /\ x.ticker \in PairSymbols
               /\ Universe # None /\ x.ticker \in DOMAIN Universe
               /\ PairRules(x, Universe[x.ticker]) = {}
    BY DEF CheckCrypto
  <2>3. \/ d.ticker = b.ticker /\ d.price = b.price /\ d.amount = b.amount
        \/ d.ticker = e.ticker /\ d.price = e.price /\ d.amount = e.amount
    BY <1>3, <1>4 DEF SameSide
  <2>4. PairRules(d, Universe[d.ticker]) = {}
    BY <1>2, <2>1, <2>2, <2>3 DEF PairRules, When
  <2>5. CheckCrypto(d, Universe) = {}
    BY <2>1, <2>2, <2>3, <2>4
  <2>q. QED BY <1>1, <1>4, <2>5 DEF PlaceRules
<1>5. CASE b.assetClass # "CRYPTO"
  <2>1. CheckEquity(b) = {} /\ CheckEquity(e) = {}
    BY <1>1, <1>5 DEF PlaceRules
  <2>2. \/ d.price = b.price /\ d.amount = b.amount /\ d.fractional = b.fractional
        \/ d.price = e.price /\ d.amount = e.amount /\ d.fractional = e.fractional
    BY <1>3 DEF SameSide
  <2>3. CheckEquity(d) = {}
    BY <1>2, <2>1, <2>2 DEF CheckEquity, When
  <2>q. QED BY <1>1, <1>5, <2>3 DEF PlaceRules
<1>q. QED BY <1>4, <1>5

(* What is asked of it as a purchase.                                         *)
LEMMA PurchaseBetween ==
  ASSUME NEW b, NEW d, NEW e, Between(b, d, e),
         PurchaseRules(b) = {}, PurchaseRules(e) = {}, CheckProhibited(e) = {}
  PROVE  PurchaseRules(d) = {}
<1>1. /\ IsCrypto(b) <=> b.assetClass = "CRYPTO"
      /\ IsCrypto(d) <=> b.assetClass = "CRYPTO"
      /\ IsCrypto(e) <=> b.assetClass = "CRYPTO"
      /\ d.assetClass = b.assetClass /\ e.assetClass = b.assetClass
      /\ d.position = b.position /\ e.position = b.position
      /\ e.assetType = b.assetType \/ e.assetType \notin AllowedTypes
      /\ e.assetType = b.assetType \/ Exempting # {}
  BY SameKind
<1>2. /\ d.side = b.side \/ d.side = e.side
      /\ d.action = b.action \/ d.action = e.action
      /\ d.assetType = b.assetType \/ d.assetType = e.assetType
      /\ d.horizon = b.horizon \/ d.horizon = e.horizon
      /\ d.classification = b.classification \/ d.classification = e.classification
  BY DEF Between, Unfiled
<1>3. /\ d.average = b.average \/ d.average = e.average
      /\ d.direction = b.direction \/ d.direction = e.direction
      /\ d.theme = b.theme \/ d.theme = e.theme
      /\ d.subtheme = b.subtheme \/ d.subtheme = e.subtheme
      /\ d.alternative = b.alternative \/ d.alternative = e.alternative
      /\ d.research = b.research \/ d.research = e.research
      /\ d.sources = b.sources \/ d.sources = e.sources
      /\ d.price = b.price \/ d.price = e.price
  BY DEF Between, Unfiled
<1>4. b.gaps \subseteq d.gaps /\ d.gaps \subseteq e.gaps
      /\ d.garbled \subseteq e.garbled /\ b.garbled = {}
  BY DEF Between, Templated
<1>5. CheckAsset(d) = {}
  <2>1. CheckAsset(b) = {} /\ CheckAsset(e) = {}
    BY DEF PurchaseRules
  <2>q. QED BY <1>1, <1>2, <2>1 DEF CheckAsset, When
<1>6. CheckTheme(d) = {}
  <2>1. CheckTheme(b) = {} /\ CheckTheme(e) = {}
    BY DEF PurchaseRules
  <2>2. SameSide(b, d, e, "theme", "subtheme")
    BY DEF Between
  <2>3. Stated(e, "theme") /\ Stated(e, "scope_caveat")
    BY <2>1 DEF CheckTheme, When
  <2>4. Stated(b, "theme") /\ Stated(d, "theme") /\ Stated(d, "scope_caveat") /\ Stated(b, "scope_caveat")
    BY <1>4, <2>3 DEF Stated
  <2>5. \/ d.theme = b.theme /\ d.subtheme = b.subtheme
        \/ d.theme = e.theme /\ d.subtheme = e.subtheme
    BY <2>2 DEF SameSide
  <2>q. QED BY ONLY <2>1, <2>3, <2>4, <2>5 DEF CheckTheme, When
<1>7. d.position = "EXISTING_POSITION" => CheckCostBasis(d) = {}
  <2> SUFFICES ASSUME d.position = "EXISTING_POSITION" PROVE CheckCostBasis(d) = {}
    OBVIOUS
  <2>1. CheckCostBasis(b) = {} /\ CheckCostBasis(e) = {}
    BY <1>1 DEF PurchaseRules
  <2>2. Stated(b, "cost_basis") /\ Stated(d, "cost_basis") /\ Stated(e, "cost_basis")
    BY <1>4, <2>1 DEF CheckCostBasis, Stated
  <2>3. \/ d.price = b.price /\ d.average = b.average /\ d.direction = b.direction
        \/ d.price = e.price /\ d.average = e.average /\ d.direction = e.direction
    BY DEF Between, SameSide
  <2>4. /\ b.average # None /\ b.direction # None /\ e.average # None /\ e.direction # None
        /\ b.direction \in {"RAISES", "LOWERS", "NEUTRAL", None}
        /\ e.direction \in {"RAISES", "LOWERS", "NEUTRAL", None}
    BY <2>1, <2>2 DEF CheckCostBasis, When
  <2>5. \A x : /\ Stated(x, "cost_basis") /\ x.average # None /\ x.direction # None
               /\ x.direction \in {"RAISES", "LOWERS", "NEUTRAL", None}
               => (CheckCostBasis(x) = {} <=>
                    \/ x.price = None
                    \/ /\ "average" \notin x.garbled /\ ~(x.average <= 0)
                       /\ LET expected == IF x.price > x.average THEN "RAISES"
                                          ELSE IF x.price < x.average THEN "LOWERS" ELSE "NEUTRAL"
                          IN x.direction \in {expected, None})
    BY DEF CheckCostBasis, When
  <2>6. "average" \in d.garbled => d.price = None
    <3> SUFFICES ASSUME "average" \in d.garbled PROVE d.price = None
      OBVIOUS
    <3>1. "average" \in e.garbled /\ d.garbled # b.garbled
      BY <1>4
    <3>2. d.price = e.price
      BY <3>1 DEF Between, SameSide
    <3>3. e.price = None
      BY <2>1, <2>2, <2>4, <2>5, <3>1
    <3>q. QED BY <3>2, <3>3
  <2>q. QED BY <2>1, <2>2, <2>3, <2>4, <2>5, <2>6
<1>8. d.position = "NEW_POSITION" =>
        CheckNewPosition(d) = {} /\ CheckResearch(d) = {} /\ CheckPrimarySources(d) = {}
  <2> SUFFICES ASSUME d.position = "NEW_POSITION"
               PROVE  CheckNewPosition(d) = {} /\ CheckResearch(d) = {} /\ CheckPrimarySources(d) = {}
    OBVIOUS
  <2>1. /\ CheckNewPosition(b) = {} /\ CheckResearch(b) = {} /\ CheckPrimarySources(b) = {}
        /\ CheckNewPosition(e) = {} /\ CheckResearch(e) = {} /\ CheckPrimarySources(e) = {}
    BY <1>1 DEF PurchaseRules
  <2>2. CheckNewPosition(d) = {}
    <3>1. \/ d.ticker = b.ticker /\ d.alternative = b.alternative
          \/ d.ticker = e.ticker /\ d.alternative = e.alternative
      BY DEF Between, SameSide
    <3>q. QED BY <1>4, <2>1, <3>1 DEF CheckNewPosition, When, Stated
  <2>3. CheckPrimarySources(d) = {}
    <3>1. \/ d.sources = b.sources /\ d.gaps = b.gaps
          \/ d.sources = e.sources /\ d.gaps = e.gaps
      BY DEF Between, SameSide
    <3>q. QED BY <2>1, <3>1 DEF CheckPrimarySources, When
  <2>4. CheckResearch(d) = {}
    <3>1. CASE e.assetType = b.assetType
      <4>1. d.assetType = b.assetType /\ b.assetType \in AllowedTypes
        BY <1>2, <3>1 DEF Between, Templated
      <4>2. "research_package" \notin e.gaps
        BY <2>1, <3>1, <4>1 DEF CheckResearch, Stated
      <4>3. Stated(b, "research_package") /\ Stated(d, "research_package") /\ Stated(e, "research_package")
        BY <1>4, <4>2 DEF Stated
      <4>q. QED BY <1>1, <1>3, <2>1, <3>1, <4>1, <4>3 DEF CheckResearch
    <3>2. CASE e.assetType # b.assetType
      <4>1. Exempting # {}
        BY <1>1, <3>2
      <4>2. \/ d.assetType = b.assetType /\ d.gaps = b.gaps /\ d.research = b.research
            \/ d.assetType = e.assetType /\ d.gaps = e.gaps /\ d.research = e.research
        BY <1>2, <3>2, <4>1 DEF Between, SameSide
      <4>q. QED BY <1>1, <2>1, <4>2 DEF CheckResearch, Stated
    <3>q. QED BY <3>1, <3>2
  <2>q. QED BY <2>2, <2>3, <2>4
<1>9. Stated(d, "narrative") /\ Stated(d, "sprawl")
  <2>1. Stated(e, "narrative") /\ Stated(e, "sprawl")
    BY DEF PurchaseRules, When
  <2>q. QED BY <1>4, <2>1 DEF Stated
<1>10. \A x \in {b, e} :
         /\ x.side = "buy" /\ x.action \in {"buy", None}
         /\ x.horizon # None /\ x.classification # None /\ ~(x.horizon < MinHorizon)
         /\ x.classification \in ValidClassifications \cup {None}
         /\ x.classification \notin ValidClassifications \ BuyableClassifications
         /\ x.position # None /\ x.position \in {"EXISTING_POSITION", "NEW_POSITION", None}
  BY DEF PurchaseRules, When
<1>11. /\ d.side = "buy" /\ d.action \in {"buy", None}
       /\ d.horizon # None /\ d.classification # None /\ ~(d.horizon < MinHorizon)
       /\ d.classification \in ValidClassifications \cup {None}
       /\ d.classification \notin ValidClassifications \ BuyableClassifications
       /\ d.position # None /\ d.position \in {"EXISTING_POSITION", "NEW_POSITION", None}
  BY <1>1, <1>2, <1>10
<1>q. QED BY ONLY <1>5, <1>6, <1>7, <1>8, <1>9, <1>11 DEF PurchaseRules, When

(* What is asked of its dollars.                                              *)
LEMMA DollarsBetween ==
  ASSUME NEW b, NEW d, NEW e, Between(b, d, e), NEW budg, NEW ledger, NEW t,
         DollarRules(b, budg, ledger, t) = {}, DollarRules(e, budg, ledger, t) = {},
         PurchaseRules(e) = {}, CheckProhibited(e) = {}
  PROVE  DollarRules(d, budg, ledger, t) = {}
<1>1. /\ IsCrypto(d) = IsCrypto(b) /\ IsCrypto(e) = IsCrypto(b)
  <2>1. /\ IsCrypto(b) <=> b.assetClass = "CRYPTO"
        /\ IsCrypto(d) <=> b.assetClass = "CRYPTO"
        /\ IsCrypto(e) <=> b.assetClass = "CRYPTO"
    BY SameKind
  <2>q. QED BY <2>1 DEF IsCrypto
<1>2. /\ d.amount = b.amount \/ d.amount = e.amount
      /\ d.before = b.before \/ d.before = e.before
      /\ d.days = b.days \/ d.days = e.days
      /\ d.sessions = b.sessions \/ d.sessions = e.sessions
  BY DEF Between, Unfiled
<1>3. d.gaps \subseteq e.gaps /\ b.gaps \subseteq e.gaps /\ d.garbled \subseteq e.garbled
      /\ b.garbled = {} /\ d.marks \subseteq e.marks
  BY DEF Between, Templated
<1>4. CheckAmount(d, budg, ledger) = {}
  <2>1. CheckAmount(b, budg, ledger) = {} /\ CheckAmount(e, budg, ledger) = {}
    BY DEF DollarRules
  <2>q. QED BY ONLY <1>1, <1>2, <1>3, <2>1 DEF CheckAmount, When
<1>5. CheckReportedBudget(d, ledger) = {}
  <2>1. CheckReportedBudget(b, ledger) = {} /\ CheckReportedBudget(e, ledger) = {}
    BY DEF DollarRules
  <2>2. \/ d.amount = b.amount /\ d.after = b.after
        \/ d.amount = e.amount /\ d.after = e.after
    BY DEF Between, SameSide
  <2>3. "before" \notin e.garbled /\ "after" \notin e.garbled
    BY <2>1 DEF CheckReportedBudget
  <2>4. \A x : "before" \notin x.garbled /\ "after" \notin x.garbled =>
          (CheckReportedBudget(x, ledger) = {} <=>
            /\ x.before = None \/ x.before = Remaining(ledger)
            /\ x.after = None \/ (x.after = Remaining(ledger) - x.amount /\ ~(x.after < 0)))
    BY DEF CheckReportedBudget, When
  <2>q. QED BY ONLY <1>2, <1>3, <2>1, <2>2, <2>3, <2>4
<1>6. CheckOptionality(d, ledger, t) = {}
  <2>1. CheckOptionality(b, ledger, t) = {} /\ CheckOptionality(e, ledger, t) = {}
    BY DEF DollarRules
  <2>2. \/ d.amount = b.amount /\ d.gaps = b.gaps
        \/ d.amount = e.amount /\ d.gaps = e.gaps
    BY DEF Between, SameSide
  <2>3. "optionality" \notin e.gaps
    BY <2>1 DEF CheckOptionality, When, Stated
  <2>4. \A x : "optionality" \notin x.gaps =>
          (CheckOptionality(x, ledger, t) = {} <=>
            /\ x.days = None \/ x.days = DaysRemainingInMonth(t)
            /\ x.sessions = None \/ x.sessions = TradableSessionsRemaining(t)
            /\ ~(/\ x.amount > 0
                 /\ ledger.committed + x.amount > HalfOf(ledger.authorized)
                 /\ DayOf(UtcDate(t)) < MidMonthDay
                 /\ "optionality_analysis" \in x.gaps))
    BY DEF CheckOptionality, When, Stated
  <2>q. QED BY ONLY <1>2, <1>3, <2>1, <2>2, <2>3, <2>4
<1>q. QED BY <1>4, <1>5, <1>6 DEF DollarRules

(* So what passes without departures, and passes with two in fields that are  *)
(* not judged together, passes with the first.                                *)
LEMMA BetweenPasses ==
  ASSUME NEW b, NEW d, NEW e, Between(b, d, e), NEW budg, NEW ledger, NEW t, NoneIsNoList,
         Valid(b, budg, ledger, Universe, t), Valid(e, budg, ledger, Universe, t)
  PROVE  Valid(d, budg, ledger, Universe, t)
<1> DEFINE nb == Normalized(b)
           nd == Normalized(d)
           ne == Normalized(e)
<1>1. /\ ParseViolations(d) = {} /\ ne.decision = "BUY" /\ nb.decision = "BUY" /\ nd.decision = "BUY"
      /\ Between(nb, nd, ne)
  BY BetweenIsRead
<1>2. /\ OwnRules(nb, ledger, t) = {} /\ PlaceRules(nb) = {} /\ PurchaseRules(nb) = {}
      /\ DollarRules(nb, budg, ledger, t) = {}
  BY <1>1, PurchaseIsJudged
<1>3. /\ OwnRules(ne, ledger, t) = {} /\ PlaceRules(ne) = {} /\ PurchaseRules(ne) = {}
      /\ DollarRules(ne, budg, ledger, t) = {}
  BY <1>1, PurchaseIsJudged
<1> HIDE DEF nb, nd, ne
<1>4. CheckProhibited(ne) = {}
  BY <1>3 DEF OwnRules
<1>5. OwnRules(nd, ledger, t) = {}
  BY <1>1, <1>2, <1>3, OwnBetween
<1>6. PlaceRules(nd) = {}
  BY <1>1, <1>2, <1>3, <1>4, PlaceBetween
<1>7. PurchaseRules(nd) = {}
  BY <1>1, <1>2, <1>3, <1>4, PurchaseBetween
<1>8. DollarRules(nd, budg, ledger, t) = {}
  BY <1>1, <1>2, <1>3, <1>4, DollarsBetween
<1>q. QED BY <1>1, <1>5, <1>6, <1>7, <1>8, PurchaseIsJudged DEF nd

(* What is put up for review follows its template. *)
ByTemplate == reviewed # None => Templated(reviewed.base)
LEMMA ByTemplateStep ==
  ASSUME ByTemplate, [Next]_vars
  PROVE  ByTemplate'
<1>1. CASE Review
  <2>1. PICK id \in Ids, position \in {"EXISTING_POSITION", "NEW_POSITION"},
             pair \in (EventFaults \X EventFaults) \cup (Faults \X Faults) :
          reviewed' = [base |-> BuyLeg(Asset[id].kind, position, id, ReviewedUsd, Loaded, now, {}),
                       x |-> pair[1], y |-> pair[2]]
    BY <1>1 DEF Review
  <2> DEFINE base == BuyLeg(Asset[id].kind, position, id, ReviewedUsd, Loaded, now, {})
  <2>2. Templated(base)
    <3>1. Asset[id].kind \in DOMAIN Specifics
      BY MonthConstants
    <3>q. QED BY <3>1, LegIsTemplated
  <2> HIDE DEF base
  <2>3. reviewed'.base = base
    BY <2>1 DEF base
  <2>4. Templated(reviewed'.base)
    BY <2>2, <2>3
  <2>5. ByTemplate' <=> (reviewed' # None => Templated(reviewed'.base))
    BY DEF ByTemplate, Templated
  <2>q. QED BY <2>4, <2>5
<1>2. CASE UNCHANGED reviewed
  BY <1>2 DEF ByTemplate, Templated
<1>3. CASE Dismiss
  BY <1>3 DEF Dismiss, ByTemplate
<1>q. QED BY <1>1, <1>2, <1>3 DEF Next, vars, Tick, EditBudget, TradeByHand, OrderMoves, Draft,
       Approve, Buy, Settle, FinishCommit, InitLedger

(* Two fields are not one. *)
LEMMA TwoFields ==
  ASSUME NEW f, NEW g, Cardinality({f, g}) = 2
  PROVE  f # g
<1> SUFFICES ASSUME f = g PROVE FALSE
  OBVIOUS
<1>1. {f, g} = {f}
  OBVIOUS
<1>2. Cardinality({f}) = 1
  BY FS_Singleton
<1>q. QED BY <1>1, <1>2

(* Whatever the departures that are tried on a purchase, two that concern     *)
(* fields not judged against each other never make up for each other: where   *)
(* the purchase passes as it stands and with both, it passes with the first    *)
(* alone, and either is put up as the first (validate, with its early returns *)
(* and fallbacks).                                                            *)
THEOREM RefusalsStand == ASSUME NoneIsNoList PROVE Spec => []RefusalsCompose
<1>1. Init => ByTemplate
  BY DEF Init, ByTemplate
<1>2. ByTemplate /\ [Next]_vars => ByTemplate'
  BY ByTemplateStep
<1>3. ByTemplate => RefusalsCompose
  <2> DEFINE d == Depart(reviewed.base, reviewed.x)
             fields == {reviewed.x[1], reviewed.y[1]}
  <2> SUFFICES ASSUME ByTemplate, reviewed # None, Cardinality(fields) = 2, fields \notin JudgedTogether,
                      Verdict(reviewed.base), Verdict(Both)
               PROVE  Verdict(d)
    BY DEF RefusalsCompose
  <2>1. reviewed.x[1] # reviewed.y[1]
    BY TwoFields
  <2>2. Between(reviewed.base, d, Both)
    BY <2>1, DeparturesApart DEF ByTemplate
  <2> HIDE DEF d
  <2>3. Valid(d, budget, Loaded, Universe, now)
    BY <2>2, BetweenPasses DEF Verdict
  <2>q. QED BY <2>3 DEF Verdict
<1>q. QED BY <1>1, <1>2, <1>3, PTL DEF Spec
=============================================================================
