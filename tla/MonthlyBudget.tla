--------------------------- MODULE MonthlyBudget ---------------------------
(* The month's authorization: the local ledger (src/state.py) and its         *)
(* reconciliation with the broker's orders (src/reconciliation.py). A ledger  *)
(* is None, missing or unreadable, or [month, authorized, committed, acted].  *)
EXTENDS MarketCalendar, Money

(* --- the ledger ----------------------------------------------------------- *)

(* Mutant: the decisions acted on forgotten with the month. *)
FreshStateForgetful(month, budget, acted) ==
  [month |-> month, authorized |-> budget, committed |-> 0, acted |-> {}]
FreshState(month, budget, acted) ==
  [month |-> month, authorized |-> budget, committed |-> 0, acted |-> acted]

(* A file that claims more than the configured budget is refused, the same as *)
(* one that is inconsistent. *)
ParseBudgetState(disk, budget) ==
  IF disk = None THEN None
  ELSE IF disk.committed > disk.authorized \/ disk.authorized > budget THEN None ELSE disk

(* Mutant: a month's rollover that keeps what was spent. *)
RolledOverKeepingSpending(disk, budget, month) ==
  [disk EXCEPT !.month = month, !.authorized = budget]
RolledOver(disk, budget, month) == FreshState(month, budget, disk.acted)

(* The rollover happens in memory; the next save writes it.                   *)
LoadBudgetState(disk, budget, now) ==
  LET month == ProjectMonth(now)
      parsed == ParseBudgetState(disk, budget)
  IN IF parsed = None THEN None
     ELSE IF parsed.month > month THEN None
     ELSE IF parsed.month < month THEN RolledOver(parsed, budget, month)
     ELSE [parsed EXCEPT !.authorized = budget]

(* Mutant: the ceiling is preflight's business. *)
MayCommitPastTheBudget(ledger, id, usd) == id \notin ledger.acted /\ usd > 0
MayCommit(ledger, id, usd) ==
  /\ id \notin ledger.acted
  /\ usd > 0
  /\ ledger.committed + usd <= ledger.authorized
CommitPurchase(ledger, id, usd) ==
  [month |-> ledger.month, authorized |-> ledger.authorized,
   committed |-> ledger.committed + usd, acted |-> ledger.acted \cup {id}]

(* check_status.py --init: only where there is no file, unless it is forced.  *)
MayInit(disk, force) == disk = None \/ force

(* --- orders --------------------------------------------------------------- *)

(* An order is [id, stamp, side, class, state, requested, executed], its      *)
(* stamp UTC, its state "open", "filled", "dead", or one not known. None is a *)
(* list that could not be read.                                               *)
KnownStates == {"open", "filled", "dead"}

(* Mutant: an open order counts what has filled so far. *)
ExecutedOnly(order) == order.executed
CommittedUsd(order) ==
  IF order.state = "open" /\ order.requested > order.executed
  THEN order.requested ELSE order.executed

OrderMonth(order) == YearMonth(UtcDate(order.stamp))

Readable(orders) == orders # None /\ \A o \in orders : o.state \in KnownStates

UsdOf(orders) == SumOver([o \in orders |-> CommittedUsd(o)], orders)

(* Nothing, when the broker's data cannot be trusted. Crypto orders that were *)
(* not supplied are none at all. *)
Reconcile(budget, ledger, equityOrders, cryptoOrders, now) ==
  LET month == ProjectMonth(now)
      crypto == IF cryptoOrders = None THEN {} ELSE cryptoOrders
      orders == equityOrders \cup crypto
      thisMonth == {o \in orders : OrderMonth(o) = month}
      buys == {o \in thisMonth : o.side \in {"buy", None}}
      sells == {o \in thisMonth \ buys : o.state # "dead"}
      broker == UsdOf(buys)
      local == IF ledger.month = month THEN ledger.committed ELSE 0
      reconciled == IF broker > local THEN broker ELSE local
  IN IF ~Readable(equityOrders) \/ ~Readable(crypto) THEN None
     ELSE [month |-> month,
           filled |-> UsdOf({o \in buys : o.state # "open"}),
           pending |-> UsdOf({o \in buys : o.state = "open"}),
           remaining |-> AtLeastZero(budget - reconciled),
           blocking |-> \/ \E o, p \in orders : o # p /\ o.id = p.id
                        \/ sells # {}
                        \/ reconciled > budget]

MaxAdditional(reconciliation) ==
  IF reconciliation.blocking THEN 0 ELSE reconciliation.remaining

WithinAuthorization(reconciliation, usd) ==
  /\ ~reconciliation.blocking
  /\ usd > 0 /\ usd <= MaxAdditional(reconciliation)
=============================================================================
