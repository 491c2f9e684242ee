---------------------------- MODULE CapitalGate ----------------------------
(* src/capital_gate.py and scripts/check_capital_gate.py: whether a scheduled *)
(* evaluation is worth paying for. Pure operators over what the caller read.  *)
(* Money and time are integers; None is "absent or unreadable".               *)
EXTENDS Money

CONSTANTS
  MinDeployable,      \* MIN_DEPLOYABLE_USD
  MaxSnapshotAge,     \* MAX_SNAPSHOT_AGE_SECONDS, in the clock's unit
  ClockSkew           \* the minute by which an as_of may lie in the future

ASSUME GateConstants ==
  /\ MinDeployable \in Nat \ {0}
  /\ MaxSnapshotAge \in Nat
  /\ ClockSkew \in Nat

(* A snapshot is None or a record [asOf, agentic, cash, unsettled]; each of   *)
(* asOf, cash, unsettled may be None. Buying power is never read.             *)
SettledCash(snapshot) ==
  IF snapshot = None THEN None
  ELSE IF snapshot.cash = None THEN None
  ELSE LET unsettled == IF snapshot.unsettled = None THEN 0
                        ELSE AtLeastZero(snapshot.unsettled)
       IN AtLeastZero(snapshot.cash - unsettled)

SnapshotAge(snapshot, now) ==
  IF snapshot = None THEN None
  ELSE IF snapshot.asOf = None THEN None ELSE now - snapshot.asOf

(* What refresh_broker_snapshot.sh demands of the file it finds after its     *)
(* subprocess: written since the invocation began (mtime), dated within the   *)
(* limit and not in the future, of the right account, with a cash figure.     *)
RefreshUsable(snapshot, mtime, started, now) ==
  /\ snapshot # None
  /\ mtime >= started
  /\ SnapshotAge(snapshot, now) # None
  /\ SnapshotAge(snapshot, now) \in -ClockSkew .. MaxSnapshotAge
  /\ snapshot.agentic
  /\ SettledCash(snapshot) # None

Decided(outcome, available, cash, deployable, shortfall) ==
  [outcome |-> outcome, available |-> available, cash |-> cash,
   deployable |-> deployable, shortfall |-> shortfall]

(* Mutant: what approved legs will take is not looked at. *)
AvailableUnreserved(remaining, reserved) == AtLeastZero(remaining)

(* Dollars of the month not yet spoken for. A reservations figure that cannot *)
(* be parsed counts as zero.                                                  *)
Available(remaining, reserved) ==
  AtLeastZero(remaining - (IF reserved = None THEN 0 ELSE reserved))

(* Phase one, authorization_only_gate: from the ledger alone.                 *)
AuthorizationGate(remaining, reserved) ==
  IF remaining = None THEN Decided("BROKER_UNREADABLE", 0, None, 0, 0)
  ELSE LET available == Available(remaining, reserved)
       IN IF available < MinDeployable
          THEN Decided("AUTHORIZATION_EXHAUSTED", available, None, 0, 0)
          ELSE Decided("EVALUATE", available, None, available, 0)

(* Phase two, once the authorization has passed phase one's test.             *)
CashGate(available, snapshot, now) ==
  LET age == SnapshotAge(snapshot, now)
      cash == SettledCash(snapshot)
      stale == snapshot # None /\ (IF age = None THEN TRUE ELSE age > MaxSnapshotAge)
  IN IF stale \/ cash = None
     THEN Decided("BROKER_UNREADABLE", available, IF stale THEN None ELSE cash, 0, 0)
     ELSE IF Lesser(available, cash) < MinDeployable
     THEN Decided("FUNDING_REQUIRED", available, cash, Lesser(available, cash),
                  available - cash)
     ELSE Decided("EVALUATE", available, cash, Lesser(available, cash), 0)

EvaluateGate(remaining, reserved, snapshot, now) ==
  LET first == AuthorizationGate(remaining, reserved)
  IN IF first.outcome = "EVALUATE"
     THEN CashGate(first.available, snapshot, now)
     ELSE first

(* check_capital_gate.py's exit code and the notification it emits, as the    *)
(* kind and what it is about; None is no notification. Near the month's end   *)
(* an exhausted month asks for next month's budget, if cash is known.         *)
ExitCode(gate) ==
  CASE gate.outcome = "EVALUATE" -> 0
    [] gate.outcome = "AUTHORIZATION_EXHAUSTED" -> 10
    [] gate.outcome = "FUNDING_REQUIRED" -> 11
    [] gate.outcome = "BROKER_UNREADABLE" -> 12

KnownCash(gate, snapshot) ==
  IF gate.cash # None THEN gate.cash ELSE SettledCash(snapshot)
=============================================================================
