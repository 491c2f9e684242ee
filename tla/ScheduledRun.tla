---------------------------- MODULE ScheduledRun ----------------------------
(* scripts/scheduled_evaluation.sh and scripts/weekly_discovery.sh, with the  *)
(* scripts they call, beside the owner at the same checkout. Runners are the  *)
(* launchd jobs: numbered in the order they start, so that a runner's number  *)
(* orders its STAMP, and free to overlap when a Mac wakes with several due.   *)
(* A step of a runner is one script it calls, or one part of a script that    *)
(* another process can get in between.                                        *)
EXTENDS CapitalGate, Notifications, ScheduledSafety, Promotion

CONSTANTS
  Runners,        \* 1 .. n
  Outputs,        \* what the model may leave behind, and else try to write
  Openable,       \* the switches the owner may open
  NoteWords,      \* the words of the standing research note
  Budget,         \* config.monthly_budget_usd
  FirstRemaining, \* what the month may have left of it to begin with
  MonthEnd,       \* near_month_end() from this moment on
  MaxClock,
  MaxDisturbances \* of what goes out of the ordinary, see Disturbance

(* What a model may do beyond its documents: write to the ledger or the       *)
(* broker snapshot; delete, gut or shorten a research note.                   *)
Strays == {"budget", "cash", "deletes", "guts", "trims"}

ASSUME ScheduledConstants ==
  /\ Runners \subseteq Nat \ {0}
  /\ NoteWords \in Nat /\ Budget \in Nat
  /\ FirstRemaining \subseteq 0 .. Budget
  /\ Openable \subseteq Switches
  /\ MaxClock \in Nat /\ MaxDisturbances \in Nat
  /\ None \notin Strays

(* The legs of a document are a list, and an amount is a number. *)
ASSUME OutputsAreDocuments ==
  LET IsList(legs) == Len(legs) \in Nat /\ legs = [i \in 1 .. Len(legs) |-> legs[i]]
  IN \A out \in Outputs :
       /\ out.digest # None => "legs" \in DOMAIN out.digest /\ IsList(out.digest.legs)
       /\ out.payload # None =>
            /\ IsList(out.payload.legs)
            /\ \A i \in DOMAIN out.payload.legs : out.payload.legs[i].usd \in Int

VARIABLES
  clock,
  cash, remaining,     \* the broker's settled cash; the ledger's remaining
  open, denied,        \* the switches open in config.json; the deny list intact
  handed,              \* state/pending_submission.json exists
  protected,           \* the rest of the repository, as a version
  archive,             \* the research note's words, None once deleted
  approved,            \* the minted decisions the owner has approved, by index
  snapshot, gathered,  \* state/broker_snapshot.json, state/promotion_snapshot.json
  digest,              \* reports/latest.md
  reports, payloads,   \* reports/<stamp>.md and reports/recommendations/<stamp>.json
  minted,              \* logs/decisions.jsonl, the promoted decisions
  sent,                \* state/notifications.json, None when unreadable
  said,                \* the notifications the owner was shown
  hook,                \* the PreToolUse hook is in force
  runner, todo,        \* each process; the legs a promotion still has to log
  others,              \* runs in whose model window somebody else wrote
  disturbances

owner == <<open, denied, handed, approved, cash, remaining>>
files == <<snapshot, gathered, digest, reports, payloads, archive, protected>>
notices == <<sent, said>>
vars == <<clock, owner, files, minted, notices, hook, runner, todo, others, disturbances>>

Owner == 0
Promoters == Runners \cup {Owner}

Idle ==
  [pc |-> "idle", job |-> "evaluation", base |-> None, note |-> None, ledger |-> None,
   belief |-> None, ok |-> TRUE, problem |-> FALSE, unsafe |-> FALSE, ready |-> FALSE,
   gate |-> None, refused |-> FALSE, undelivered |-> FALSE, stray |-> None, code |-> None]

Init ==
  /\ clock = 0
  /\ cash \in {0, Budget} /\ remaining \in FirstRemaining
  /\ open = {} /\ denied = TRUE /\ handed = FALSE
  /\ protected = 0 /\ archive = NoteWords /\ approved = {}
  /\ snapshot = None /\ gathered = None /\ digest = None
  /\ reports = [r \in Runners |-> None] /\ payloads = [r \in Runners |-> None]
  /\ minted = <<>>
  /\ sent = EmptyLedger /\ said = {}
  /\ hook \in BOOLEAN
  /\ runner = [r \in Runners |-> Idle]
  /\ todo = [p \in Promoters |-> <<>>]
  /\ others = {} /\ disturbances = 0

(* run_digest: every path outside the scope, by content, and the archive. *)
RunDigest ==
  [tree |-> [config |-> open, settings |-> denied, protected |-> protected,
             approvals |-> approved, decisions |-> minted, notifications |-> sent,
             broker_snapshot |-> snapshot, promotion_snapshot |-> gathered],
   archive |-> archive]

Running(r) == runner[r].pc \notin {"idle", "exit"}
At(r, pc) == runner[r].pc = pc
Become(r, changes) ==
  runner' = [runner EXCEPT ![r] = [f \in DOMAIN @ |->
                                     IF f \in DOMAIN changes THEN changes[f] ELSE @[f]]]
Left == [pc |-> "exit", base |-> None, ledger |-> None, belief |-> None, ready |-> FALSE]
Leave(r, changes) ==
  Become(r, [f \in DOMAIN Left \cup DOMAIN changes |->
               IF f \in DOMAIN changes THEN changes[f] ELSE Left[f]])
Exit(r, code) == Leave(r, [code |-> code])

(* Dollars approved and not yet submitted: sibling_reservations_usd. *)
Reserved == SumOver([i \in DOMAIN minted |-> minted[i].leg.usd], approved)
NearMonthEnd == clock >= MonthEnd
ModelWrites(path) == ~hook \/ GuardAllows({"SCHEDULED_RUN"}, path)

(* --- before the model ---------------------------------------------------- *)

Start(r) ==
  /\ At(r, "idle")
  /\ \A s \in Runners : s < r => ~At(s, "idle")
  /\ \E job \in {"evaluation", "discovery"} :
       IF PreflightSafe(open, denied, handed)
       THEN Become(r, [pc |-> IF job = "evaluation" THEN "gate" ELSE "model",
                       job |-> job, base |-> RunDigest])
       ELSE Leave(r, [job |-> job, code |-> 1])
  /\ UNCHANGED <<clock, owner, files, minted, notices, hook, todo>>

(* check_capital_gate.py's note for a gate decided with this snapshot file. *)
GateNote(gate, file) ==
  IF gate.outcome = "AUTHORIZATION_EXHAUSTED" /\ NearMonthEnd
  THEN IF KnownCash(gate, file) = None THEN None
       ELSE MonthEndFunding(0, Budget, KnownCash(gate, file))
  ELSE FundingRequired(gate, 0)

AuthorizationPhase(r) ==
  /\ At(r, "gate")
  /\ LET exhausted == AuthorizationGate(remaining, Reserved).outcome # "EVALUATE"
     IN IF exhausted /\ ~NearMonthEnd THEN Exit(r, 0)
        ELSE Become(r, [pc |-> IF exhausted THEN "reminder" ELSE "refresh"])
  /\ UNCHANGED <<clock, owner, files, minted, notices, hook, todo>>

(* refresh_broker_snapshot.sh: its subprocess fails, exits cleanly having     *)
(* written nothing, or writes what it read; the file is kept only if it is    *)
(* usable. readBy and during are history: who wrote it, and during whose run. *)
Reading(r, truth) ==
  [asOf |-> clock, agentic |-> TRUE, cash |-> truth, unsettled |-> 0,
   forged |-> FALSE, during |-> {s \in Runners : Running(s)}, readBy |-> r]
(* Mutant: a failed refresh leaves the last run's file. *)
RefreshedElseKept(r, outcome) ==
  IF outcome = "written" THEN Reading(r, cash) ELSE snapshot
Refreshed(r, outcome) ==
  LET found == IF outcome = "written" THEN Reading(r, cash) ELSE snapshot
      mtime == IF outcome = "written" THEN 1 ELSE 0
  IN IF outcome # "failed" /\ RefreshUsable(found, mtime, 1, clock) THEN found ELSE None

RefreshSnapshot(r) ==
  /\ At(r, "refresh") \/ At(r, "reminder")
  /\ \E outcome \in {"failed", "unwritten", "written"} : snapshot' = Refreshed(r, outcome)
  /\ Become(r, [pc |-> IF At(r, "refresh") THEN "cash" ELSE "remind"])
  /\ UNCHANGED <<clock, owner, gathered, digest, reports, payloads, archive, protected,
                 minted, notices, hook, todo>>

(* The exhausted month's reminder: the ledger and the snapshot are read again, *)
(* and the exit is the first reading's.                                        *)
MonthEndReminder(r) ==
  /\ At(r, "remind")
  /\ LET note == GateNote(AuthorizationGate(remaining, Reserved), snapshot)
     IN IF note = None THEN Exit(r, 0)
        ELSE Become(r, [pc |-> "notify", note |-> note, code |-> 0])
  /\ UNCHANGED <<clock, owner, files, minted, notices, hook, todo>>

(* The gate's verdict. A broker that could not be read ends the run, exit 12,  *)
(* with nothing but a line in its log.                                         *)
CashPhase(r) ==
  /\ At(r, "cash")
  /\ LET gate == EvaluateGate(remaining, Reserved, snapshot, clock)
         note == GateNote(gate, snapshot)
         belief == IF gate.cash = None THEN None ELSE snapshot
     IN CASE ExitCode(gate) = 0 ->
               Become(r, [pc |-> "enter", gate |-> gate, belief |-> belief])
          [] ExitCode(gate) \in {10, 11} /\ note # None ->
               Become(r, [pc |-> "notify", note |-> note, gate |-> gate, belief |-> belief,
                          code |-> 0])
          [] OTHER -> Leave(r, [gate |-> gate, code |-> 0])
  /\ UNCHANGED <<clock, owner, files, minted, notices, hook, todo>>

(* Mutant: the baseline stays the one taken before the pre-run steps. *)
EnterModelOldBaseline(r) ==
  /\ At(r, "enter")
  /\ IF PreflightSafe(open, denied, handed) THEN Become(r, [pc |-> "model"]) ELSE Exit(r, 1)
  /\ UNCHANGED <<clock, owner, files, minted, notices, hook, todo>>

(* The preflight again, and the baseline the postflight compares with. *)
EnterModel(r) ==
  /\ At(r, "enter")
  /\ IF PreflightSafe(open, denied, handed)
     THEN Become(r, [pc |-> "model", base |-> RunDigest])
     ELSE Exit(r, 1)
  /\ UNCHANGED <<clock, owner, files, minted, notices, hook, todo>>

(* --- the model, and what is checked after it ------------------------------ *)

(* A stray write lands unless the hook denies its path; a research note is    *)
(* inside the scope, whatever is left of it, as long as something is.         *)
StrayPath(stray) ==
  CASE stray = "budget" -> "protected"
    [] stray = "cash" -> "broker_snapshot"
    [] OTHER -> "research/"
StrayLands(stray) ==
  /\ stray # None /\ ModelWrites(StrayPath(stray))
  /\ stray = "deletes" => archive # None
  /\ stray \in {"guts", "trims"} => archive \notin {None, 0}

StrayEffect(r, stray) ==
  /\ protected' = IF stray = "budget" THEN protected + 1 ELSE protected
  /\ snapshot' = IF stray = "cash"
                 THEN [Reading(r, Budget) EXCEPT !.forged = TRUE] ELSE snapshot
  /\ archive' = IF archive = None THEN None
                ELSE CASE stray = "deletes" -> None
                       [] stray = "guts" -> archive \div 3
                       [] stray = "trims" -> AtLeastZero(archive - 1)
                       [] OTHER -> archive

(* Which audit record a document names is text: its own run's, another's, none. *)
Named(r, name) ==
  CASE name = "own" -> {r} [] name = "another" -> Runners \ {r} [] OTHER -> {None}
DigestNames(r, out) == IF out.digest = None THEN {None} ELSE Named(r, out.digest.pointer)
PayloadNames(r, out) == IF out.payload = None THEN {None} ELSE Named(r, out.payload.source)

(* The model process: the documents it leaves, whether it exited cleanly, and *)
(* at most one other thing it tried to write. A digest it leaves replaces the *)
(* last one; whose it is, run, is history.                                    *)
Model(r) ==
  /\ At(r, "model")
  /\ \E out \in Outputs : \E pointer \in DigestNames(r, out), source \in PayloadNames(r, out) :
       LET stray == IF StrayLands(out.stray) THEN out.stray ELSE None IN
       /\ runner[r].job = "discovery" => out.payload = None /\ out.digest = None
       /\ reports' = [reports EXCEPT ![r] = out.report]
       /\ payloads' = IF out.payload = None THEN payloads
                      ELSE [payloads EXCEPT ![r] =
                              [planType |-> out.payload.planType, at |-> clock,
                               source |-> source, legs |-> out.payload.legs]]
       /\ digest' = IF out.digest = None THEN digest
                    ELSE [f \in DOMAIN out.digest \cup {"run", "pointer"} |->
                            CASE f = "run" -> r [] f = "pointer" -> pointer
                              [] OTHER -> out.digest[f]]
       /\ StrayEffect(r, stray)
       /\ Become(r, [pc |-> "postflight", ok |-> out.ok, stray |-> stray])
  /\ UNCHANGED <<clock, owner, gathered, minted, notices, hook, todo>>

Postflight(r) ==
  /\ At(r, "postflight")
  /\ Become(r, [pc |-> "record", base |-> None,
                unsafe |-> ~PostflightSafe(runner[r].base, RunDigest, handed)])
  /\ UNCHANGED <<clock, owner, files, minted, notices, hook, todo>>

(* Mutant: the failures are added up. *)
FinalCodeSummed(r, problem) ==
  (IF runner[r].unsafe THEN 1 ELSE 0) + (IF ~runner[r].ok THEN 3 ELSE 0)
    + (IF problem THEN 2 ELSE 0)

(* The exit code when nothing more can change it. *)
FinalCode(r, problem) ==
  IF runner[r].unsafe THEN 1 ELSE IF ~runner[r].ok THEN 3 ELSE IF problem THEN 2 ELSE 0

(* record_scheduled_run.py: the digest is derived only when there is none at  *)
(* all, and then taken for the run's; the decision is the audit record's or,  *)
(* failing that, the digest's; a BUY with a payload is worth a note.          *)
RecordedDigest(r) ==
  IF digest # None THEN digest
  ELSE IF reports[r] = None THEN None ELSE DerivedDigest(reports[r], r)
RecordedDecision(r) ==
  IF reports[r] # None /\ reports[r].decision # None THEN reports[r].decision
  ELSE IF RecordedDigest(r) = None THEN None ELSE RecordedDigest(r).decision
RecordProblem(r) ==
  \/ ~ReportValid(reports[r])
  \/ digest = None
  \/ ~DigestValid(RecordedDigest(r))
  \/ ~PayloadExpected(RecordedDecision(r), payloads[r])
  \/ payloads[r] # None /\ ~ValidRecommendation(payloads[r])

RecordRun(r) ==
  /\ At(r, "record") /\ runner[r].job = "evaluation"
  /\ digest' = RecordedDigest(r)
  /\ LET note == IF payloads[r] = None THEN None
                 ELSE ActionableBuy(RecordedDecision(r), payloads[r].legs)
     IN Become(r, [pc |-> IF payloads[r] # None THEN "gather" ELSE "notify",
                   note |-> note, problem |-> RecordProblem(r)])
  /\ UNCHANGED <<clock, owner, snapshot, gathered, reports, payloads, archive, protected,
                 minted, notices, hook, todo>>

RecordDiscovery(r) ==
  /\ At(r, "record") /\ runner[r].job = "discovery"
  /\ Exit(r, FinalCode(r, ~DiscoveryValid(reports[r])))
  /\ UNCHANGED <<clock, owner, files, minted, notices, hook, todo>>

(* --- promotion ------------------------------------------------------------ *)

Tickers(payload) == {payload.legs[i].ticker : i \in DOMAIN payload.legs}

(* refresh_promotion_snapshot.sh: fails, or writes the account and a quote per *)
(* ticker at an unmoved or a moved price, dated or not.                        *)
Gathered(payload, price) ==
  Backfilled(
    [asOf |-> clock, agentic |-> TRUE, cash |-> cash, orders |-> TRUE,
     quotes |-> [t \in Tickers(payload) |-> [price |-> price, at |-> None]]], clock)

Gather(r) ==
  /\ At(r, "gather")
  /\ \E price \in {None} \cup {payloads[r].legs[1].price, 2 * payloads[r].legs[1].price} :
       LET found == IF price = None THEN None ELSE Gathered(payloads[r], price)
           usable == GatherUsable(found, TRUE, Tickers(payloads[r]), clock)
       IN /\ gathered' = IF usable THEN found ELSE None
          /\ Become(r, [pc |-> "promote", ready |-> usable])
  /\ UNCHANGED <<clock, owner, snapshot, digest, reports, payloads, archive, protected,
                 minted, notices, hook, todo>>

NewestReport ==
  LET written == {r \in Runners : reports[r] # None /\ runner[r].job = "evaluation"}
  IN IF written = {} THEN None ELSE CHOOSE r \in written : \A s \in written : s <= r

(* promote_latest_recommendation.py up to its last check: every leg or none.  *)
Promotable(payload, file) ==
  /\ ValidRecommendation(payload)
  /\ Fresh(payload, NewestReport, digest.pointer, clock)
  /\ BannerAgrees(digest, payload)
  /\ \A i \in DOMAIN payload.legs :
       LegPromotable(payload.legs[i], open, Available(remaining, Reserved), file, clock)

Announces == digest # None /\ BannerKind(digest) = "BUY"

(* Mutant: the legs that pass are promoted without those that do not. *)
PlannedByLeg(payload, file) ==
  IF /\ Announces /\ ValidRecommendation(payload)
     /\ Fresh(payload, NewestReport, digest.pointer, clock) /\ BannerAgrees(digest, payload)
  THEN SelectSeq(payload.legs, LAMBDA leg :
         LegPromotable(leg, open, Available(remaining, Reserved), file, clock))
  ELSE <<>>

(* What a promotion sets out to log; without a BUY banner it stops, content.  *)
Planned(payload, file) ==
  IF Announces /\ Promotable(payload, file) THEN payload.legs ELSE <<>>
Refused(payload, file) == digest = None \/ (Announces /\ ~Promotable(payload, file))

(* The runner's promotion, and the failure note that takes the place of the    *)
(* run's own when it is refused.                                               *)
Promote(r) ==
  /\ At(r, "promote")
  /\ LET file == IF runner[r].ready THEN gathered ELSE None
         refused == Refused(payloads[r], file)
         planned == Planned(payloads[r], file)
     IN /\ todo' = [todo EXCEPT ![r] = [i \in DOMAIN planned |-> [leg |-> planned[i], run |-> r]]]
        /\ Become(r, [pc |-> IF planned = <<>> THEN "notify" ELSE "mint",
                      refused |-> refused,
                      note |-> IF refused THEN Failure("PROMOTION_FAILED", "refused")
                               ELSE runner[r].note])
  /\ UNCHANGED <<clock, owner, files, minted, notices, hook>>

(* The owner promotes by hand what the recommendations directory holds newest, *)
(* with whatever promotion snapshot is on disk.                                *)
PromoteByHand ==
  /\ todo[Owner] = <<>>
  /\ \E r \in Runners :
       /\ payloads[r] # None
       /\ \A s \in Runners : payloads[s] # None => s <= r
       /\ LET planned == Planned(payloads[r], gathered)
          IN /\ planned # <<>>
             /\ todo' = [todo EXCEPT ![Owner] =
                           [i \in DOMAIN planned |-> [leg |-> planned[i], run |-> r]]]
  /\ UNCHANGED <<clock, owner, files, minted, notices, hook, runner>>

(* One leg appended to logs/decisions.jsonl, under a new decision id. *)
PromotedDecision(promotion, p) == [run |-> promotion.run, leg |-> promotion.leg, by |-> p]
MintLeg(p) ==
  /\ todo[p] # <<>> /\ (p \in Runners => At(p, "mint"))
  /\ minted' = Append(minted, PromotedDecision(Head(todo[p]), p))
  /\ todo' = [todo EXCEPT ![p] = Tail(@)]
  /\ IF p # Owner /\ Len(todo[p]) = 1 THEN Become(p, [pc |-> "notify"])
     ELSE UNCHANGED runner
  /\ UNCHANGED <<clock, owner, files, notices, hook>>

(* --- notify.py ------------------------------------------------------------ *)

NotifyDecide(r) ==
  /\ At(r, "notify")
  /\ LET note == runner[r].note
         ledger == LoadState(sent)
         code == IF runner[r].code # None THEN runner[r].code
                 ELSE FinalCode(r, runner[r].problem)
     IN IF note # None /\ ShouldSend(note, ledger, clock)
        THEN Become(r, [pc |-> "deliver", code |-> code, ledger |-> ledger])
        ELSE Exit(r, code)
  /\ UNCHANGED <<clock, owner, files, minted, notices, hook, todo>>

(* Mutant: recorded as sent whether or not it was shown. *)
DeliverOrNot(r) ==
  /\ At(r, "deliver")
  /\ \/ said' = said \cup {[fingerprint |-> runner[r].note.fingerprint, at |-> clock]}
     \/ UNCHANGED said
  /\ Become(r, [pc |-> "save"])
  /\ UNCHANGED <<clock, owner, files, minted, sent, hook, todo>>

(* osascript shows it, or refuses and nothing is recorded. *)
Deliver(r) ==
  /\ At(r, "deliver")
  /\ \/ /\ said' = said \cup {[fingerprint |-> runner[r].note.fingerprint, at |-> clock]}
        /\ Become(r, [pc |-> "save"])
     \/ /\ UNCHANGED said
        /\ Leave(r, [undelivered |-> TRUE])
  /\ UNCHANGED <<clock, owner, files, minted, sent, hook, todo>>

SaveLedger(r) ==
  /\ At(r, "save")
  /\ sent' = RecordSent(runner[r].note, runner[r].ledger, clock)
  /\ Leave(r, <<>>)
  /\ UNCHANGED <<clock, owner, files, minted, said, hook, todo>>

(* --- around the runs ------------------------------------------------------ *)

Crash(r) ==
  /\ Running(r)
  /\ todo' = [todo EXCEPT ![r] = <<>>]
  /\ Exit(r, -1)
  /\ UNCHANGED <<clock, owner, files, minted, notices, hook>>

(* The owner edits the configuration, hands an order off, approves, deposits, *)
(* or has money spent, while the jobs run.                                    *)
OwnerActs ==
  /\ \/ \E s \in Openable : open' = {s} /\ UNCHANGED <<denied, handed, approved, cash, remaining>>
     \/ denied' = FALSE /\ UNCHANGED <<open, handed, approved, cash, remaining>>
     \/ handed' = TRUE /\ UNCHANGED <<open, denied, approved, cash, remaining>>
     \/ /\ \E i \in DOMAIN minted \ approved : approved' = approved \cup {i}
        /\ UNCHANGED <<open, denied, handed, cash, remaining>>
     \/ cash' = cash + 1 /\ UNCHANGED <<open, denied, handed, approved, remaining>>
     \/ /\ cash > 0 /\ remaining > 0
        /\ cash' = cash - 1 /\ remaining' = remaining - 1
        /\ UNCHANGED <<open, denied, handed, approved>>
  /\ UNCHANGED <<clock, files, minted, notices, hook, runner, todo>>

(* The suppression ledger becomes unreadable. *)
LedgerSpoilt ==
  /\ sent' = None
  /\ UNCHANGED <<clock, owner, files, minted, said, hook, runner, todo>>

(* Half a day passes. Within a run that takes the Mac sleeping through it. *)
Tick ==
  /\ clock < MaxClock
  /\ clock' = clock + 1
  /\ UNCHANGED <<owner, files, minted, notices, hook, runner, todo>>

(* History: the runs in whose model window another process changed what the    *)
(* postflight compares.                                                        *)
Witness(actor) ==
  others' = others \cup
    {r \in Runners \ {actor} : (At(r, "model") \/ At(r, "postflight"))
                               /\ (RunDigest' # RunDigest \/ handed' # handed)}

Overlapping == \E r \in Runners : Running(r)

RunnerStep(r) ==
  \/ AuthorizationPhase(r) \/ RefreshSnapshot(r) \/ MonthEndReminder(r)
  \/ CashPhase(r) \/ EnterModel(r) \/ Model(r) \/ Postflight(r)
  \/ RecordRun(r) \/ RecordDiscovery(r) \/ Gather(r) \/ Promote(r)
  \/ MintLeg(r) \/ NotifyDecide(r) \/ Deliver(r) \/ SaveLedger(r)

(* What goes out of the ordinary: a job that starts while another runs (launchd *)
(* starts on wake whatever came due), a sleep in mid-run, a death, the owner.   *)
Disturbance ==
  \/ Overlapping /\ \E r \in Runners : Start(r) /\ Witness(r)
  \/ Overlapping /\ Tick /\ UNCHANGED others
  \/ \E r \in Runners : Crash(r) /\ Witness(r)
  \/ (PromoteByHand \/ OwnerActs \/ LedgerSpoilt) /\ Witness(Owner)

Ordinary ==
  \/ ~Overlapping /\ \E r \in Runners : Start(r) /\ Witness(r)
  \/ ~Overlapping /\ Tick /\ UNCHANGED others
  \/ \E r \in Runners : RunnerStep(r) /\ Witness(r)
  \/ MintLeg(Owner) /\ Witness(Owner)

Next ==
  \/ Ordinary /\ UNCHANGED disturbances
  \/ /\ disturbances < MaxDisturbances
     /\ Disturbance
     /\ disturbances' = disturbances + 1

Spec == Init /\ [][Next]_vars
=============================================================================
