------------------------- MODULE ScheduledRunProofs -------------------------
(* Proofs about the scheduled runs, for any number of overlapping jobs, any   *)
(* outputs of the model, any amounts and bounds.                              *)
EXTENDS ScheduledRunSafety, TLAPS

(* What each process holds is a record of these fields. *)
Fields ==
  {"pc", "job", "base", "note", "ledger", "belief", "ok", "problem", "unsafe", "ready",
   "gate", "refused", "undelivered", "stray", "code"}
Shaped ==
  /\ runner = [r \in Runners |-> runner[r]]
  /\ \A r \in Runners : DOMAIN runner[r] = Fields

(* What is written down as a change of a process is what changes. *)
LEMMA BecomeChanges ==
  ASSUME Shaped, NEW r \in Runners, NEW changes, Become(r, changes)
  PROVE  /\ Shaped'
         /\ \A s \in Runners \ {r} : runner'[s] = runner[s]
         /\ \A f \in Fields : runner'[r][f] = IF f \in DOMAIN changes THEN changes[f]
                                              ELSE runner[r][f]
  BY DEF Become, Shaped

(* A process that is done keeps what it is remembered for. *)
LEMMA LeaveChanges ==
  ASSUME Shaped, NEW r \in Runners, NEW changes, Leave(r, changes),
         DOMAIN changes \subseteq {"job", "code", "undelivered", "gate"}
  PROVE  /\ Shaped'
         /\ \A s \in Runners \ {r} : runner'[s] = runner[s]
         /\ runner'[r].pc = "exit" /\ runner'[r].belief = None
         /\ runner'[r].stray = runner[r].stray /\ runner'[r].unsafe = runner[r].unsafe
<1> DEFINE all == [f \in DOMAIN Left \cup DOMAIN changes |->
                     IF f \in DOMAIN changes THEN changes[f] ELSE Left[f]]
<1>1. Become(r, all)
  BY DEF Leave
<1>2. /\ "pc" \in DOMAIN all /\ all["pc"] = "exit"
      /\ "belief" \in DOMAIN all /\ all["belief"] = None
      /\ "stray" \notin DOMAIN all /\ "unsafe" \notin DOMAIN all
  BY DEF Left
<1> HIDE DEF all
<1>q. QED BY <1>1, <1>2, BecomeChanges DEF Fields

(* An exit is a departure.                                                    *)
LEMMA ExitChanges ==
  ASSUME Shaped, NEW r \in Runners, NEW c, Exit(r, c)
  PROVE  /\ Shaped'
         /\ \A s \in Runners \ {r} : runner'[s] = runner[s]
         /\ runner'[r].pc = "exit" /\ runner'[r].belief = None
         /\ runner'[r].stray = runner[r].stray /\ runner'[r].unsafe = runner[r].unsafe
  BY LeaveChanges DEF Exit

(* --- the gate's cash figure ------------------------------------------------ *)

(* A step of a process that hands the gate nothing: it puts no process before *)
(* the gate's second phase and gives none a figure to believe.                *)
Plain ==
  /\ Shaped'
  /\ \A s \in Runners :
       /\ runner'[s].pc = "cash" => runner[s].pc = "cash"
       /\ runner'[s].belief \in {None, runner[s].belief}

(* Going on is plain, except to the second phase or with a figure.            *)
LEMMA BecomePlain ==
  ASSUME Shaped, NEW r \in Runners, NEW changes, Become(r, changes),
         "belief" \notin DOMAIN changes,
         "pc" \in DOMAIN changes => changes["pc"] # "cash"
  PROVE  Plain
  BY BecomeChanges DEF Plain, Fields

(* Leaving is plain.                                                          *)
LEMMA LeavePlain ==
  ASSUME Shaped, NEW r \in Runners, NEW changes, Leave(r, changes),
         DOMAIN changes \subseteq {"job", "code", "undelivered", "gate"}
  PROVE  Plain
  BY LeaveChanges DEF Plain

(* Exits are plain.                                                           *)
LEMMA ExitPlain ==
  ASSUME Shaped, NEW r \in Runners, NEW c, Exit(r, c)
  PROVE  Plain
  BY ExitChanges DEF Plain

(* Before the model every step is plain but the refresh and what follows it.  *)
LEMMA BeforeModelPlain ==
  ASSUME Shaped, NEW r \in Runners,
         Start(r) \/ AuthorizationPhase(r) \/ MonthEndReminder(r) \/ EnterModel(r)
  PROVE  Plain
<1>1. CASE Start(r)
  <2>1. PICK job \in {"evaluation", "discovery"} :
          \/ Become(r, [pc |-> IF job = "evaluation" THEN "gate" ELSE "model",
                        job |-> job, base |-> RunDigest])
          \/ Leave(r, [job |-> job, code |-> 1])
    BY <1>1 DEF Start
  <2>q. QED BY <2>1, BecomePlain, LeavePlain
<1>2. CASE AuthorizationPhase(r)
  BY <1>2, BecomePlain, ExitPlain DEF AuthorizationPhase
<1>3. CASE MonthEndReminder(r)
  BY <1>3, BecomePlain, ExitPlain DEF MonthEndReminder
<1>4. CASE EnterModel(r)
  BY <1>4, BecomePlain, ExitPlain DEF EnterModel
<1>q. QED BY <1>1, <1>2, <1>3, <1>4

(* So is every step after the model, up to the promotions.                    *)
LEMMA AfterModelPlain ==
  ASSUME Shaped, NEW r \in Runners,
         Postflight(r) \/ RecordRun(r) \/ RecordDiscovery(r) \/ Gather(r) \/ Promote(r)
  PROVE  Plain
<1>1. CASE Postflight(r)
  BY <1>1, BecomePlain DEF Postflight
<1>2. CASE RecordRun(r)
  BY <1>2, BecomePlain DEF RecordRun
<1>3. CASE RecordDiscovery(r)
  BY <1>3, ExitPlain DEF RecordDiscovery
<1>4. CASE Gather(r)
  <2>1. PICK ready : Become(r, [pc |-> "promote", ready |-> ready])
    BY <1>4 DEF Gather
  <2>q. QED BY <2>1, BecomePlain
<1>5. CASE Promote(r)
  <2>1. PICK pc \in {"notify", "mint"} :
          \E note, refused : Become(r, [pc |-> pc, refused |-> refused, note |-> note])
    BY <1>5 DEF Promote
  <2>q. QED BY <2>1, BecomePlain
<1>q. QED BY <1>1, <1>2, <1>3, <1>4, <1>5

(* Notifying and crashing are plain.                                          *)
LEMMA NotifyPlain ==
  ASSUME Shaped, NEW r \in Runners,
         NotifyDecide(r) \/ Deliver(r) \/ SaveLedger(r) \/ Crash(r)
  PROVE  Plain
<1>1. CASE NotifyDecide(r)
  <2>1. PICK code, ledger :
          \/ Become(r, [pc |-> "deliver", code |-> code, ledger |-> ledger])
          \/ Exit(r, code)
    BY <1>1 DEF NotifyDecide
  <2>q. QED BY <2>1, BecomePlain, ExitPlain
<1>2. CASE Deliver(r)
  BY <1>2, BecomePlain, LeavePlain DEF Deliver
<1>3. CASE SaveLedger(r)
  BY <1>3, LeavePlain DEF SaveLedger
<1>4. CASE Crash(r)
  BY <1>4, ExitPlain DEF Crash
<1>q. QED BY <1>1, <1>2, <1>3, <1>4

(* Minting is plain.                                                          *)
LEMMA MintPlain ==
  ASSUME Shaped, NEW p \in Promoters, MintLeg(p)
  PROVE  Plain
<1>1. CASE UNCHANGED runner
  BY <1>1 DEF Plain, Shaped
<1>2. CASE p \in Runners /\ Become(p, [pc |-> "notify"])
  BY <1>2, BecomePlain
<1>q. QED BY <1>1, <1>2 DEF MintLeg, Promoters

(* The gate believes a figure only of a snapshot taken while it ran: what is  *)
(* before the gate's second phase was refreshed by this run or overwritten by *)
(* a job beside it.                                                           *)
CashInv ==
  /\ Shaped
  /\ \A r \in Runners : runner[r].pc = "cash" /\ snapshot # None => r \in snapshot.during
  /\ CashWasReadDuringTheRun

(* A plain step that leaves the snapshot alone.                               *)
LEMMA PlainKeepsCash ==
  ASSUME CashInv, Plain, UNCHANGED snapshot
  PROVE  CashInv'
  BY DEF CashInv, Plain, CashWasReadDuringTheRun

(* A file the refresh keeps was written by it. *)
LEMMA RefreshIsFresh ==
  ASSUME NEW r, NEW outcome \in {"failed", "unwritten", "written"}
  PROVE  Refreshed(r, outcome) \in {None, Reading(r, cash)}
  BY DEF Refreshed, RefreshUsable

(* The refresh reads the cash while the run is under way.                     *)
LEMMA RefreshKeepsCash ==
  ASSUME CashInv, NEW r \in Runners, RefreshSnapshot(r)
  PROVE  CashInv'
<1>1. snapshot' \in {None, Reading(r, cash)}
  BY RefreshIsFresh DEF RefreshSnapshot
<1>2. snapshot' # None => snapshot'.during = {s \in Runners : Running(s)}
  BY <1>1 DEF Reading
<1>3. PICK pc : Become(r, [pc |-> pc])
  BY DEF RefreshSnapshot
<1>4. /\ Shaped' /\ Running(r)
      /\ \A s \in Runners : /\ runner'[s].pc = "cash" => Running(s)
                            /\ runner'[s].belief = runner[s].belief
  BY <1>3, BecomeChanges DEF CashInv, Fields, RefreshSnapshot, At, Running
<1>q. QED BY <1>2, <1>4 DEF CashInv, CashWasReadDuringTheRun

(* The gate believes what that refresh left, or nothing.                      *)
LEMMA CashPhaseKeepsCash ==
  ASSUME CashInv, NEW r \in Runners, CashPhase(r)
  PROVE  CashInv'
<1> DEFINE gate == EvaluateGate(remaining, Reserved, snapshot, clock)
<1>1. PICK belief \in {None, snapshot} :
        \/ Become(r, [pc |-> "enter", gate |-> gate, belief |-> belief])
        \/ \E note : Become(r, [pc |-> "notify", note |-> note, gate |-> gate,
                                belief |-> belief, code |-> 0])
        \/ Leave(r, [gate |-> gate, code |-> 0])
  BY DEF CashPhase
<1> HIDE DEF gate
<1>2. UNCHANGED snapshot /\ runner[r].pc = "cash"
  BY DEF CashPhase, At, files
<1>3. /\ Shaped'
      /\ \A s \in Runners \ {r} : runner'[s] = runner[s]
      /\ runner'[r].pc # "cash" /\ runner'[r].belief \in {None, belief}
  <2>1. CASE Become(r, [pc |-> "enter", gate |-> gate, belief |-> belief])
    BY <2>1, BecomeChanges DEF CashInv, Fields
  <2>2. ASSUME NEW note,
               Become(r, [pc |-> "notify", note |-> note, gate |-> gate, belief |-> belief,
                          code |-> 0])
        PROVE  /\ Shaped'
               /\ \A s \in Runners \ {r} : runner'[s] = runner[s]
               /\ runner'[r].pc # "cash" /\ runner'[r].belief \in {None, belief}
    BY <2>2, BecomeChanges DEF CashInv, Fields
  <2>3. CASE Leave(r, [gate |-> gate, code |-> 0])
    BY <2>3, LeaveChanges DEF CashInv
  <2>q. QED BY <1>1, <2>1, <2>2, <2>3
<1>q. QED BY <1>1, <1>2, <1>3 DEF CashInv, CashWasReadDuringTheRun

(* A model may write a snapshot, at a time when its own run has its figure.   *)
LEMMA ModelKeepsCash ==
  ASSUME CashInv, NEW r \in Runners, Model(r)
  PROVE  CashInv'
<1>1. PICK stray, ok : /\ StrayEffect(r, stray)
                       /\ Become(r, [pc |-> "postflight", ok |-> ok, stray |-> stray])
  BY DEF Model
<1>2. CASE stray # "cash"
  BY <1>1, <1>2, BecomePlain, PlainKeepsCash DEF StrayEffect, CashInv
<1>3. CASE stray = "cash"
  <2>1. snapshot'.during = {s \in Runners : Running(s)}
    BY <1>1, <1>3 DEF StrayEffect, Reading
  <2>2. /\ Shaped'
        /\ \A s \in Runners : /\ runner'[s].pc = "cash" => Running(s)
                              /\ runner'[s].belief = runner[s].belief
    BY <1>1, BecomeChanges DEF CashInv, Fields, Running
  <2>q. QED BY <2>1, <2>2 DEF CashInv, CashWasReadDuringTheRun
<1>q. QED BY <1>2, <1>3

(* There is no snapshot, and no figure is believed.                           *)
LEMMA CashInit == Init => CashInv
<1> SUFFICES ASSUME Init PROVE CashInv
  OBVIOUS
<1>1. runner = [r \in Runners |-> Idle]
  BY DEF Init
<1>2. Shaped
  BY <1>1 DEF Shaped, Idle, Fields
<1>3. \A r \in Runners : runner[r].pc # "cash" /\ runner[r].belief = None
  BY <1>1 DEF Idle
<1>q. QED BY <1>2, <1>3 DEF CashInv, CashWasReadDuringTheRun

(* The actions of Next, without what is only counted or witnessed. *)
LEMMA NextActions ==
  ASSUME Next
  PROVE  \/ \E r \in Runners : Start(r) \/ RunnerStep(r) \/ Crash(r)
         \/ MintLeg(Owner) \/ PromoteByHand \/ OwnerActs \/ LedgerSpoilt \/ Tick
  BY DEF Next, Ordinary, Disturbance

(* Every step keeps the figures of the time of their runs.                    *)
LEMMA CashStep == CashInv /\ [Next]_vars => CashInv'
<1> SUFFICES ASSUME CashInv, [Next]_vars PROVE CashInv'
  OBVIOUS
<1> USE DEF files
<1>s. Shaped
  BY DEF CashInv
<1>1. CASE UNCHANGED vars
  BY <1>1 DEF vars, CashInv, Shaped, CashWasReadDuringTheRun
<1>2. ASSUME NEW r \in Runners, Start(r) \/ AuthorizationPhase(r) \/ MonthEndReminder(r)
                                  \/ EnterModel(r)
      PROVE  CashInv'
  <2>1. UNCHANGED snapshot
    BY <1>2 DEF Start, AuthorizationPhase, MonthEndReminder, EnterModel
  <2>q. QED BY <1>2, <1>s, <2>1, BeforeModelPlain, PlainKeepsCash
<1>3. ASSUME NEW r \in Runners, Postflight(r) \/ RecordRun(r) \/ RecordDiscovery(r)
                                  \/ Gather(r) \/ Promote(r)
      PROVE  CashInv'
  <2>1. UNCHANGED snapshot
    BY <1>3 DEF Postflight, RecordRun, RecordDiscovery, Gather, Promote
  <2>q. QED BY <1>3, <1>s, <2>1, AfterModelPlain, PlainKeepsCash
<1>4. ASSUME NEW r \in Runners, NotifyDecide(r) \/ Deliver(r) \/ SaveLedger(r) \/ Crash(r)
      PROVE  CashInv'
  <2>1. UNCHANGED snapshot
    BY <1>4 DEF NotifyDecide, Deliver, SaveLedger, Crash
  <2>q. QED BY <1>4, <1>s, <2>1, NotifyPlain, PlainKeepsCash
<1>5. ASSUME NEW p \in Promoters, MintLeg(p)
      PROVE  CashInv'
  <2>1. UNCHANGED snapshot
    BY <1>5 DEF MintLeg
  <2>q. QED BY <1>5, <1>s, <2>1, MintPlain, PlainKeepsCash
<1>6. CASE PromoteByHand \/ OwnerActs \/ LedgerSpoilt \/ Tick
  <2>1. UNCHANGED <<runner, snapshot>>
    BY <1>6 DEF PromoteByHand, OwnerActs, LedgerSpoilt, Tick
  <2>q. QED BY <2>1 DEF CashInv, Shaped, CashWasReadDuringTheRun
<1>7. ASSUME NEW r \in Runners, RefreshSnapshot(r) \/ CashPhase(r) \/ Model(r)
      PROVE  CashInv'
  BY <1>7, RefreshKeepsCash, CashPhaseKeepsCash, ModelKeepsCash
<1>q. QED
  BY <1>1, <1>2, <1>3, <1>4, <1>5, <1>6, <1>7, NextActions DEF RunnerStep, Promoters

(* The figure the gate spends on was obtained while that run was under way,   *)
(* by it or by a job beside it, however many jobs overlap, crash, or leave    *)
(* snapshots behind (refresh_broker_snapshot.sh, check_capital_gate.py).      *)
THEOREM CashIsCurrent == Spec => []CashWasReadDuringTheRun
<1>1. CashInv => CashWasReadDuringTheRun
  BY DEF CashInv
<1>q. QED BY CashInit, CashStep, <1>1, PTL DEF Spec

(* --- whom a failed safety check blames ------------------------------------ *)

(* While a model runs, and until the check of a run whose model wrote nothing *)
(* amiss, the digest to compare with is the digest of what is there, unless   *)
(* somebody else was seen writing; nobody has been blamed before that.        *)
Early ==
  {"idle", "gate", "refresh", "reminder", "remind", "cash", "enter", "model"}
Watched(r) ==
  runner[r].pc = "model" \/ (runner[r].pc = "postflight" /\ runner[r].stray = None)
Fine(r) ==
  /\ runner[r].pc \in Early => ~runner[r].unsafe
  /\ Watched(r) /\ r \notin others => runner[r].base = RunDigest /\ ~handed
  /\ runner[r].unsafe => runner[r].stray # None \/ r \in others
BlameInv ==
  /\ Shaped
  /\ archive \in Nat \cup {None}
  /\ \A r \in Runners : Fine(r)

(* Whoever is not the actor either saw nothing move or has seen the actor.    *)
LEMMA BystandersFine ==
  ASSUME BlameInv, NEW a, Witness(a), NEW r \in Runners, r # a, runner'[r] = runner[r]
  PROVE  Fine(r)'
<1>1. Watched(r) => At(r, "model") \/ At(r, "postflight")
  BY DEF Watched, At
<1>2. r \in others \/ (Watched(r) /\ (RunDigest' # RunDigest \/ handed' # handed))
        => r \in others'
  BY <1>1 DEF Witness
<1>3. Watched(r)' <=> Watched(r)
  BY DEF Watched
<1> HIDE DEF Watched
<1>q. QED
  BY <1>2, <1>3 DEF BlameInv, Fine

(* The actor, when it is not about to run a model and has not just run one.   *)
Onward(r) ==
  /\ Shaped'
  /\ \A s \in Runners \ {r} : runner'[s] = runner[s]
  /\ runner'[r].unsafe = runner[r].unsafe /\ runner'[r].stray = runner[r].stray
  /\ runner'[r].pc \notin {"model", "postflight"}
  /\ runner'[r].pc \in Early => runner[r].pc \in Early

(* A run that goes on past the check blames nobody anew.                      *)
LEMMA OnwardFine ==
  ASSUME BlameInv, NEW r \in Runners, Onward(r), Witness(r), archive' = archive
  PROVE  BlameInv'
<1>1. Fine(r)'
  BY DEF BlameInv, Fine, Onward, Watched, Witness
<1>2. ASSUME NEW s \in Runners \ {r} PROVE Fine(s)'
  BY <1>2, BystandersFine DEF Onward
<1>q. QED BY <1>1, <1>2 DEF BlameInv, Onward

(* Going on is onward, except to the model, to its check or back before them. *)
LEMMA BecomeOnward ==
  ASSUME Shaped, NEW r \in Runners, NEW changes, Become(r, changes),
         DOMAIN changes \cap {"unsafe", "stray"} = {}, "pc" \in DOMAIN changes,
         changes["pc"] \notin {"model", "postflight"},
         changes["pc"] \in Early => runner[r].pc \in Early
  PROVE  Onward(r)
  BY BecomeChanges DEF Onward, Fields

(* Leaving is onward.                                                         *)
LEMMA LeaveOnward ==
  ASSUME Shaped, NEW r \in Runners, NEW changes, Leave(r, changes),
         DOMAIN changes \subseteq {"job", "code", "undelivered", "gate"}
  PROVE  Onward(r)
  BY LeaveChanges DEF Onward, Early

(* Exits are onward.                                                          *)
LEMMA ExitOnward ==
  ASSUME Shaped, NEW r \in Runners, NEW c, Exit(r, c)
  PROVE  Onward(r)
  BY LeaveOnward DEF Exit

(* The gate's phases are onward.                                              *)
LEMMA GateOnward ==
  ASSUME Shaped, NEW r \in Runners,
         AuthorizationPhase(r) \/ RefreshSnapshot(r) \/ MonthEndReminder(r) \/ CashPhase(r)
  PROVE  Onward(r)
<1>1. CASE AuthorizationPhase(r)
  <2>1. PICK pc \in {"reminder", "refresh"} : Become(r, [pc |-> pc]) \/ Exit(r, 0)
    BY <1>1 DEF AuthorizationPhase
  <2>q. QED BY <1>1, <2>1, BecomeOnward, ExitOnward DEF AuthorizationPhase, At, Early
<1>2. CASE RefreshSnapshot(r)
  <2>1. PICK pc \in {"cash", "remind"} : Become(r, [pc |-> pc])
    BY <1>2 DEF RefreshSnapshot
  <2>q. QED BY <1>2, <2>1, BecomeOnward DEF RefreshSnapshot, At, Early
<1>3. CASE MonthEndReminder(r)
  <2>1. PICK note : Exit(r, 0) \/ Become(r, [pc |-> "notify", note |-> note, code |-> 0])
    BY <1>3 DEF MonthEndReminder
  <2>q. QED BY <2>1, BecomeOnward, ExitOnward DEF Early
<1>4. CASE CashPhase(r)
  <2>1. PICK gate, belief, note :
          \/ Become(r, [pc |-> "enter", gate |-> gate, belief |-> belief])
          \/ Become(r, [pc |-> "notify", note |-> note, gate |-> gate, belief |-> belief,
                        code |-> 0])
          \/ Leave(r, [gate |-> gate, code |-> 0])
    BY <1>4 DEF CashPhase
  <2>q. QED BY <1>4, <2>1, BecomeOnward, LeaveOnward DEF CashPhase, At, Early
<1>q. QED BY <1>1, <1>2, <1>3, <1>4

(* The record and what follows from it are onward.                            *)
LEMMA RecordOnward ==
  ASSUME Shaped, NEW r \in Runners,
         RecordRun(r) \/ RecordDiscovery(r) \/ Gather(r) \/ Promote(r) \/ MintLeg(r)
  PROVE  Onward(r)
<1>1. CASE RecordRun(r)
  <2>1. PICK pc \in {"gather", "notify"} :
          \E note, problem : Become(r, [pc |-> pc, note |-> note, problem |-> problem])
    BY <1>1 DEF RecordRun
  <2>q. QED BY <2>1, BecomeOnward DEF Early
<1>2. CASE RecordDiscovery(r)
  BY <1>2, ExitOnward DEF RecordDiscovery
<1>3. CASE Gather(r)
  <2>1. PICK ready : Become(r, [pc |-> "promote", ready |-> ready])
    BY <1>3 DEF Gather
  <2>q. QED BY <2>1, BecomeOnward DEF Early
<1>4. CASE Promote(r)
  <2>1. PICK pc \in {"notify", "mint"} :
          \E note, refused : Become(r, [pc |-> pc, refused |-> refused, note |-> note])
    BY <1>4 DEF Promote
  <2>q. QED BY <2>1, BecomeOnward DEF Early
<1>5. CASE MintLeg(r)
  <2>1. CASE UNCHANGED runner
    BY <1>5, <2>1 DEF MintLeg, At, Onward, Shaped, Early
  <2>2. CASE Become(r, [pc |-> "notify"])
    BY <2>2, BecomeOnward DEF Early
  <2>q. QED BY <1>5, <2>1, <2>2 DEF MintLeg
<1>q. QED BY <1>1, <1>2, <1>3, <1>4, <1>5

(* Notifying and crashing are onward.                                         *)
LEMMA NotifyOnward ==
  ASSUME Shaped, NEW r \in Runners,
         NotifyDecide(r) \/ Deliver(r) \/ SaveLedger(r) \/ Crash(r)
  PROVE  Onward(r)
<1>1. CASE NotifyDecide(r)
  <2>1. PICK code, ledger :
          \/ Become(r, [pc |-> "deliver", code |-> code, ledger |-> ledger])
          \/ Exit(r, code)
    BY <1>1 DEF NotifyDecide
  <2>q. QED BY <2>1, BecomeOnward, ExitOnward DEF Early
<1>2. CASE Deliver(r)
  <2>1. Become(r, [pc |-> "save"]) \/ Leave(r, [undelivered |-> TRUE])
    BY <1>2 DEF Deliver
  <2>q. QED BY <2>1, BecomeOnward, LeaveOnward DEF Early
<1>3. CASE SaveLedger(r)
  BY <1>3, LeaveOnward DEF SaveLedger
<1>4. CASE Crash(r)
  BY <1>4, ExitOnward DEF Crash
<1>q. QED BY <1>1, <1>2, <1>3, <1>4

(* The two steps that take a digest before a model runs, or end the run.      *)
LEMMA DigestFine ==
  ASSUME BlameInv, NEW r \in Runners, Witness(r), NEW changes, Become(r, changes),
         DOMAIN changes \cap {"unsafe", "stray"} = {},
         "base" \in DOMAIN changes, changes["base"] = RunDigest,
         ~handed, runner[r].pc \in Early, UNCHANGED <<RunDigest, handed, archive>>
  PROVE  BlameInv'
<1>1. /\ Shaped'
      /\ \A s \in Runners \ {r} : runner'[s] = runner[s]
      /\ runner'[r].unsafe = runner[r].unsafe /\ runner'[r].base = RunDigest
  BY BecomeChanges DEF BlameInv, Fields
<1>2. Fine(r)'
  BY <1>1 DEF BlameInv, Fine
<1>3. ASSUME NEW s \in Runners \ {r} PROVE Fine(s)'
  BY <1>1, <1>3, BystandersFine
<1>q. QED BY <1>1, <1>2, <1>3 DEF BlameInv

(* The digest is taken as a run starts and as its model is entered.           *)
LEMMA EntryFine ==
  ASSUME BlameInv, NEW r \in Runners, Start(r) \/ EnterModel(r), Witness(r)
  PROVE  BlameInv'
<1>1. /\ UNCHANGED <<RunDigest, handed, archive>>
      /\ runner[r].pc \in Early
  BY DEF Start, EnterModel, RunDigest, owner, files, notices, At, Early
<1>2. CASE Start(r)
  <2>1. PICK job \in {"evaluation", "discovery"} :
          \/ ~handed /\ Become(r, [pc |-> IF job = "evaluation" THEN "gate" ELSE "model",
                                   job |-> job, base |-> RunDigest])
          \/ Leave(r, [job |-> job, code |-> 1])
    BY <1>2 DEF Start, PreflightSafe
  <2>q. QED BY <1>1, <2>1, DigestFine, LeaveOnward, OnwardFine DEF BlameInv
<1>3. CASE EnterModel(r)
  <2>1. (~handed /\ Become(r, [pc |-> "model", base |-> RunDigest])) \/ Exit(r, 1)
    BY <1>3 DEF EnterModel, PreflightSafe
  <2>q. QED BY <1>1, <2>1, DigestFine, ExitOnward, OnwardFine DEF BlameInv
<1>q. QED BY <1>2, <1>3

(* A model that writes nothing amiss leaves the digest as it was.             *)
LEMMA ModelFine ==
  ASSUME BlameInv, NEW r \in Runners, Model(r), Witness(r)
  PROVE  BlameInv'
<1>1. PICK stray, ok : /\ StrayEffect(r, stray)
                       /\ Become(r, [pc |-> "postflight", ok |-> ok, stray |-> stray])
  BY DEF Model
<1>2. UNCHANGED <<owner, gathered, minted, sent>> /\ runner[r].pc = "model"
  BY DEF Model, notices, At
<1>3. archive' \in Nat \cup {None}
  BY <1>1, ScheduledConstants DEF StrayEffect, BlameInv, AtLeastZero
<1>4. stray = None => RunDigest' = RunDigest /\ handed' = handed
  <2>1. SUFFICES ASSUME stray = None PROVE RunDigest' = RunDigest /\ handed' = handed
    OBVIOUS
  <2>2. stray \notin {"budget", "cash", "deletes", "guts", "trims"}
    BY <2>1, ScheduledConstants DEF Strays
  <2>3. UNCHANGED <<protected, snapshot, archive>>
    BY <1>1, <2>2 DEF StrayEffect
  <2>q. QED BY <1>2, <2>3 DEF RunDigest, owner
<1>5. /\ Shaped'
      /\ \A s \in Runners \ {r} : runner'[s] = runner[s]
      /\ runner'[r].pc = "postflight" /\ runner'[r].stray = stray
      /\ runner'[r].unsafe = runner[r].unsafe /\ runner'[r].base = runner[r].base
  BY <1>1, BecomeChanges DEF BlameInv, Fields
<1>6. Fine(r)'
  <2>1. ~runner[r].unsafe /\ (r \notin others => runner[r].base = RunDigest /\ ~handed)
    BY <1>2 DEF BlameInv, Fine, Early, Watched
  <2>2. others \subseteq others'
    BY DEF Witness
  <2>q. QED BY <1>4, <1>5, <2>1, <2>2 DEF Fine, Early, Watched
<1>7. ASSUME NEW s \in Runners \ {r} PROVE Fine(s)'
  BY <1>5, <1>7, BystandersFine
<1>q. QED BY <1>3, <1>5, <1>6, <1>7 DEF BlameInv

(* A digest never fails the comparison with itself.                           *)
LEMMA SameIsSafe ==
  ASSUME archive \in Nat \cup {None}, ~handed
  PROVE  PostflightSafe(RunDigest, RunDigest, handed)
<1>1. UnauthorizedWrites(RunDigest.tree, RunDigest.tree) = {}
  BY DEF UnauthorizedWrites, Changed
<1>2. ~ArchiveLost(archive, archive)
  BY NoneIsNoNumber DEF ArchiveLost
<1>3. RunDigest.archive = archive
  BY DEF RunDigest
<1>4. ~ApprovalChanges(RunDigest.tree.approvals, RunDigest.tree.approvals)
  BY DEF ApprovalChanges
<1>q. QED BY <1>1, <1>2, <1>3, <1>4 DEF PostflightSafe

(* A check that finds something amiss has somebody to blame for it.           *)
LEMMA PostflightFine ==
  ASSUME BlameInv, NEW r \in Runners, Postflight(r), Witness(r)
  PROVE  BlameInv'
<1> DEFINE bad == ~PostflightSafe(runner[r].base, RunDigest, handed)
<1>1. /\ Become(r, [pc |-> "record", base |-> None, unsafe |-> bad])
      /\ runner[r].pc = "postflight" /\ archive' = archive
  BY DEF Postflight, At, files
<1>2. bad => runner[r].stray # None \/ r \in others
  BY <1>1, SameIsSafe DEF BlameInv, Fine, Watched
<1> HIDE DEF bad
<1>3. /\ Shaped'
      /\ \A s \in Runners \ {r} : runner'[s] = runner[s]
      /\ runner'[r].pc = "record" /\ runner'[r].stray = runner[r].stray
      /\ runner'[r].unsafe = bad
  BY <1>1, BecomeChanges DEF BlameInv, Fields
<1>4. Fine(r)'
  BY <1>2, <1>3 DEF Fine, Early, Watched, Witness
<1>5. ASSUME NEW s \in Runners \ {r} PROVE Fine(s)'
  BY <1>3, <1>5, BystandersFine
<1>q. QED BY <1>1, <1>3, <1>4, <1>5 DEF BlameInv

(* A step of the owner, or of nobody.                                         *)
LEMMA ElsewhereFine ==
  ASSUME BlameInv, UNCHANGED <<runner, archive>>,
         Witness(Owner) \/ UNCHANGED <<others, RunDigest, handed>>
  PROVE  BlameInv'
<1>1. CASE UNCHANGED <<others, RunDigest, handed>>
  BY <1>1 DEF BlameInv, Shaped, Fine, Watched
<1>2. CASE Witness(Owner)
  <2>1. ASSUME NEW s \in Runners PROVE Fine(s)'
    BY <1>2, <2>1, BystandersFine, ScheduledConstants DEF Owner
  <2>q. QED BY <2>1 DEF BlameInv, Shaped
<1>q. QED BY <1>1, <1>2

(* Nobody has been blamed.                                                    *)
LEMMA BlameInit == Init => BlameInv
<1> SUFFICES ASSUME Init PROVE BlameInv
  OBVIOUS
<1>1. runner = [r \in Runners |-> Idle] /\ archive \in Nat
  BY ScheduledConstants DEF Init
<1>2. Shaped
  BY <1>1 DEF Shaped, Idle, Fields
<1>3. ASSUME NEW r \in Runners PROVE Fine(r)
  BY <1>1 DEF Idle, Fine, Watched
<1>q. QED BY <1>1, <1>2, <1>3 DEF BlameInv

(* Every step of a run keeps the blame where it belongs.                      *)
LEMMA RunnerKeepsBlame ==
  ASSUME BlameInv, NEW r \in Runners, RunnerStep(r) \/ Start(r) \/ Crash(r), Witness(r)
  PROVE  BlameInv'
<1>s. Shaped
  BY DEF BlameInv
<1>1. CASE Start(r) \/ EnterModel(r)
  BY <1>1, EntryFine
<1>2. CASE Model(r)
  BY <1>2, ModelFine
<1>3. CASE Postflight(r)
  BY <1>3, PostflightFine
<1>4. CASE AuthorizationPhase(r) \/ RefreshSnapshot(r) \/ MonthEndReminder(r) \/ CashPhase(r)
  <2>1. archive' = archive
    BY <1>4 DEF AuthorizationPhase, RefreshSnapshot, MonthEndReminder, CashPhase, files
  <2>q. QED BY <1>s, <1>4, <2>1, GateOnward, OnwardFine
<1>5. CASE RecordRun(r) \/ RecordDiscovery(r) \/ Gather(r) \/ Promote(r) \/ MintLeg(r)
  <2>1. archive' = archive
    BY <1>5 DEF RecordRun, RecordDiscovery, Gather, Promote, MintLeg, files
  <2>q. QED BY <1>s, <1>5, <2>1, RecordOnward, OnwardFine
<1>6. CASE NotifyDecide(r) \/ Deliver(r) \/ SaveLedger(r) \/ Crash(r)
  <2>1. archive' = archive
    BY <1>6 DEF NotifyDecide, Deliver, SaveLedger, Crash, files
  <2>q. QED BY <1>s, <1>6, <2>1, NotifyOnward, OnwardFine
<1>q. QED BY <1>1, <1>2, <1>3, <1>4, <1>5, <1>6 DEF RunnerStep

(* Every step does.                                                           *)
LEMMA BlameStep == BlameInv /\ [Next]_vars => BlameInv'
<1> SUFFICES ASSUME BlameInv, [Next]_vars PROVE BlameInv'
  OBVIOUS
<1>1. CASE UNCHANGED vars
  <2>1. UNCHANGED <<runner, archive, others, RunDigest, handed>>
    BY <1>1 DEF vars, owner, files, notices, RunDigest
  <2>q. QED BY <2>1, ElsewhereFine
<1>2. ASSUME NEW r \in Runners, RunnerStep(r) \/ Start(r) \/ Crash(r), Witness(r)
      PROVE  BlameInv'
  BY <1>2, RunnerKeepsBlame
<1>3. CASE (MintLeg(Owner) \/ PromoteByHand \/ OwnerActs \/ LedgerSpoilt) /\ Witness(Owner)
  <2>1. UNCHANGED <<runner, archive>>
    BY <1>3 DEF MintLeg, PromoteByHand, OwnerActs, LedgerSpoilt, files
  <2>q. QED BY <1>3, <2>1, ElsewhereFine
<1>4. CASE Tick /\ UNCHANGED others
  <2>1. UNCHANGED <<runner, archive, others, RunDigest, handed>>
    BY <1>4 DEF Tick, owner, files, notices, RunDigest
  <2>q. QED BY <2>1, ElsewhereFine
<1>5. Next => \/ \E r \in Runners : (RunnerStep(r) \/ Start(r) \/ Crash(r)) /\ Witness(r)
              \/ (MintLeg(Owner) \/ PromoteByHand \/ OwnerActs \/ LedgerSpoilt) /\ Witness(Owner)
              \/ Tick /\ UNCHANGED others
  BY DEF Next, Ordinary, Disturbance
<1>q. QED BY <1>1, <1>2, <1>3, <1>4, <1>5

(* A failed safety check is never the runner's own doing: the run's model      *)
(* wrote amiss, or somebody else wrote between the model's entry and the check *)
(* (scheduled_evaluation.sh, which takes the digest again for that). So it is  *)
(* for any number of overlapping jobs, crashing anywhere.                      *)
THEOREM BlameJustified == Spec => []BlameHasACause
<1>1. BlameInv => BlameHasACause
  BY DEF BlameInv, Fine, BlameHasACause
<1>q. QED BY BlameInit, BlameStep, <1>1, PTL DEF Spec
=============================================================================
