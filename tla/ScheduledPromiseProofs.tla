------------------------- MODULE ScheduledPromiseProofs -------------------------
(* What the scheduled runs promise the owner, proved for any number of        *)
(* overlapping jobs, any outputs of the model, any amounts and bounds: what   *)
(* his alerts mean, what a clean exit means, and what is promoted.            *)
EXTENDS ScheduledRunProofs, SumProofs, SequenceTheorems

(* --- what each step writes of its process ---------------------------------- *)

(* Only these fields of only this process may change. *)
Only(r, F) ==
  /\ Shaped'
  /\ \A s \in Runners \ {r} : runner'[s] = runner[s]
  /\ \A f \in Fields \ F : runner'[r][f] = runner[r][f]

(* A process that goes on writes what it says it writes.                      *)
LEMMA BecomeOnly ==
  ASSUME Shaped, NEW r \in Runners, NEW changes, Become(r, changes),
         DOMAIN changes \subseteq Fields
  PROVE  /\ Only(r, DOMAIN changes)
         /\ \A f \in DOMAIN changes : runner'[r][f] = changes[f]
  BY BecomeChanges DEF Only

(* The end of a process clears what it worked with. *)
Cleared == {"pc", "base", "ledger", "belief", "ready"}

(* A process that leaves forgets what it held.                                *)
LEMMA LeaveOnly ==
  ASSUME Shaped, NEW r \in Runners, NEW changes, Leave(r, changes),
         DOMAIN changes \subseteq {"job", "code", "undelivered", "gate"}
  PROVE  /\ Only(r, Cleared \cup DOMAIN changes)
         /\ runner'[r].pc = "exit"
         /\ \A f \in DOMAIN changes : runner'[r][f] = changes[f]
<1> DEFINE all == [f \in DOMAIN Left \cup DOMAIN changes |->
                     IF f \in DOMAIN changes THEN changes[f] ELSE Left[f]]
<1>1. Become(r, all)
  BY DEF Leave
<1>2. /\ DOMAIN all = Cleared \cup DOMAIN changes
      /\ all["pc"] = "exit" /\ \A f \in DOMAIN changes : all[f] = changes[f]
  BY DEF Left, Cleared
<1>3. Cleared \cup DOMAIN changes \subseteq Fields
  BY DEF Cleared, Fields
<1> HIDE DEF all
<1>q. QED BY <1>1, <1>2, <1>3, BecomeOnly DEF Cleared

(* The process ends with an exit code. *)
Ends(r, code) ==
  /\ Only(r, Cleared \cup {"code"})
  /\ runner'[r].pc = "exit" /\ runner'[r].code = code

(* An exit leaves with its code.                                              *)
LEMMA ExitEnds ==
  ASSUME Shaped, NEW r \in Runners, NEW code, Exit(r, code)
  PROVE  Ends(r, code)
  BY LeaveOnly DEF Exit, Ends

(* Before the model: the process goes on, takes the digest a model is held    *)
(* to, has something to say, or ends.                                         *)
GoesOn(r) ==
  /\ Only(r, {"pc", "belief", "gate"})
  /\ runner'[r].pc \in {"reminder", "refresh", "cash", "remind", "enter"}
TakesDigest(r) ==
  /\ Only(r, {"pc", "job", "base"})
  /\ runner'[r].pc \in {"gate", "model"} /\ runner'[r].base = RunDigest
HasToSay(r) ==
  /\ Only(r, {"pc", "note", "belief", "gate", "code"})
  /\ runner'[r].pc = "notify" /\ runner'[r].code = 0
  /\ runner'[r].note # None => runner'[r].note.kind \in NOTIFICATION_KINDS
EndsEarly(r) ==
  /\ Only(r, Cleared \cup {"job", "gate", "code"})
  /\ runner'[r].pc = "exit" /\ runner'[r].code \in {0, 1}

(* What the gate has to say is of a kind the notifications have.              *)
LEMMA GateNoteKnown ==
  ASSUME NEW gate, NEW file, GateNote(gate, file) # None
  PROVE  GateNote(gate, file).kind \in NOTIFICATION_KINDS
  BY DEF GateNote, FundingRequired, MonthEndFunding, Note, NOTIFICATION_KINDS

(* Those are all the ways on until the model runs.                            *)
LEMMA BeforeModel ==
  ASSUME Shaped, NEW r \in Runners,
         Start(r) \/ AuthorizationPhase(r) \/ RefreshSnapshot(r) \/ MonthEndReminder(r)
           \/ CashPhase(r) \/ EnterModel(r)
  PROVE  GoesOn(r) \/ TakesDigest(r) \/ HasToSay(r) \/ EndsEarly(r)
<1>e. ASSUME NEW code \in {0, 1}, Exit(r, code) PROVE EndsEarly(r)
  BY <1>e, ExitEnds DEF Ends, EndsEarly, Only
<1>1. CASE Start(r)
  <2>1. PICK job \in {"evaluation", "discovery"} :
          \/ Become(r, [pc |-> IF job = "evaluation" THEN "gate" ELSE "model",
                        job |-> job, base |-> RunDigest])
          \/ Leave(r, [job |-> job, code |-> 1])
    BY <1>1 DEF Start
  <2>2. ASSUME NEW pc \in {"gate", "model"},
               Become(r, [pc |-> pc, job |-> job, base |-> RunDigest])
        PROVE  TakesDigest(r)
    BY <2>2, BecomeOnly DEF TakesDigest, Fields
  <2>3. CASE Leave(r, [job |-> job, code |-> 1])
    BY <2>3, LeaveOnly DEF EndsEarly, Only
  <2>q. QED BY <2>1, <2>2, <2>3
<1>2. ASSUME NEW pc \in {"reminder", "refresh", "cash", "remind"}, Become(r, [pc |-> pc])
      PROVE  GoesOn(r)
  BY <1>2, BecomeOnly DEF GoesOn, Fields, Only
<1>3. CASE AuthorizationPhase(r)
  <2>1. PICK pc \in {"reminder", "refresh"} : Become(r, [pc |-> pc]) \/ Exit(r, 0)
    BY <1>3 DEF AuthorizationPhase
  <2>q. QED BY <1>e, <1>2, <2>1
<1>4. CASE RefreshSnapshot(r)
  <2>1. PICK pc \in {"cash", "remind"} : Become(r, [pc |-> pc])
    BY <1>4 DEF RefreshSnapshot
  <2>q. QED BY <1>2, <2>1
<1>5. CASE MonthEndReminder(r)
  <2>1. PICK note : /\ note # None => note.kind \in NOTIFICATION_KINDS
                    /\ Exit(r, 0) \/ Become(r, [pc |-> "notify", note |-> note, code |-> 0])
    BY <1>5, GateNoteKnown DEF MonthEndReminder
  <2>2. CASE Become(r, [pc |-> "notify", note |-> note, code |-> 0])
    BY <2>1, <2>2, BecomeOnly DEF HasToSay, Fields, Only
  <2>q. QED BY <1>e, <2>1, <2>2
<1>6. CASE CashPhase(r)
  <2>1. PICK gate, belief, note :
          /\ note # None => note.kind \in NOTIFICATION_KINDS
          /\ \/ Become(r, [pc |-> "enter", gate |-> gate, belief |-> belief])
             \/ Become(r, [pc |-> "notify", note |-> note, gate |-> gate, belief |-> belief,
                           code |-> 0])
             \/ Leave(r, [gate |-> gate, code |-> 0])
    BY <1>6, GateNoteKnown DEF CashPhase
  <2>2. CASE Become(r, [pc |-> "enter", gate |-> gate, belief |-> belief])
    BY <2>2, BecomeOnly DEF GoesOn, Fields
  <2>3. CASE Become(r, [pc |-> "notify", note |-> note, gate |-> gate, belief |-> belief,
                        code |-> 0])
    BY <2>1, <2>3, BecomeOnly DEF HasToSay, Fields
  <2>4. CASE Leave(r, [gate |-> gate, code |-> 0])
    BY <2>4, LeaveOnly DEF EndsEarly, Only
  <2>q. QED BY <2>1, <2>2, <2>3, <2>4
<1>7. CASE EnterModel(r)
  <2>1. Become(r, [pc |-> "model", base |-> RunDigest]) \/ Exit(r, 1)
    BY <1>7 DEF EnterModel
  <2>2. CASE Become(r, [pc |-> "model", base |-> RunDigest])
    BY <2>2, BecomeOnly DEF TakesDigest, Fields, Only
  <2>q. QED BY <1>e, <2>1, <2>2
<1>q. QED BY <1>1, <1>3, <1>4, <1>5, <1>6, <1>7

(* After it: the record and the promotion of an evaluation.                   *)
Writes(r) ==
  /\ Only(r, {"pc", "note", "problem", "ready", "refused"})
  /\ runner'[r].pc \in {"gather", "promote", "mint", "notify"}
  /\ runner'[r].note # runner[r].note /\ runner'[r].note # None =>
       runner'[r].note.kind \in NOTIFICATION_KINDS

(* After the model: a record, what to gather, what to promote, what to say.   *)
LEMMA AfterModel ==
  ASSUME Shaped, NEW r \in Runners, RecordRun(r) \/ Gather(r) \/ Promote(r)
  PROVE  Writes(r)
<1>1. CASE RecordRun(r)
  <2> DEFINE pc == IF payloads[r] # None THEN "gather" ELSE "notify"
             note == IF payloads[r] = None THEN None
                     ELSE ActionableBuy(RecordedDecision(r), payloads[r].legs)
  <2>1. Become(r, [pc |-> pc, note |-> note, problem |-> RecordProblem(r)])
    BY <1>1 DEF RecordRun
  <2>2. note # None => note.kind \in NOTIFICATION_KINDS
    BY DEF ActionableBuy, Note, NOTIFICATION_KINDS
  <2>3. pc \in {"gather", "notify"}
    OBVIOUS
  <2> HIDE DEF pc, note
  <2>q. QED BY <2>1, <2>2, <2>3, BecomeOnly DEF Writes, Fields, Only
<1>2. CASE Gather(r)
  <2>1. PICK ready : Become(r, [pc |-> "promote", ready |-> ready])
    BY <1>2 DEF Gather
  <2>q. QED BY <2>1, BecomeOnly DEF Writes, Fields, Only
<1>3. CASE Promote(r)
  <2> DEFINE file == IF runner[r].ready THEN gathered ELSE None
             pc == IF Planned(payloads[r], file) = <<>> THEN "notify" ELSE "mint"
             note == IF Refused(payloads[r], file) THEN Failure("PROMOTION_FAILED", "refused")
                     ELSE runner[r].note
  <2>1. PICK refused : Become(r, [pc |-> pc, refused |-> refused, note |-> note])
    BY <1>3 DEF Promote
  <2>2. /\ pc \in {"notify", "mint"}
        /\ note # runner[r].note => note = Failure("PROMOTION_FAILED", "refused")
    OBVIOUS
  <2>3. Failure("PROMOTION_FAILED", "refused").kind \in NOTIFICATION_KINDS
    BY DEF Failure, Note, NOTIFICATION_KINDS
  <2> HIDE DEF pc, note
  <2>q. QED BY <2>1, <2>2, <2>3, BecomeOnly DEF Writes, Fields, Only
<1>q. QED BY <1>1, <1>2, <1>3

(* A leg logged: the process stays or, after the last one, goes on.           *)
LEMMA MintOnly ==
  ASSUME Shaped, NEW r \in Runners, MintLeg(r)
  PROVE  /\ runner[r].pc = "mint"
         /\ \/ runner' = runner
            \/ Only(r, {"pc"}) /\ runner'[r].pc = "notify"
<1>1. CASE Become(r, [pc |-> "notify"])
  BY <1>1, BecomeOnly DEF MintLeg, Fields, At
<1>q. QED BY <1>1 DEF MintLeg, At

(* --- what the owner is told ------------------------------------------------ *)

(* What a ledger of notifications claims was said was said, then.             *)
Honest(ledger) ==
  /\ DOMAIN ledger = NOTIFICATION_KINDS
  /\ \A kind \in NOTIFICATION_KINDS :
       ledger[kind] # None =>
         \E s \in said : s.fingerprint = ledger[kind].fingerprint /\ s.at <= ledger[kind].at
Told(note) == \E s \in said : s.fingerprint = note.fingerprint
Silent == Early \cup {"postflight", "record"}
AlertShell(p) ==
  /\ p.note # None => p.note.kind \in NOTIFICATION_KINDS
  /\ p.pc \in Silent => p.note = None
  /\ p.pc \in {"deliver", "save"} => Honest(p.ledger)
  /\ p.pc = "save" => Told(p.note)
  /\ p.pc = "exit" /\ p.code # -1 /\ p.note # None /\ ~p.undelivered => Told(p.note)
AlertInv ==
  /\ Shaped
  /\ clock \in Nat
  /\ \A s \in said : s.at \in Nat /\ s.at <= clock
  /\ sent # None => Honest(sent)
  /\ \A r \in Runners : AlertShell(runner[r])

(* What was said stays said.                                                  *)
LEMMA HonestStays ==
  ASSUME said \subseteq said'
  PROVE  /\ \A ledger : Honest(ledger) => Honest(ledger)'
         /\ \A note : Told(note) => Told(note)'
         /\ \A p : AlertShell(p) => AlertShell(p)'
  BY DEF Honest, Told, AlertShell

(* One process moves, and says nothing.                                       *)
LEMMA QuietAlert ==
  ASSUME AlertInv, UNCHANGED <<clock, said>>, sent' \in {sent, None}, NEW r \in Runners,
         Shaped', \A s \in Runners \ {r} : runner'[s] = runner[s], AlertShell(runner'[r])
  PROVE  AlertInv'
<1>1. \A p : AlertShell(p) => AlertShell(p)'
  BY HonestStays
<1>2. \A ledger : Honest(ledger) => Honest(ledger)'
  BY HonestStays
<1>3. ASSUME NEW s \in Runners PROVE AlertShell(runner[s])'
  <2>1. PICK p : p = runner'[s] /\ AlertShell(p)
    BY DEF AlertInv
  <2>2. AlertShell(p)'
    BY <1>1, <2>1
  <2>q. QED BY <2>1, <2>2 DEF AlertShell
<1>4. sent' # None => Honest(sent)'
  <2>1. SUFFICES ASSUME sent' # None PROVE Honest(sent)'
    OBVIOUS
  <2>2. sent' = sent /\ Honest(sent)
    BY <2>1 DEF AlertInv
  <2>q. QED BY <2>2 DEF Honest
<1>q. QED BY <1>3, <1>4 DEF AlertInv

(* The step before the model, and the model's, are of a process with nothing  *)
(* to say yet; the record's and the promotion's give it something.            *)
LEMMA EarlyAlert ==
  ASSUME AlertInv, NEW r \in Runners,
         Start(r) \/ AuthorizationPhase(r) \/ RefreshSnapshot(r) \/ MonthEndReminder(r)
           \/ CashPhase(r) \/ EnterModel(r)
  PROVE  AlertInv'
<1>1. UNCHANGED <<clock, said, sent>> /\ runner[r].pc \in Early
  BY DEF Start, AuthorizationPhase, RefreshSnapshot, MonthEndReminder, CashPhase, EnterModel,
         notices, At, Early
<1>2. runner[r].note = None
  BY <1>1 DEF AlertInv, AlertShell, Silent
<1>3. Shaped
  BY DEF AlertInv
<1>4. GoesOn(r) \/ TakesDigest(r) \/ HasToSay(r) \/ EndsEarly(r)
  BY <1>3, BeforeModel
<1>5. /\ Shaped' /\ \A s \in Runners \ {r} : runner'[s] = runner[s]
      /\ AlertShell(runner'[r])
  <2>1. CASE GoesOn(r)
    BY <1>2, <2>1 DEF GoesOn, Only, AlertShell, Fields
  <2>2. CASE TakesDigest(r)
    BY <1>2, <2>2 DEF TakesDigest, Only, AlertShell, Fields
  <2>3. CASE HasToSay(r)
    BY <2>3 DEF HasToSay, Only, AlertShell, Silent, Early
  <2>4. CASE EndsEarly(r)
    BY <1>2, <2>4 DEF EndsEarly, Only, AlertShell, Fields, Cleared
  <2>q. QED BY <1>4, <2>1, <2>2, <2>3, <2>4
<1>q. QED BY <1>1, <1>5, QuietAlert

(* The model's step, and the check after it, by what they write.              *)
LEMMA ModelOnly ==
  ASSUME Shaped, NEW r \in Runners, Model(r)
  PROVE  /\ Only(r, {"pc", "ok", "stray"})
         /\ runner[r].pc = "model" /\ runner'[r].pc = "postflight"
         /\ UNCHANGED <<clock, sent, said, minted, todo>>
<1>1. PICK ok, stray : Become(r, [pc |-> "postflight", ok |-> ok, stray |-> stray])
  BY DEF Model
<1>2. runner[r].pc = "model" /\ UNCHANGED <<clock, sent, said, minted, todo>>
  BY DEF Model, At, notices
<1>q. QED BY <1>1, <1>2, BecomeOnly DEF Fields

(* The check after the model compares, and says whether all is safe.          *)
LEMMA PostflightOnly ==
  ASSUME Shaped, NEW r \in Runners, Postflight(r)
  PROVE  /\ Only(r, {"pc", "base", "unsafe"})
         /\ runner[r].pc = "postflight" /\ runner'[r].pc = "record"
         /\ runner'[r].unsafe = ~PostflightSafe(runner[r].base, RunDigest, handed)
<1> DEFINE bad == ~PostflightSafe(runner[r].base, RunDigest, handed)
<1>1. Become(r, [pc |-> "record", base |-> None, unsafe |-> bad]) /\ runner[r].pc = "postflight"
  BY DEF Postflight, At
<1> HIDE DEF bad
<1>2. runner'[r].unsafe = bad /\ Only(r, {"pc", "base", "unsafe"}) /\ runner'[r].pc = "record"
  BY <1>1, BecomeOnly DEF Fields
<1>q. QED BY <1>1, <1>2 DEF bad

(* From the model to the decision to notify, nobody is told anything.         *)
LEMMA LaterAlert ==
  ASSUME AlertInv, NEW r \in Runners,
         Model(r) \/ Postflight(r) \/ RecordRun(r) \/ RecordDiscovery(r) \/ Gather(r)
           \/ Promote(r) \/ MintLeg(r) \/ Crash(r)
  PROVE  AlertInv'
<1>1. UNCHANGED <<clock, said, sent>>
  BY DEF Model, Postflight, RecordRun, RecordDiscovery, Gather, Promote, MintLeg, Crash, notices
<1>3. Shaped /\ AlertShell(runner[r])
  BY DEF AlertInv
<1>5. /\ Shaped' /\ \A s \in Runners \ {r} : runner'[s] = runner[s]
      /\ AlertShell(runner'[r])
  <2>1. CASE Model(r)
    BY <1>3, <2>1, ModelOnly DEF Only, AlertShell, Fields, Silent, Early
  <2>2. CASE Postflight(r)
    BY <1>3, <2>2, PostflightOnly DEF Only, AlertShell, Fields, Silent, Early
  <2>3. CASE RecordRun(r) \/ Gather(r) \/ Promote(r)
    <3>1. Writes(r)
      BY <1>3, <2>3, AfterModel
    <3>q. QED BY <1>3, <3>1 DEF Writes, Only, AlertShell, Silent, Early
  <2>4. CASE RecordDiscovery(r)
    <3>1. PICK code : Ends(r, code)
      BY <1>3, <2>4, ExitEnds DEF RecordDiscovery
    <3>2. runner[r].note = None
      BY <1>3, <2>4 DEF RecordDiscovery, At, AlertShell, Silent
    <3>q. QED BY <3>1, <3>2 DEF Ends, Only, AlertShell, Cleared, Fields
  <2>5. CASE MintLeg(r)
    BY <1>3, <2>5, MintOnly DEF Only, AlertShell, Fields, Silent, Early, Shaped
  <2>6. CASE Crash(r)
    <3>1. Ends(r, -1)
      BY <1>3, <2>6, ExitEnds DEF Crash
    <3>q. QED BY <1>3, <3>1 DEF Ends, Only, AlertShell, Cleared, Fields, Silent, Early
  <2>q. QED BY <2>1, <2>2, <2>3, <2>4, <2>5, <2>6
<1>q. QED BY <1>1, <1>5, QuietAlert

(* A note is held back only when the ledger, and so the owner, has it already. *)
LEMMA HeldBackIsKnown ==
  ASSUME NEW note, NEW ledger, NEW now, Honest(ledger), note.kind \in NOTIFICATION_KINDS,
         ~ShouldSend(note, ledger, now)
  PROVE  Told(note)
  BY DEF Honest, ShouldSend, Told

(* A note is to be shown, or held back because the owner knows.               *)
LEMMA DecideAlert ==
  ASSUME AlertInv, NEW r \in Runners, NotifyDecide(r)
  PROVE  AlertInv'
<1>1. UNCHANGED <<clock, said, sent>> /\ runner[r].pc = "notify"
  BY DEF NotifyDecide, notices, At
<1>2. Shaped /\ AlertShell(runner[r])
  BY DEF AlertInv
<1>3. Honest(LoadState(sent))
  <2>1. CASE sent = None
    BY <2>1 DEF LoadState, EmptyLedger, Honest
  <2>q. QED BY <2>1 DEF LoadState, AlertInv
<1>4. PICK code, ledger :
        /\ ledger = LoadState(sent)
        /\ \/ Become(r, [pc |-> "deliver", code |-> code, ledger |-> ledger])
           \/ /\ runner[r].note = None \/ ~ShouldSend(runner[r].note, ledger, clock)
              /\ Exit(r, code)
  BY DEF NotifyDecide
<1>5. CASE Become(r, [pc |-> "deliver", code |-> code, ledger |-> ledger])
  <2>1. /\ Only(r, {"pc", "code", "ledger"})
        /\ runner'[r].pc = "deliver" /\ runner'[r].ledger = ledger
    BY <1>2, <1>5, BecomeOnly DEF Fields
  <2>2. AlertShell(runner'[r])
    BY <1>2, <1>3, <1>4, <2>1 DEF AlertShell, Only, Fields, Silent, Early
  <2>q. QED BY <1>1, <2>1, <2>2, QuietAlert DEF Only
<1>6. CASE (runner[r].note = None \/ ~ShouldSend(runner[r].note, ledger, clock)) /\ Exit(r, code)
  <2>1. Ends(r, code)
    BY <1>2, <1>6, ExitEnds
  <2>2. runner[r].note # None => Told(runner[r].note)
    BY <1>2, <1>3, <1>4, <1>6, HeldBackIsKnown DEF AlertShell
  <2>3. AlertShell(runner'[r])
    BY <1>2, <2>1, <2>2 DEF AlertShell, Ends, Only, Fields, Silent, Early, Cleared
  <2>q. QED BY <1>1, <2>1, <2>3, QuietAlert DEF Only, Ends
<1>q. QED BY <1>4, <1>5, <1>6

(* Shown, and not yet recorded; or refused.                                   *)
LEMMA DeliverAlert ==
  ASSUME AlertInv, NEW r \in Runners, Deliver(r)
  PROVE  AlertInv'
<1>1. UNCHANGED <<clock, sent>> /\ runner[r].pc = "deliver"
  BY DEF Deliver, At
<1>2. Shaped /\ AlertShell(runner[r])
  BY DEF AlertInv
<1>3. CASE UNCHANGED said /\ Leave(r, [undelivered |-> TRUE])
  <2>1. /\ Only(r, Cleared \cup {"undelivered"})
        /\ runner'[r].pc = "exit" /\ runner'[r].undelivered = TRUE
    BY <1>2, <1>3, LeaveOnly
  <2>2. AlertShell(runner'[r])
    BY <1>2, <2>1 DEF AlertShell, Only, Fields, Silent, Early, Cleared
  <2>q. QED BY <1>1, <1>3, <2>1, <2>2, QuietAlert DEF Only
<1>4. CASE /\ said' = said \cup {[fingerprint |-> runner[r].note.fingerprint, at |-> clock]}
           /\ Become(r, [pc |-> "save"])
  <2>1. Only(r, {"pc"}) /\ runner'[r].pc = "save"
    BY <1>2, <1>4, BecomeOnly DEF Fields
  <2>2. /\ \A p : AlertShell(p) => AlertShell(p)'
        /\ \A ledger : Honest(ledger) => Honest(ledger)'
    BY <1>4, HonestStays
  <2>3. AlertShell(runner[r])'
    <3>1. /\ runner'[r].note = runner[r].note /\ runner'[r].ledger = runner[r].ledger
      BY <2>1 DEF Only, Fields
    <3>2. PICK note, ledger : note = runner[r].note /\ ledger = runner[r].ledger
      OBVIOUS
    <3>3. Honest(ledger)'
      BY <1>1, <1>2, <2>2, <3>2 DEF AlertShell
    <3>4. Told(note)'
      <4>1. PICK new : new = [fingerprint |-> runner[r].note.fingerprint, at |-> clock]
        OBVIOUS
      <4>2. new \in said' /\ new.fingerprint = note.fingerprint
        BY <1>4, <3>2, <4>1
      <4>q. QED BY <4>2 DEF Told
    <3>5. note # None => note.kind \in NOTIFICATION_KINDS
      BY <1>2, <3>2 DEF AlertShell
    <3>q. QED BY <2>1, <3>1, <3>2, <3>3, <3>4, <3>5 DEF AlertShell, Silent, Early, Honest, Told
  <2>4. ASSUME NEW s \in Runners \ {r} PROVE AlertShell(runner[s])'
    <3>1. PICK p : p = runner[s] /\ AlertShell(p)
      BY DEF AlertInv
    <3>2. AlertShell(p)'
      BY <2>2, <3>1
    <3>q. QED BY <2>1, <3>1, <3>2 DEF AlertShell, Only
  <2>5. \A s \in said' : s.at \in Nat /\ s.at <= clock'
    BY <1>1, <1>4 DEF AlertInv
  <2>6. sent' # None => Honest(sent)'
    <3>1. CASE sent # None
      <4>1. PICK ledger : ledger = sent /\ Honest(ledger)
        BY <3>1 DEF AlertInv
      <4>2. Honest(ledger)'
        BY <2>2, <4>1
      <4>q. QED BY <1>1, <4>1, <4>2 DEF Honest
    <3>q. QED BY <1>1, <3>1
  <2>q. QED BY <1>1, <2>1, <2>3, <2>4, <2>5, <2>6 DEF AlertInv, Only
<1>q. QED BY <1>3, <1>4 DEF Deliver

(* The ledger is written back with what was just shown, at a time no earlier. *)
LEMMA SaveAlert ==
  ASSUME AlertInv, NEW r \in Runners, SaveLedger(r)
  PROVE  AlertInv'
<1> DEFINE new == RecordSent(runner[r].note, runner[r].ledger, clock)
<1>1. /\ UNCHANGED <<clock, said>> /\ runner[r].pc = "save"
      /\ sent' = new /\ Leave(r, <<>>)
  BY DEF SaveLedger, At
<1>2. Shaped /\ AlertShell(runner[r])
  BY DEF AlertInv
<1>3. Only(r, Cleared) /\ runner'[r].pc = "exit"
  BY <1>1, <1>2, LeaveOnly
<1>4. AlertShell(runner'[r])
  BY <1>1, <1>2, <1>3 DEF AlertShell, Only, Fields, Silent, Early, Cleared
<1>5. Honest(new)
  <2>1. Honest(runner[r].ledger) /\ Told(runner[r].note)
    BY <1>1, <1>2 DEF AlertShell
  <2>2. PICK s \in said : s.fingerprint = runner[r].note.fingerprint /\ s.at <= clock
    BY <2>1 DEF Told, AlertInv
  <2>3. /\ DOMAIN new = NOTIFICATION_KINDS
        /\ \A kind \in NOTIFICATION_KINDS :
             \/ new[kind] = runner[r].ledger[kind]
             \/ new[kind].fingerprint = runner[r].note.fingerprint /\ new[kind].at = clock
    BY <2>1 DEF Honest, RecordSent
  <2>q. QED BY <2>1, <2>2, <2>3 DEF Honest
<1> HIDE DEF new
<1>6. /\ \A p : AlertShell(p) => AlertShell(p)'
      /\ Honest(sent)'
  BY <1>1, <1>5, HonestStays DEF Honest
<1>7. ASSUME NEW s \in Runners PROVE AlertShell(runner[s])'
  <2>1. PICK p : p = runner'[s] /\ AlertShell(p)
    BY <1>3, <1>4 DEF AlertInv, Only
  <2>2. AlertShell(p)'
    BY <1>6, <2>1
  <2>q. QED BY <2>1, <2>2 DEF AlertShell
<1>q. QED BY <1>1, <1>3, <1>6, <1>7 DEF AlertInv, Only

(* Nothing was said, and no ledger says otherwise.                            *)
LEMMA AlertInit == Init => AlertInv
<1> SUFFICES ASSUME Init PROVE AlertInv
  OBVIOUS
<1>1. runner = [r \in Runners |-> Idle]
  BY DEF Init
<1>2. Shaped
  BY <1>1 DEF Shaped, Idle, Fields
<1>3. ASSUME NEW r \in Runners PROVE AlertShell(runner[r])
  BY <1>1 DEF Idle, AlertShell
<1>4. clock \in Nat /\ said = {} /\ Honest(sent)
  BY DEF Init, Honest, EmptyLedger
<1>q. QED BY <1>2, <1>3, <1>4 DEF AlertInv

(* A step around the runs: time passes, the owner acts, the ledger is lost.   *)
LEMMA AroundAlert ==
  ASSUME AlertInv, UNCHANGED <<runner, said>>, clock' \in {clock, clock + 1},
         sent' \in {sent, None}
  PROVE  AlertInv'
<1>1. \A r \in Runners : AlertShell(runner[r])'
  BY DEF AlertInv, AlertShell, Honest, Told
<1>2. sent' # None => Honest(sent)'
  BY DEF AlertInv, Honest
<1>q. QED BY <1>1, <1>2 DEF AlertInv, Shaped

(* Every step keeps the ledger honest and the notes told.                     *)
LEMMA AlertStep == AlertInv /\ [Next]_vars => AlertInv'
<1> SUFFICES ASSUME AlertInv, [Next]_vars PROVE AlertInv'
  OBVIOUS
<1>1. CASE UNCHANGED vars
  BY <1>1, AroundAlert DEF vars, notices
<1>2. CASE MintLeg(Owner) \/ PromoteByHand \/ OwnerActs \/ LedgerSpoilt \/ Tick
  BY <1>2, AroundAlert DEF MintLeg, PromoteByHand, OwnerActs, LedgerSpoilt, Tick, notices
<1>3. ASSUME NEW r \in Runners, Start(r) \/ RunnerStep(r) \/ Crash(r)
      PROVE  AlertInv'
  BY <1>3, EarlyAlert, LaterAlert, DecideAlert, DeliverAlert, SaveAlert DEF RunnerStep
<1>q. QED BY <1>1, <1>2, <1>3, NextActions

(* Nothing is on the ledger as sent that the owner was not shown, no later    *)
(* than it says, whichever runs overlap, crash between showing and recording, *)
(* or write back a ledger they loaded before another did (notify.py).         *)
THEOREM LedgerStaysHonest == Spec => []LedgerIsHonest
<1>1. AlertInv => LedgerIsHonest
  BY DEF AlertInv, Honest, LedgerIsHonest
<1>q. QED BY AlertInit, AlertStep, <1>1, PTL DEF Spec

(* --- what a run owes the owner ---------------------------------------------- *)

Shortfall(r) == runner[r].gate # None /\ runner[r].gate.outcome = "FUNDING_REQUIRED"
Unpromoted == Early \cup {"postflight", "record", "gather", "promote"}

(* Before its model a run has left no recommendation, and a discovery leaves   *)
(* none; until it leaves the gate to notify it found no shortfall, and until   *)
(* it promotes nothing of it was refused; from the record on its note is what  *)
(* it owes.                                                                    *)
OwedShell(r) ==
  /\ runner[r].pc \in Early => payloads[r] = None
  /\ runner[r].pc \in {"postflight", "record"} /\ runner[r].job = "discovery" =>
       payloads[r] = None
  /\ runner[r].pc \in Unpromoted => ~Shortfall(r) /\ ~runner[r].refused
  /\ runner[r].pc \notin Early \cup {"postflight", "record"} /\ runner[r].code # -1 =>
       Owed(r) \in {None, runner[r].note}
OwedInv ==
  /\ Shaped
  /\ reports = [r \in Runners |-> reports[r]] /\ payloads = [r \in Runners |-> payloads[r]]
  /\ \A r \in Runners : OwedShell(r)

(* A process that does nothing owes what it owed.                             *)
LEMMA OwedStays ==
  ASSUME NEW r \in Runners, OwedShell(r), runner'[r] = runner[r],
         reports'[r] = reports[r], payloads'[r] = payloads[r]
  PROVE  OwedShell(r)'
  BY DEF OwedShell, Owed, Buys, Shortfall

(* One process moves, and leaves the documents alone.                         *)
LEMMA MoverOwes ==
  ASSUME OwedInv, UNCHANGED <<reports, payloads>>, NEW r \in Runners, NEW F, Only(r, F),
         OwedShell(r)'
  PROVE  OwedInv'
<1>1. ASSUME NEW s \in Runners \ {r} PROVE OwedShell(s)'
  BY OwedStays DEF OwedInv, Only
<1>q. QED BY <1>1 DEF OwedInv, Only

(* Without a recommendation, a shortfall or a refusal nothing is owed.        *)
LEMMA NothingOwed ==
  ASSUME NEW r \in Runners, payloads[r] = None, ~Shortfall(r), ~runner[r].refused
  PROVE  Owed(r) = None
  BY DEF Owed, Buys, Shortfall

(* The second phase of the gate: a shortfall is what the run says.            *)
LEMMA CashPhaseOwes ==
  ASSUME OwedInv, NEW r \in Runners, CashPhase(r)
  PROVE  OwedInv'
<1> DEFINE gate == EvaluateGate(remaining, Reserved, snapshot, clock)
           note == GateNote(gate, snapshot)
           belief == IF gate.cash = None THEN None ELSE snapshot
<1>1. /\ runner[r].pc = "cash" /\ UNCHANGED <<reports, payloads>> /\ Shaped
      /\ payloads[r] = None /\ ~runner[r].refused
  BY DEF CashPhase, At, files, OwedInv, OwedShell, Early, Unpromoted
<1>2. gate.outcome = "FUNDING_REQUIRED" => note = FundingRequired(gate, 0)
  BY DEF GateNote
<1>3. gate.outcome = "FUNDING_REQUIRED" => ExitCode(gate) = 11
  BY DEF ExitCode
<1>4. \/ gate.outcome # "FUNDING_REQUIRED"
         /\ Become(r, [pc |-> "enter", gate |-> gate, belief |-> belief])
      \/ Become(r, [pc |-> "notify", note |-> note, gate |-> gate, belief |-> belief,
                    code |-> 0])
      \/ /\ gate.outcome = "FUNDING_REQUIRED" => note = None
         /\ Leave(r, [gate |-> gate, code |-> 0])
  BY <1>3 DEF CashPhase
<1> HIDE DEF gate, note, belief
<1>5. CASE /\ gate.outcome # "FUNDING_REQUIRED"
           /\ Become(r, [pc |-> "enter", gate |-> gate, belief |-> belief])
  <2>1. /\ Only(r, {"pc", "gate", "belief"})
        /\ runner'[r].pc = "enter" /\ runner'[r].gate = gate
    BY <1>1, <1>5, BecomeOnly DEF Fields
  <2>2. ~runner'[r].refused
    BY <1>1, <2>1 DEF Only, Fields
  <2>3. OwedShell(r)'
    BY <1>1, <1>5, <2>1, <2>2 DEF OwedShell, Shortfall, Early
  <2>q. QED BY <1>1, <2>1, <2>3, MoverOwes
<1>6. CASE Become(r, [pc |-> "notify", note |-> note, gate |-> gate, belief |-> belief,
                      code |-> 0])
  <2>1. /\ Only(r, {"pc", "note", "gate", "belief", "code"})
        /\ runner'[r].pc = "notify" /\ runner'[r].gate = gate /\ runner'[r].note = note
    BY <1>1, <1>6, BecomeOnly DEF Fields
  <2>2. ~runner'[r].refused
    BY <1>1, <2>1 DEF Only, Fields
  <2>3. Owed(r)' \in {None, note}
    BY <1>1, <1>2, <2>1, <2>2 DEF Owed, Buys
  <2>4. OwedShell(r)'
    BY <2>1, <2>3 DEF OwedShell, Unpromoted, Early
  <2>q. QED BY <1>1, <2>1, <2>4, MoverOwes
<1>7. CASE /\ gate.outcome = "FUNDING_REQUIRED" => note = None
           /\ Leave(r, [gate |-> gate, code |-> 0])
  <2>1. /\ Only(r, Cleared \cup {"gate", "code"})
        /\ runner'[r].pc = "exit" /\ runner'[r].gate = gate
    BY <1>1, <1>7, LeaveOnly
  <2>2. ~runner'[r].refused
    BY <1>1, <2>1 DEF Only, Fields, Cleared
  <2>3. Owed(r)' = None
    BY <1>1, <1>2, <1>7, <2>1, <2>2 DEF Owed, Buys
  <2>4. OwedShell(r)'
    BY <2>1, <2>3 DEF OwedShell, Unpromoted, Early
  <2>q. QED BY <1>1, <2>1, <2>4, MoverOwes
<1>q. QED BY <1>4, <1>5, <1>6, <1>7

(* The rest of the way to the model finds no shortfall.                       *)
LEMMA EarlyOwes ==
  ASSUME OwedInv, NEW r \in Runners,
         Start(r) \/ AuthorizationPhase(r) \/ RefreshSnapshot(r) \/ MonthEndReminder(r)
           \/ EnterModel(r)
  PROVE  OwedInv'
<1>1. UNCHANGED <<reports, payloads>> /\ runner[r].pc \in Early
  BY DEF Start, AuthorizationPhase, RefreshSnapshot, MonthEndReminder, EnterModel, files, At, Early
<1>2. Shaped /\ payloads[r] = None /\ ~Shortfall(r) /\ ~runner[r].refused
  BY <1>1 DEF OwedInv, OwedShell, Unpromoted
<1>3. PICK F : Only(r, F) /\ "gate" \notin F /\ "refused" \notin F
               /\ runner'[r].pc \notin {"postflight", "record"}
  <2>x. ASSUME NEW code, Exit(r, code)
        PROVE  \E F : Only(r, F) /\ "gate" \notin F /\ "refused" \notin F
                      /\ runner'[r].pc \notin {"postflight", "record"}
    BY <1>2, <2>x, ExitEnds DEF Ends, Cleared
  <2>1. CASE Start(r)
    <3>0. PICK job \in {"evaluation", "discovery"} :
            \/ Become(r, [pc |-> IF job = "evaluation" THEN "gate" ELSE "model",
                          job |-> job, base |-> RunDigest])
            \/ Leave(r, [job |-> job, code |-> 1])
      BY <2>1 DEF Start
    <3>1. PICK pc \in {"gate", "model"} :
            \/ Become(r, [pc |-> pc, job |-> job, base |-> RunDigest])
            \/ Leave(r, [job |-> job, code |-> 1])
      BY <3>0
    <3>2. CASE Become(r, [pc |-> pc, job |-> job, base |-> RunDigest])
      BY <1>2, <3>2, BecomeOnly DEF Fields
    <3>3. CASE Leave(r, [job |-> job, code |-> 1])
      <4>1. Only(r, Cleared \cup {"job", "code"}) /\ runner'[r].pc = "exit"
        BY <1>2, <3>3, LeaveOnly
      <4>q. QED BY <4>1 DEF Cleared
    <3>q. QED BY <3>1, <3>2, <3>3
  <2>2. ASSUME NEW pc \in {"reminder", "refresh", "cash", "remind"}, Become(r, [pc |-> pc])
        PROVE  \E F : Only(r, F) /\ "gate" \notin F /\ "refused" \notin F
                      /\ runner'[r].pc \notin {"postflight", "record"}
    BY <1>2, <2>2, BecomeOnly DEF Fields
  <2>3. CASE AuthorizationPhase(r)
    <3>1. PICK pc \in {"reminder", "refresh"} : Become(r, [pc |-> pc]) \/ Exit(r, 0)
      BY <2>3 DEF AuthorizationPhase
    <3>q. QED BY <2>x, <2>2, <3>1
  <2>4. CASE RefreshSnapshot(r)
    <3>1. PICK pc \in {"cash", "remind"} : Become(r, [pc |-> pc])
      BY <2>4 DEF RefreshSnapshot
    <3>q. QED BY <2>2, <3>1
  <2>5. CASE MonthEndReminder(r)
    <3>1. PICK note : Exit(r, 0) \/ Become(r, [pc |-> "notify", note |-> note, code |-> 0])
      BY <2>5 DEF MonthEndReminder
    <3>2. CASE Become(r, [pc |-> "notify", note |-> note, code |-> 0])
      BY <1>2, <3>2, BecomeOnly DEF Fields
    <3>q. QED BY <2>x, <3>1, <3>2
  <2>6. CASE EnterModel(r)
    <3>1. Become(r, [pc |-> "model", base |-> RunDigest]) \/ Exit(r, 1)
      BY <2>6 DEF EnterModel
    <3>2. CASE Become(r, [pc |-> "model", base |-> RunDigest])
      BY <1>2, <3>2, BecomeOnly DEF Fields
    <3>q. QED BY <2>x, <3>1, <3>2
  <2>q. QED BY <2>1, <2>3, <2>4, <2>5, <2>6
<1>4. payloads'[r] = None /\ ~Shortfall(r)' /\ ~runner'[r].refused
  BY <1>1, <1>2, <1>3 DEF Only, Fields, Shortfall
<1>5. Owed(r)' = None
  BY <1>4 DEF Owed, Buys, Shortfall
<1>6. OwedShell(r)'
  BY <1>3, <1>4, <1>5 DEF OwedShell
<1>q. QED BY <1>1, <1>3, <1>6, MoverOwes

(* The model leaves the documents, a discovery's no recommendation.           *)
LEMMA ModelOwes ==
  ASSUME OwedInv, NEW r \in Runners, Model(r)
  PROVE  OwedInv'
<1>1. /\ Only(r, {"pc", "ok", "stray"}) /\ runner[r].pc = "model" /\ runner'[r].pc = "postflight"
  BY ModelOnly DEF OwedInv
<1>2. PICK report, payload :
        /\ reports' = [reports EXCEPT ![r] = report]
        /\ payloads' = payloads \/ payloads' = [payloads EXCEPT ![r] = payload]
        /\ runner[r].job = "discovery" => payloads' = payloads
  BY DEF Model
<1>3. /\ reports' = [s \in Runners |-> reports'[s]] /\ payloads' = [s \in Runners |-> payloads'[s]]
      /\ \A s \in Runners \ {r} : reports'[s] = reports[s] /\ payloads'[s] = payloads[s]
  BY <1>2 DEF OwedInv
<1>4. payloads[r] = None /\ ~Shortfall(r) /\ ~runner[r].refused
  BY <1>1 DEF OwedInv, OwedShell, Unpromoted, Early
<1>5. OwedShell(r)'
  <2>1. runner'[r].job = runner[r].job /\ ~Shortfall(r)' /\ ~runner'[r].refused
    BY <1>1, <1>4 DEF Only, Fields, Shortfall
  <2>q. QED BY <1>1, <1>2, <1>4, <2>1 DEF OwedShell, Early
<1>6. ASSUME NEW s \in Runners \ {r} PROVE OwedShell(s)'
  BY <1>1, <1>3, OwedStays DEF OwedInv, Only
<1>q. QED BY <1>1, <1>3, <1>5, <1>6 DEF OwedInv, Only

(* The record's note is the purchase that the audit record declares.          *)
LEMMA RecordOwes ==
  ASSUME OwedInv, NEW r \in Runners, RecordRun(r)
  PROVE  OwedInv'
<1> DEFINE note == IF payloads[r] = None THEN None
                   ELSE ActionableBuy(RecordedDecision(r), payloads[r].legs)
           problem == RecordProblem(r)
<1>1. PICK pc \in {"gather", "notify"} :
        Become(r, [pc |-> pc, note |-> note, problem |-> problem])
  BY DEF RecordRun
<1>2. /\ Shaped /\ runner[r].pc = "record" /\ UNCHANGED <<reports, payloads>>
      /\ ~Shortfall(r) /\ ~runner[r].refused
  BY DEF RecordRun, At, OwedInv, OwedShell, Unpromoted
<1>3. Buys(r) => note = ActionableBuy(reports[r].decision, payloads[r].legs)
  BY NoneIsNoBuy DEF Buys, RecordedDecision
<1> HIDE DEF note, problem
<1>4. Only(r, {"pc", "note", "problem"}) /\ runner'[r].pc = pc /\ runner'[r].note = note
  BY <1>1, <1>2, BecomeOnly DEF Fields
<1>5. ~Shortfall(r)' /\ ~runner'[r].refused
  BY <1>2, <1>4 DEF Only, Fields, Shortfall
<1>6. Owed(r)' \in {None, note}
  BY <1>2, <1>3, <1>5 DEF Owed, Buys, Shortfall
<1>7. OwedShell(r)'
  BY <1>4, <1>5, <1>6 DEF OwedShell, Early
<1>q. QED BY <1>2, <1>4, <1>7, MoverOwes

(* The refusal of a promotion takes the place of the purchase.                *)
LEMMA PromoteOwes ==
  ASSUME OwedInv, NEW r \in Runners, Promote(r)
  PROVE  OwedInv'
<1> DEFINE file == IF runner[r].ready THEN gathered ELSE None
           refused == Refused(payloads[r], file)
           note == IF refused THEN Failure("PROMOTION_FAILED", "refused") ELSE runner[r].note
<1>1. PICK pc \in {"notify", "mint"} :
        Become(r, [pc |-> pc, refused |-> refused, note |-> note])
  BY DEF Promote
<1>2. /\ Shaped /\ runner[r].pc = "promote" /\ UNCHANGED <<reports, payloads>>
      /\ ~Shortfall(r) /\ ~runner[r].refused /\ OwedShell(r)
  BY DEF Promote, At, files, OwedInv, OwedShell, Unpromoted
<1>3. /\ refused => note = Failure("PROMOTION_FAILED", "refused")
      /\ ~refused => note = runner[r].note
  OBVIOUS
<1> HIDE DEF refused, note
<1>4. /\ Only(r, {"pc", "refused", "note"})
      /\ runner'[r].pc = pc /\ runner'[r].note = note /\ runner'[r].refused = refused
  BY <1>1, <1>2, BecomeOnly DEF Fields
<1>5. ~Shortfall(r)' /\ runner'[r].code = runner[r].code
  BY <1>2, <1>4 DEF Only, Fields, Shortfall
<1>6. runner[r].code # -1 => Owed(r) \in {None, runner[r].note}
  BY <1>2 DEF OwedShell, Early
<1>7. runner[r].code # -1 => Owed(r)' \in {None, note}
  <2>1. CASE refused
    BY <1>3, <1>4, <1>5, <2>1 DEF Owed, Shortfall
  <2>2. CASE ~refused
    <3>1. Owed(r)' = Owed(r)
      BY <1>2, <1>4, <1>5, <2>2 DEF Owed, Buys, Shortfall
    <3>q. QED BY <1>3, <1>6, <2>2, <3>1
  <2>q. QED BY <2>1, <2>2
<1>8. OwedShell(r)'
  BY <1>4, <1>5, <1>7 DEF OwedShell, Unpromoted, Early
<1>q. QED BY <1>2, <1>4, <1>8, MoverOwes

(* The other steps after the model change neither the note nor what is owed.  *)
LEMMA LaterOwes ==
  ASSUME OwedInv, NEW r \in Runners,
         \/ Postflight(r) \/ RecordDiscovery(r) \/ Gather(r) \/ MintLeg(r)
         \/ NotifyDecide(r) \/ Deliver(r) \/ SaveLedger(r) \/ Crash(r)
  PROVE  OwedInv'
<1>1. UNCHANGED <<reports, payloads>> /\ Shaped /\ OwedShell(r)
  BY DEF Postflight, RecordDiscovery, Gather, MintLeg, NotifyDecide, Deliver, SaveLedger, Crash,
         files, OwedInv
<1> DEFINE Quiet(F) == Only(r, F) /\ {"note", "gate", "refused", "job"} \cap F = {}
<1>2. ASSUME NEW F, Quiet(F)
      PROVE  /\ Shortfall(r)' <=> Shortfall(r)
             /\ Owed(r)' = Owed(r) /\ runner'[r].note = runner[r].note
             /\ runner'[r].refused = runner[r].refused /\ runner'[r].job = runner[r].job
             /\ "code" \notin F => runner'[r].code = runner[r].code
  <2>1. \A f \in {"note", "gate", "refused", "job"} : runner'[r][f] = runner[r][f]
    BY <1>2 DEF Only, Fields
  <2>2. "code" \notin F => runner'[r].code = runner[r].code
    BY <1>2 DEF Only, Fields
  <2>3. runner'[r].gate = runner[r].gate /\ runner'[r].refused = runner[r].refused
    BY <2>1
  <2>4. Owed(r)' = Owed(r)
    BY <1>1, <2>3 DEF Owed, Buys
  <2>q. QED BY <2>1, <2>2, <2>3, <2>4 DEF Shortfall
<1>3. ASSUME NEW F, Quiet(F), OwedShell(r)' PROVE OwedInv'
  BY <1>1, <1>3, MoverOwes
<1> HIDE DEF Quiet
<1>e. ASSUME NEW code, Exit(r, code),
             \/ runner[r].pc \notin Early \cup {"postflight", "record"} /\ runner[r].code # -1
             \/ Owed(r) = None \/ code = -1
      PROVE  OwedInv'
  <2>1. Quiet(Cleared \cup {"code"}) /\ runner'[r].pc = "exit" /\ runner'[r].code = code
    BY <1>1, <1>e, ExitEnds DEF OwedInv, Ends, Quiet, Cleared
  <2>2. OwedShell(r)'
    BY <1>1, <1>2, <1>e, <2>1 DEF OwedShell, Unpromoted, Early
  <2>q. QED BY <1>3, <2>1, <2>2
<1>4. CASE Postflight(r)
  <2>1. /\ Quiet({"pc", "base", "unsafe"})
        /\ runner[r].pc = "postflight" /\ runner'[r].pc = "record"
    BY <1>1, <1>4, PostflightOnly DEF Quiet
  <2>2. OwedShell(r)'
    BY <1>1, <1>2, <2>1 DEF OwedShell, Unpromoted, Early
  <2>q. QED BY <1>3, <2>1, <2>2
<1>5. CASE RecordDiscovery(r)
  <2>1. payloads[r] = None /\ ~Shortfall(r) /\ ~runner[r].refused
    BY <1>1, <1>5 DEF RecordDiscovery, At, OwedShell, Unpromoted
  <2>2. Owed(r) = None
    BY <2>1, NothingOwed
  <2>q. QED BY <1>5, <1>e, <2>2 DEF RecordDiscovery
<1>6. CASE Gather(r)
  <2>1. PICK ready : Become(r, [pc |-> "promote", ready |-> ready])
    BY <1>6 DEF Gather
  <2>2. Quiet({"pc", "ready"}) /\ runner[r].pc = "gather" /\ runner'[r].pc = "promote"
    BY <1>1, <1>6, <2>1, BecomeOnly DEF Quiet, Fields, Gather, At
  <2>3. OwedShell(r)'
    BY <1>1, <1>2, <2>2 DEF OwedShell, Unpromoted, Early
  <2>q. QED BY <1>3, <2>2, <2>3
<1>7. CASE MintLeg(r)
  <2>1. CASE runner' = runner
    <3>1. ASSUME NEW s \in Runners PROVE OwedShell(s)'
      BY <1>1, <2>1, OwedStays DEF OwedInv
    <3>q. QED BY <1>1, <2>1, <3>1 DEF OwedInv, Shaped
  <2>2. CASE Only(r, {"pc"}) /\ runner'[r].pc = "notify"
    <3>1. Quiet({"pc"}) /\ runner[r].pc = "mint"
      BY <1>1, <1>7, <2>2, MintOnly DEF Quiet
    <3>2. OwedShell(r)'
      BY <1>1, <1>2, <2>2, <3>1 DEF OwedShell, Unpromoted, Early
    <3>q. QED BY <1>3, <3>1, <3>2
  <2>q. QED BY <1>1, <1>7, <2>1, <2>2, MintOnly
<1>8. CASE NotifyDecide(r)
  <2>1. PICK code, ledger :
          /\ code = IF runner[r].code # None THEN runner[r].code
                    ELSE FinalCode(r, runner[r].problem)
          /\ \/ Become(r, [pc |-> "deliver", code |-> code, ledger |-> ledger])
             \/ Exit(r, code)
    BY <1>8 DEF NotifyDecide
  <2>2. runner[r].pc = "notify" /\ (runner[r].code = -1 => code = -1)
    BY <1>8, <2>1, NoneIsNoNumber DEF NotifyDecide, At
  <2>3. CASE Become(r, [pc |-> "deliver", code |-> code, ledger |-> ledger])
    <3>1. /\ Quiet({"pc", "code", "ledger"})
          /\ runner'[r].pc = "deliver" /\ runner'[r].code = code
      BY <1>1, <2>3, BecomeOnly DEF Quiet, Fields
    <3>2. OwedShell(r)'
      BY <1>1, <1>2, <2>2, <3>1 DEF OwedShell, Unpromoted, Early
    <3>q. QED BY <1>3, <3>1, <3>2
  <2>4. CASE Exit(r, code)
    BY <1>e, <2>2, <2>4 DEF Early
  <2>q. QED BY <2>1, <2>3, <2>4
<1>9. CASE Deliver(r) \/ SaveLedger(r)
  <2>1. PICK F :
          /\ Only(r, F) /\ F \subseteq Cleared \cup {"undelivered"}
          /\ runner'[r].pc \in {"save", "exit"}
    <3>1. CASE Become(r, [pc |-> "save"])
      BY <1>1, <3>1, BecomeOnly DEF Fields, Cleared
    <3>2. CASE Leave(r, [undelivered |-> TRUE])
      <4>1. Only(r, Cleared \cup {"undelivered"}) /\ runner'[r].pc = "exit"
        BY <1>1, <3>2, LeaveOnly
      <4>q. QED BY <4>1
    <3>3. CASE Leave(r, <<>>)
      <4>1. Only(r, Cleared) /\ runner'[r].pc = "exit"
        BY <1>1, <3>3, LeaveOnly
      <4>q. QED BY <4>1
    <3>q. QED BY <1>9, <3>1, <3>2, <3>3 DEF Deliver, SaveLedger
  <2>2. Quiet(F) /\ "code" \notin F /\ runner[r].pc \in {"deliver", "save"}
    BY <1>9, <2>1 DEF Quiet, Cleared, Deliver, SaveLedger, At
  <2>3. OwedShell(r)'
    BY <1>1, <1>2, <2>1, <2>2 DEF OwedShell, Unpromoted, Early
  <2>q. QED BY <1>3, <2>2, <2>3
<1>10. CASE Crash(r)
  BY <1>10, <1>e DEF Crash
<1>q. QED BY <1>4, <1>5, <1>6, <1>7, <1>8, <1>9, <1>10

(* No process has begun.                                                      *)
LEMMA OwedInit == Init => OwedInv
<1> SUFFICES ASSUME Init PROVE OwedInv
  OBVIOUS
<1>1. /\ runner = [r \in Runners |-> Idle]
      /\ reports = [r \in Runners |-> None] /\ payloads = [r \in Runners |-> None]
  BY DEF Init
<1>2. Shaped
  BY <1>1 DEF Shaped, Idle, Fields
<1>3. \A r \in Runners : OwedShell(r)
  BY <1>1 DEF Idle, OwedShell, Shortfall, Early
<1>q. QED BY <1>1, <1>2, <1>3 DEF OwedInv

(* Every step keeps what every run owes.                                      *)
LEMMA OwedStep == OwedInv /\ [Next]_vars => OwedInv'
<1> SUFFICES ASSUME OwedInv, [Next]_vars PROVE OwedInv'
  OBVIOUS
<1>1. ASSUME UNCHANGED <<runner, reports, payloads>> PROVE OwedInv'
  <2>1. ASSUME NEW s \in Runners PROVE OwedShell(s)'
    BY <1>1, OwedStays DEF OwedInv
  <2>q. QED BY <1>1, <2>1 DEF OwedInv, Shaped
<1>2. CASE UNCHANGED vars
  BY <1>1, <1>2 DEF vars, files
<1>3. ASSUME NEW r \in Runners, Start(r) \/ RunnerStep(r) \/ Crash(r) PROVE OwedInv'
  BY <1>3, CashPhaseOwes, EarlyOwes, ModelOwes, RecordOwes, PromoteOwes, LaterOwes
     DEF RunnerStep
<1>4. CASE MintLeg(Owner) \/ PromoteByHand \/ OwnerActs \/ LedgerSpoilt \/ Tick
  <2>1. UNCHANGED <<runner, reports, payloads>>
    BY <1>4 DEF MintLeg, Owner, PromoteByHand, OwnerActs, LedgerSpoilt, Tick, files
  <2>q. QED BY <1>1, <2>1
<1>q. QED BY <1>2, <1>3, <1>4, NextActions

(* A run that ended by itself has the owner told, in this run or in the same  *)
(* words by an earlier one, the shortfall its gate found, the purchase it      *)
(* recorded or the refusal of its promotion, and whatever else it set out to   *)
(* say, unless the desktop refused to show it: the suppression swallows nothing *)
(* that was not said.                                                          *)
THEOREM AlertsReachTheOwner == Spec => []AlertReachesOwner
<1>1. AlertInv /\ OwedInv => AlertReachesOwner
  <2> SUFFICES ASSUME AlertInv, OwedInv, NEW r \in Runners, Done(r), runner[r].code # -1,
                      ~runner[r].undelivered,
                      NEW note \in {runner[r].note, Owed(r)} \ {None}
               PROVE  \E s \in said : s.fingerprint = note.fingerprint
    BY DEF AlertReachesOwner
  <2>1. OwedShell(r) /\ AlertShell(runner[r]) /\ runner[r].pc = "exit"
    BY DEF OwedInv, AlertInv, Done, At
  <2>2. note = runner[r].note
    BY <2>1 DEF OwedShell, Early
  <2>q. QED BY <2>1, <2>2 DEF AlertShell, Told
<1>q. QED BY AlertInit, AlertStep, OwedInit, OwedStep, <1>1, PTL DEF Spec

(* --- the write guard and the gate's cash figure ----------------------------- *)

(* With the hook in force no snapshot on disk is a model's, so none that the  *)
(* gate believes is.                                                          *)
ForgeInv ==
  /\ Shaped
  /\ hook /\ snapshot # None => ~snapshot.forged
  /\ CashIsNotForged

(* A step that hands the gate nothing and leaves the snapshot alone.          *)
LEMMA PlainKeepsForge ==
  ASSUME ForgeInv, Plain, UNCHANGED <<snapshot, hook>>
  PROVE  ForgeInv'
  BY DEF ForgeInv, Plain, CashIsNotForged

(* The refresh leaves a reading of its own, or no snapshot.                   *)
LEMMA RefreshKeepsForge ==
  ASSUME ForgeInv, NEW r \in Runners, RefreshSnapshot(r)
  PROVE  ForgeInv'
<1>1. snapshot' \in {None, Reading(r, cash)} /\ hook' = hook
  BY RefreshIsFresh DEF RefreshSnapshot
<1>2. snapshot' # None => ~snapshot'.forged
  BY <1>1 DEF Reading
<1>3. PICK pc : Become(r, [pc |-> pc])
  BY DEF RefreshSnapshot
<1>4. Shaped' /\ \A s \in Runners : runner'[s].belief = runner[s].belief
  BY <1>3, BecomeChanges DEF ForgeInv, Fields
<1>q. QED BY <1>1, <1>2, <1>4 DEF ForgeInv, CashIsNotForged

(* The gate believes the snapshot on disk, or nothing.                        *)
LEMMA CashPhaseKeepsForge ==
  ASSUME ForgeInv, NEW r \in Runners, CashPhase(r)
  PROVE  ForgeInv'
<1> DEFINE gate == EvaluateGate(remaining, Reserved, snapshot, clock)
           note == GateNote(gate, snapshot)
           belief == IF gate.cash = None THEN None ELSE snapshot
<1>1. /\ belief \in {None, snapshot}
      /\ \/ Become(r, [pc |-> "enter", gate |-> gate, belief |-> belief])
         \/ Become(r, [pc |-> "notify", note |-> note, gate |-> gate, belief |-> belief,
                       code |-> 0])
         \/ Leave(r, [gate |-> gate, code |-> 0])
  BY DEF CashPhase
<1> HIDE DEF gate, note, belief
<1>2. UNCHANGED <<snapshot, hook>>
  BY DEF CashPhase, files
<1>3. /\ Shaped'
      /\ \A s \in Runners \ {r} : runner'[s] = runner[s]
      /\ runner'[r].belief \in {None, belief}
  <2>1. CASE Become(r, [pc |-> "enter", gate |-> gate, belief |-> belief])
    BY <2>1, BecomeChanges DEF ForgeInv, Fields
  <2>2. CASE Become(r, [pc |-> "notify", note |-> note, gate |-> gate, belief |-> belief,
                        code |-> 0])
    BY <2>2, BecomeChanges DEF ForgeInv, Fields
  <2>3. CASE Leave(r, [gate |-> gate, code |-> 0])
    BY <2>3, LeaveChanges DEF ForgeInv
  <2>q. QED BY <1>1, <2>1, <2>2, <2>3
<1>q. QED BY <1>1, <1>2, <1>3 DEF ForgeInv, CashIsNotForged

(* The model's own process is denied the snapshot's path.                     *)
LEMMA ModelKeepsForge ==
  ASSUME ForgeInv, NEW r \in Runners, Model(r)
  PROVE  ForgeInv'
<1>1. PICK given, stray :
        /\ stray = IF StrayLands(given) THEN given ELSE None
        /\ StrayEffect(r, stray)
  BY DEF Model
<1>2. hook => stray # "cash"
  BY <1>1, ScheduledConstants
     DEF Strays, StrayLands, StrayPath, ModelWrites, GuardAllows, WritableDuringScheduledRun
<1>3. hook' = hook
  BY DEF Model
<1>4. hook => snapshot' = snapshot
  BY <1>1, <1>2 DEF StrayEffect
<1>5. Shaped' /\ \A s \in Runners : runner'[s].belief = runner[s].belief
  BY ModelOnly DEF ForgeInv, Only, Fields
<1>q. QED BY <1>3, <1>4, <1>5 DEF ForgeInv, CashIsNotForged

(* There is no snapshot to begin with.                                        *)
LEMMA ForgeInit == Init => ForgeInv
<1> SUFFICES ASSUME Init PROVE ForgeInv
  OBVIOUS
<1>1. runner = [r \in Runners |-> Idle] /\ snapshot = None
  BY DEF Init
<1>2. Shaped
  BY <1>1 DEF Shaped, Idle, Fields
<1>3. \A r \in Runners : runner[r].belief = None
  BY <1>1 DEF Idle
<1>q. QED BY <1>1, <1>2, <1>3 DEF ForgeInv, CashIsNotForged

(* Every step keeps forged snapshots out while the hook is in force.          *)
LEMMA ForgeStep == ForgeInv /\ [Next]_vars => ForgeInv'
<1> SUFFICES ASSUME ForgeInv, [Next]_vars PROVE ForgeInv'
  OBVIOUS
<1> USE DEF files
<1>s. Shaped
  BY DEF ForgeInv
<1>1. CASE UNCHANGED vars
  BY <1>1 DEF vars, ForgeInv, Shaped, CashIsNotForged
<1>2. ASSUME NEW r \in Runners, Start(r) \/ AuthorizationPhase(r) \/ MonthEndReminder(r)
                                  \/ EnterModel(r)
      PROVE  ForgeInv'
  <2>1. UNCHANGED <<snapshot, hook>>
    BY <1>2 DEF Start, AuthorizationPhase, MonthEndReminder, EnterModel
  <2>q. QED BY <1>2, <1>s, <2>1, BeforeModelPlain, PlainKeepsForge
<1>3. ASSUME NEW r \in Runners, Postflight(r) \/ RecordRun(r) \/ RecordDiscovery(r)
                                  \/ Gather(r) \/ Promote(r)
      PROVE  ForgeInv'
  <2>1. UNCHANGED <<snapshot, hook>>
    BY <1>3 DEF Postflight, RecordRun, RecordDiscovery, Gather, Promote
  <2>q. QED BY <1>3, <1>s, <2>1, AfterModelPlain, PlainKeepsForge
<1>4. ASSUME NEW r \in Runners, NotifyDecide(r) \/ Deliver(r) \/ SaveLedger(r) \/ Crash(r)
      PROVE  ForgeInv'
  <2>1. UNCHANGED <<snapshot, hook>>
    BY <1>4 DEF NotifyDecide, Deliver, SaveLedger, Crash
  <2>q. QED BY <1>4, <1>s, <2>1, NotifyPlain, PlainKeepsForge
<1>5. ASSUME NEW p \in Promoters, MintLeg(p)
      PROVE  ForgeInv'
  <2>1. UNCHANGED <<snapshot, hook>>
    BY <1>5 DEF MintLeg
  <2>q. QED BY <1>5, <1>s, <2>1, MintPlain, PlainKeepsForge
<1>6. CASE PromoteByHand \/ OwnerActs \/ LedgerSpoilt \/ Tick
  <2>1. UNCHANGED <<runner, snapshot, hook>>
    BY <1>6 DEF PromoteByHand, OwnerActs, LedgerSpoilt, Tick
  <2>q. QED BY <2>1 DEF ForgeInv, Shaped, CashIsNotForged
<1>7. ASSUME NEW r \in Runners, RefreshSnapshot(r) \/ CashPhase(r) \/ Model(r)
      PROVE  ForgeInv'
  BY <1>7, RefreshKeepsForge, CashPhaseKeepsForge, ModelKeepsForge
<1>q. QED
  BY <1>1, <1>2, <1>3, <1>4, <1>5, <1>6, <1>7, NextActions DEF RunnerStep, Promoters

(* While the write guard is in force the gate never spends on a cash figure   *)
(* that an evaluation's model wrote for itself or for a job beside it         *)
(* (scheduled_write_guard.py: the snapshot is not in an evaluation's scope).  *)
THEOREM CashIsTheBrokers == Spec => []CashIsNotForged
<1>1. ForgeInv => CashIsNotForged
  BY DEF ForgeInv
<1>q. QED BY ForgeInit, ForgeStep, <1>1, PTL DEF Spec

(* --- a clean exit ------------------------------------------------------------ *)

(* What a model may do that its run must not report as a success.             *)
Forbidden == {"budget", "deletes", "guts"}

(* What happened since the digest was taken is still to be seen in the files: *)
(* the protected tree only moves on, and a note only loses words.             *)
CleanShell(p) ==
  /\ p.pc \in Early => p.stray = None /\ p.code = None
  /\ p.pc \in {"model", "postflight"} =>
       /\ p.code = None
       /\ p.base.tree.protected \in Nat /\ p.base.tree.protected <= protected
       /\ p.base.archive \in Nat \cup {None}
       /\ archive # None => p.base.archive # None /\ archive <= p.base.archive
  /\ p.pc = "postflight" =>
       /\ p.stray = "budget" => p.base.tree.protected < protected
       /\ p.stray = "deletes" => p.base.archive # None /\ archive = None
       /\ p.stray = "guts" => /\ p.base.archive \notin {None, 0}
                              /\ archive # None => 2 * archive < p.base.archive
  /\ p.pc \notin Early \cup {"postflight"} /\ p.stray \in Forbidden =>
       \/ p.pc = "exit" /\ p.code = -1
       \/ p.unsafe /\ p.code \in {None, 1}
CleanInv ==
  /\ Shaped
  /\ protected \in Nat /\ archive \in Nat \cup {None}
  /\ \A r \in Runners : CleanShell(runner[r])

(* The two files the postflight is about never move back.                     *)
MovesOn ==
  /\ protected' \in Nat /\ protected <= protected'
  /\ archive' \in Nat \cup {None}
  /\ archive' # None => archive # None /\ archive' <= archive

(* What was to be seen still is, when the files only move on.                 *)
LEMMA CleanStays ==
  ASSUME protected \in Nat, archive \in Nat \cup {None}, MovesOn, NEW p, CleanShell(p)
  PROVE  CleanShell(p)'
  BY NoneIsNoNumber DEF CleanShell, MovesOn

(* One process moves.                                                         *)
LEMMA KeepsClean ==
  ASSUME CleanInv, MovesOn, NEW r \in Runners, Shaped',
         \A s \in Runners \ {r} : runner'[s] = runner[s], CleanShell(runner[r])'
  PROVE  CleanInv'
<1>1. ASSUME NEW s \in Runners \ {r} PROVE CleanShell(runner[s])'
  <2>1. PICK p : p = runner[s] /\ CleanShell(p)
    BY DEF CleanInv
  <2>2. CleanShell(p)'
    BY <2>1, CleanStays DEF CleanInv
  <2>q. QED BY <2>1, <2>2 DEF CleanShell
<1>q. QED BY <1>1 DEF CleanInv, MovesOn

(* Before the model a process holds the digest of what is there.              *)
LEMMA EarlyClean ==
  ASSUME CleanInv, NEW r \in Runners,
         Start(r) \/ AuthorizationPhase(r) \/ RefreshSnapshot(r) \/ MonthEndReminder(r)
           \/ CashPhase(r) \/ EnterModel(r)
  PROVE  CleanInv'
<1>1. UNCHANGED <<protected, archive>> /\ runner[r].pc \in Early
  BY DEF Start, AuthorizationPhase, RefreshSnapshot, MonthEndReminder, CashPhase, EnterModel,
         files, At, Early
<1>2. MovesOn
  BY <1>1, NoneIsNoNumber DEF CleanInv, MovesOn
<1>3. Shaped /\ runner[r].stray = None /\ runner[r].code = None
  BY <1>1 DEF CleanInv, CleanShell
<1>4. None \notin Forbidden
  BY ScheduledConstants DEF Strays, Forbidden
<1>5. RunDigest.tree.protected = protected /\ RunDigest.archive = archive
  BY DEF RunDigest
<1>6. GoesOn(r) \/ TakesDigest(r) \/ HasToSay(r) \/ EndsEarly(r)
  BY <1>3, BeforeModel
<1>7. /\ Shaped' /\ \A s \in Runners \ {r} : runner'[s] = runner[s]
      /\ CleanShell(runner[r])'
  <2>1. CASE GoesOn(r)
    BY <1>3, <1>4, <2>1 DEF GoesOn, Only, CleanShell, Fields, Early
  <2>2. CASE TakesDigest(r)
    <3>1. /\ runner'[r].stray = None /\ runner'[r].code = None
          /\ runner'[r].pc \in {"gate", "model"} /\ runner'[r].base = RunDigest
      BY <1>3, <2>2 DEF TakesDigest, Only, Fields
    <3>2. protected' \in Nat /\ archive' \in Nat \cup {None}
      BY <1>2 DEF MovesOn
    <3>q. QED BY <1>1, <1>4, <1>5, <2>2, <3>1, <3>2, NoneIsNoNumber
              DEF TakesDigest, Only, CleanShell, Early
  <2>3. CASE HasToSay(r)
    BY <1>3, <1>4, <2>3 DEF HasToSay, Only, CleanShell, Fields, Early
  <2>4. CASE EndsEarly(r)
    BY <1>3, <1>4, <2>4 DEF EndsEarly, Only, CleanShell, Fields, Cleared, Early
  <2>q. QED BY <1>6, <2>1, <2>2, <2>3, <2>4
<1>q. QED BY <1>2, <1>7, KeepsClean

(* A stray write is of the protected tree, or takes words from a note.        *)
LEMMA StrayMovesOn ==
  ASSUME NEW r, NEW stray, StrayEffect(r, stray), protected \in Nat,
         archive \in Nat \cup {None}
  PROVE  MovesOn
<1>1. protected' \in Nat /\ protected <= protected'
  BY DEF StrayEffect
<1>2. CASE archive = None
  BY <1>1, <1>2 DEF StrayEffect, MovesOn
<1>3. CASE archive \in Nat
  <2>1. archive' \in {None, archive, archive \div 3, AtLeastZero(archive - 1)}
    BY <1>3, NoneIsNoNumber DEF StrayEffect
  <2>q. QED BY <1>1, <1>3, <2>1, NoneIsNoNumber DEF MovesOn, AtLeastZero
<1>q. QED BY <1>2, <1>3

(* What a model does amiss shows, the moment it is done.                      *)
LEMMA ModelClean ==
  ASSUME CleanInv, NEW r \in Runners, Model(r)
  PROVE  CleanInv'
<1>1. PICK given, ok, stray :
        /\ stray = IF StrayLands(given) THEN given ELSE None
        /\ StrayEffect(r, stray)
        /\ Become(r, [pc |-> "postflight", ok |-> ok, stray |-> stray])
  BY DEF Model
<1>2. Shaped /\ CleanShell(runner[r]) /\ protected \in Nat /\ archive \in Nat \cup {None}
  BY DEF CleanInv
<1>3. MovesOn
  BY <1>1, <1>2, StrayMovesOn
<1>4. Only(r, {"pc", "ok", "stray"}) /\ runner[r].pc = "model"
      /\ runner'[r].pc = "postflight" /\ runner'[r].stray = stray
  BY <1>1, <1>2, BecomeOnly DEF Fields, Model, At
<1>5. PICK base : base = runner[r].base
  OBVIOUS
<1>6. /\ base.tree.protected \in Nat /\ base.tree.protected <= protected
      /\ base.archive \in Nat \cup {None} /\ runner[r].code = None
      /\ archive # None => base.archive # None /\ archive <= base.archive
  BY <1>2, <1>4, <1>5 DEF CleanShell
<1>7. stray = "budget" => base.tree.protected < protected'
  BY <1>1, <1>2, <1>6 DEF StrayEffect
<1>8. stray = "deletes" => base.archive # None /\ archive' = None
  BY <1>1, <1>6, ScheduledConstants DEF StrayEffect, StrayLands, Strays
<1>9. stray = "guts" => /\ base.archive \notin {None, 0}
                        /\ archive' # None => 2 * archive' < base.archive
  <2>1. SUFFICES ASSUME stray = "guts"
                 PROVE  /\ base.archive \notin {None, 0}
                        /\ archive' # None => 2 * archive' < base.archive
    OBVIOUS
  <2>2. archive \notin {None, 0}
    BY <1>1, <2>1, ScheduledConstants DEF StrayLands, Strays
  <2>3. archive' = archive \div 3
    BY <1>1, <2>1, <2>2 DEF StrayEffect
  <2>4. archive \in Nat /\ base.archive \in Nat /\ archive <= base.archive /\ archive > 0
    BY <1>2, <1>6, <2>2
  <2>q. QED BY <2>3, <2>4, NoneIsNoNumber
<1>10. runner'[r].base = base /\ runner'[r].code = None
  BY <1>4, <1>5, <1>6 DEF Only, Fields
<1>11. /\ base.tree.protected <= protected'
       /\ archive' # None => base.archive # None /\ archive' <= base.archive
  BY <1>2, <1>3, <1>6, NoneIsNoNumber DEF MovesOn
<1>12. CleanShell(runner[r])'
  BY <1>4, <1>6, <1>7, <1>8, <1>9, <1>10, <1>11 DEF CleanShell, Early
<1>q. QED BY <1>3, <1>4, <1>12, KeepsClean DEF Only

(* The check after the model sees what a forbidden write left.                *)
LEMMA PostflightClean ==
  ASSUME CleanInv, NEW r \in Runners, Postflight(r)
  PROVE  CleanInv'
<1>1. UNCHANGED <<protected, archive>>
  BY DEF Postflight, files
<1>2. Shaped /\ CleanShell(runner[r]) /\ protected \in Nat /\ archive \in Nat \cup {None}
  BY DEF CleanInv
<1>3. MovesOn
  BY <1>1, <1>2, NoneIsNoNumber DEF MovesOn
<1>4. /\ Only(r, {"pc", "base", "unsafe"})
      /\ runner[r].pc = "postflight" /\ runner'[r].pc = "record"
      /\ runner'[r].unsafe = ~PostflightSafe(runner[r].base, RunDigest, handed)
  BY <1>2, PostflightOnly
<1>5. runner[r].stray \in Forbidden => ~PostflightSafe(runner[r].base, RunDigest, handed)
  <2>1. PICK p : p = runner[r]
    OBVIOUS
  <2>2. CASE p.stray = "budget"
    <3>1. p.base.tree.protected # protected
      BY <1>2, <1>4, <2>1, <2>2 DEF CleanShell
    <3>2. "protected" \in Changed(p.base.tree, RunDigest.tree)
      BY <3>1 DEF Changed, RunDigest
    <3>3. "protected" \notin WritableDuringScheduledRun
      BY DEF WritableDuringScheduledRun
    <3>q. QED BY <2>1, <3>2, <3>3 DEF PostflightSafe, UnauthorizedWrites
  <2>3. CASE p.stray \in {"deletes", "guts"}
    <3>1. ArchiveLost(p.base.archive, archive)
      BY <1>2, <1>4, <2>1, <2>3 DEF CleanShell, ArchiveLost
    <3>2. RunDigest.archive = archive
      BY DEF RunDigest
    <3>q. QED BY <2>1, <3>1, <3>2 DEF PostflightSafe
  <2>q. QED BY <2>1, <2>2, <2>3 DEF Forbidden
<1>6. CleanShell(runner[r])'
  <2>1. runner'[r].stray = runner[r].stray /\ runner'[r].code = None
    BY <1>2, <1>4 DEF CleanShell, Only, Fields
  <2>q. QED BY <1>4, <1>5, <2>1 DEF CleanShell, Early
<1>q. QED BY <1>3, <1>4, <1>6, KeepsClean DEF Only

(* Nothing after the check takes its verdict back.                            *)
LEMMA LateClean ==
  ASSUME CleanInv, NEW r \in Runners,
         RecordRun(r) \/ RecordDiscovery(r) \/ Gather(r) \/ Promote(r) \/ MintLeg(r)
           \/ NotifyDecide(r) \/ Deliver(r) \/ SaveLedger(r) \/ Crash(r)
  PROVE  CleanInv'
<1>1. UNCHANGED <<protected, archive>>
  BY DEF RecordRun, RecordDiscovery, Gather, Promote, MintLeg, NotifyDecide, Deliver, SaveLedger,
         Crash, files
<1>2. Shaped /\ CleanShell(runner[r]) /\ protected \in Nat /\ archive \in Nat \cup {None}
  BY DEF CleanInv
<1>3. MovesOn
  BY <1>1, <1>2, NoneIsNoNumber DEF MovesOn
<1>4. None \notin Forbidden
  BY ScheduledConstants DEF Strays, Forbidden
<1>5. /\ Shaped' /\ \A s \in Runners \ {r} : runner'[s] = runner[s]
      /\ CleanShell(runner[r])'
  <2>1. CASE RecordRun(r) \/ Gather(r) \/ Promote(r)
    <3>1. Writes(r) /\ runner[r].pc \in {"record", "gather", "promote"}
      BY <1>2, <2>1, AfterModel DEF RecordRun, Gather, Promote, At, Early
    <3>q. QED BY <1>2, <3>1 DEF Writes, Only, CleanShell, Fields, Early
  <2>2. CASE RecordDiscovery(r)
    <3>1. PICK problem \in BOOLEAN : Exit(r, FinalCode(r, problem))
      BY <2>2 DEF RecordDiscovery, DiscoveryValid
    <3>2. Ends(r, FinalCode(r, problem)) /\ runner[r].pc = "record"
      BY <1>2, <2>2, <3>1, ExitEnds DEF RecordDiscovery, At
    <3>q. QED BY <1>2, <3>2 DEF Ends, Only, CleanShell, Fields, Cleared, Early, FinalCode
  <2>3. CASE MintLeg(r)
    BY <1>2, <2>3, MintOnly DEF Only, CleanShell, Fields, Early, Shaped
  <2>4. CASE NotifyDecide(r)
    <3>1. PICK code, ledger :
            /\ code = IF runner[r].code # None THEN runner[r].code
                      ELSE FinalCode(r, runner[r].problem)
            /\ \/ Become(r, [pc |-> "deliver", code |-> code, ledger |-> ledger])
               \/ Exit(r, code)
      BY <2>4 DEF NotifyDecide
    <3>2. /\ Only(r, Cleared \cup {"code"})
          /\ runner'[r].pc \in {"deliver", "exit"} /\ runner'[r].code = code
      <4>1. CASE Become(r, [pc |-> "deliver", code |-> code, ledger |-> ledger])
        BY <1>2, <4>1, BecomeOnly DEF Fields, Only, Cleared
      <4>2. CASE Exit(r, code)
        BY <1>2, <4>2, ExitEnds DEF Ends
      <4>q. QED BY <3>1, <4>1, <4>2
    <3>3. runner[r].pc = "notify"
      BY <2>4 DEF NotifyDecide, At
    <3>4. runner[r].stray \in Forbidden => runner[r].unsafe /\ code = 1
      BY <1>2, <3>1, <3>3 DEF CleanShell, Early, FinalCode
    <3>q. QED BY <3>2, <3>4 DEF Only, CleanShell, Fields, Cleared, Early
  <2>5. CASE Deliver(r)
    <3>1. \/ Only(r, {"pc"}) /\ runner'[r].pc = "save"
          \/ Only(r, Cleared \cup {"undelivered"}) /\ runner'[r].pc = "exit"
      <4>1. CASE Become(r, [pc |-> "save"])
        BY <1>2, <4>1, BecomeOnly DEF Fields
      <4>2. CASE Leave(r, [undelivered |-> TRUE])
        BY <1>2, <4>2, LeaveOnly
      <4>q. QED BY <2>5, <4>1, <4>2 DEF Deliver
    <3>2. runner[r].pc = "deliver"
      BY <2>5 DEF Deliver, At
    <3>q. QED BY <1>2, <3>1, <3>2 DEF Only, CleanShell, Fields, Cleared, Early
  <2>6. CASE SaveLedger(r)
    <3>1. Only(r, Cleared) /\ runner'[r].pc = "exit" /\ runner[r].pc = "save"
      BY <1>2, <2>6, LeaveOnly DEF SaveLedger, At
    <3>q. QED BY <1>2, <3>1 DEF Only, CleanShell, Fields, Cleared, Early
  <2>7. CASE Crash(r)
    <3>1. Ends(r, -1)
      BY <1>2, <2>7, ExitEnds DEF Crash
    <3>q. QED BY <1>2, <1>4, <2>7, <3>1
              DEF Ends, Only, CleanShell, Fields, Cleared, Early
  <2>q. QED BY <2>1, <2>2, <2>3, <2>4, <2>5, <2>6, <2>7
<1>q. QED BY <1>3, <1>5, KeepsClean

(* No process has run, so none has strayed.                                   *)
LEMMA CleanInit == Init => CleanInv
<1> SUFFICES ASSUME Init PROVE CleanInv
  OBVIOUS
<1>1. runner = [r \in Runners |-> Idle] /\ protected \in Nat /\ archive \in Nat
  BY ScheduledConstants DEF Init
<1>2. Shaped
  BY <1>1 DEF Shaped, Idle, Fields
<1>3. ASSUME NEW r \in Runners PROVE CleanShell(runner[r])
  BY <1>1 DEF Idle, CleanShell, Early
<1>q. QED BY <1>1, <1>2, <1>3 DEF CleanInv

(* Every step keeps what was done amiss in sight of its check.                *)
LEMMA CleanStep == CleanInv /\ [Next]_vars => CleanInv'
<1> SUFFICES ASSUME CleanInv, [Next]_vars PROVE CleanInv'
  OBVIOUS
<1>1. CASE UNCHANGED <<runner, protected, archive>>
  BY <1>1 DEF CleanInv, Shaped, CleanShell
<1>2. CASE UNCHANGED vars
  BY <1>1, <1>2 DEF vars, files
<1>3. CASE MintLeg(Owner) \/ PromoteByHand \/ OwnerActs \/ LedgerSpoilt \/ Tick
  BY <1>1, <1>3 DEF MintLeg, PromoteByHand, OwnerActs, LedgerSpoilt, Tick, files
<1>4. ASSUME NEW r \in Runners, Start(r) \/ RunnerStep(r) \/ Crash(r)
      PROVE  CleanInv'
  BY <1>4, EarlyClean, ModelClean, PostflightClean, LateClean DEF RunnerStep
<1>q. QED BY <1>2, <1>3, <1>4, NextActions

(* A run whose model altered the protected tree, deleted a research note or   *)
(* left fewer than half of its words never exits as a run that went well      *)
(* (check_scheduled_safety.py), with or without the write guard, whatever the *)
(* other jobs and the owner write beside it.                                  *)
THEOREM CleanExitsAreClean == Spec => []CleanExitMeansUntouched
<1>1. CleanInv => CleanExitMeansUntouched
  BY NoneIsNoNumber
     DEF CleanInv, CleanShell, CleanExitMeansUntouched, Done, At, Forbidden, Early
<1>q. QED BY CleanInit, CleanStep, <1>1, PTL DEF Spec

(* --- what is promoted ------------------------------------------------------- *)

(* What may be logged is a leg some document proposed, for a run. *)
ProposedLegs ==
  UNION {{out.payload.legs[i] : i \in DOMAIN out.payload.legs} :
           out \in {o \in Outputs : o.payload # None}}
PlannedLegs == [leg : ProposedLegs, run : Runners]
PendingDecisions == [run : Runners, leg : ProposedLegs, by : Promoters]

(* The documents on disk: the legs of a recommendation and of the digest are   *)
(* lists, and a promotion snapshot dates what it quotes by its own moment.     *)
Documents ==
  /\ payloads = [r \in Runners |-> payloads[r]]
  /\ \A r \in Runners : payloads[r] # None => payloads[r].legs \in Seq(ProposedLegs)
  /\ digest # None =>
       Len(digest.legs) \in Nat /\ DOMAIN digest.legs = 1 .. Len(digest.legs)
  /\ gathered # None =>
       /\ gathered.cash \in Int /\ gathered.asOf \in Int /\ gathered.asOf <= clock
       /\ \A t \in DOMAIN gathered.quotes : gathered.quotes[t].at = gathered.asOf

(* The books: what the month and the account hold, what is logged and what is *)
(* still to be logged.                                                        *)
Books ==
  /\ clock \in 0 .. MaxClock /\ cash \in Nat /\ remaining \in Nat
  /\ open \subseteq Switches /\ denied \in BOOLEAN /\ handed \in BOOLEAN /\ protected \in Nat
  /\ minted \in Seq(PendingDecisions) /\ approved \subseteq DOMAIN minted
  /\ todo \in [Promoters -> Seq(PlannedLegs)]

(* A run has no recommendation on disk before its model ran, and has one when  *)
(* it promotes.                                                                *)
HasItsPayload(r) ==
  /\ runner[r].pc \in Early => payloads[r] = None
  /\ runner[r].pc \in {"gather", "promote"} => payloads[r] # None

ExitCodes == {None, -1, 0, 1, 2, 3}
PromoInv ==
  /\ Shaped /\ Documents /\ Books
  /\ \A r \in Runners : runner[r].code \in ExitCodes
  /\ \A r \in Runners : HasItsPayload(r)
  /\ others \subseteq Runners /\ disturbances \in 0 .. MaxDisturbances

(* A proposed recommendation is a list of proposed legs, each for an amount.  *)
LEMMA ProposedTyped ==
  ASSUME NEW out \in Outputs, out.payload # None
  PROVE  out.payload.legs \in Seq(ProposedLegs)
<1> DEFINE legs == out.payload.legs
<1>1. Len(legs) \in Nat /\ legs = [i \in 1 .. Len(legs) |-> legs[i]]
  BY OutputsAreDocuments
<1>2. \A i \in 1 .. Len(legs) : legs[i] \in ProposedLegs
  BY <1>1 DEF ProposedLegs
<1>3. \E n \in Nat : legs \in [1 .. n -> ProposedLegs]
  BY <1>1, <1>2
<1> HIDE DEF legs
<1>q. QED BY <1>3, SeqDef DEF legs

(* Every leg that may be promoted has an amount.                              *)
LEMMA ProposedAmounts == \A leg \in ProposedLegs : leg.usd \in Int
<1> SUFFICES ASSUME NEW leg \in ProposedLegs PROVE leg.usd \in Int
  OBVIOUS
<1>1. PICK out \in Outputs : /\ out.payload # None
                            /\ \E i \in DOMAIN out.payload.legs : leg = out.payload.legs[i]
  BY DEF ProposedLegs
<1>q. QED BY <1>1, OutputsAreDocuments

(* --- the exit codes ---------------------------------------------------------- *)

(* A process writes of itself, and ends with a code the scripts have.         *)
LEMMA CodesKept ==
  ASSUME Shaped, \A r \in Runners : runner[r].code \in ExitCodes,
         NEW r \in Runners, Start(r) \/ RunnerStep(r) \/ Crash(r)
  PROVE  /\ Shaped' /\ \A s \in Runners : runner'[s].code \in ExitCodes
         /\ \A s \in Runners \ {r} : runner'[s] = runner[s]
<1>1. ASSUME NEW F, Only(r, F), "code" \notin F \/ runner'[r].code \in ExitCodes
      PROVE  /\ Shaped' /\ \A s \in Runners : runner'[s].code \in ExitCodes
             /\ \A s \in Runners \ {r} : runner'[s] = runner[s]
  BY <1>1 DEF Only, Fields
<1>2. CASE Start(r) \/ AuthorizationPhase(r) \/ RefreshSnapshot(r) \/ MonthEndReminder(r)
             \/ CashPhase(r) \/ EnterModel(r)
  BY <1>1, <1>2, BeforeModel
     DEF GoesOn, TakesDigest, HasToSay, EndsEarly, Cleared, ExitCodes
<1>3. CASE Model(r) \/ Postflight(r)
  BY <1>1, <1>3, ModelOnly, PostflightOnly
<1>4. CASE RecordRun(r) \/ Gather(r) \/ Promote(r)
  BY <1>1, <1>4, AfterModel DEF Writes
<1>5. CASE RecordDiscovery(r)
  <2>1. PICK problem \in BOOLEAN : Exit(r, FinalCode(r, problem))
    BY <1>5 DEF RecordDiscovery, DiscoveryValid
  <2>q. QED BY <1>1, <2>1, ExitEnds DEF Ends, FinalCode, ExitCodes
<1>6. CASE MintLeg(r)
  BY <1>1, <1>6, MintOnly DEF Only, Shaped
<1>7. CASE NotifyDecide(r)
  <2>1. PICK code, ledger :
          /\ code = IF runner[r].code # None THEN runner[r].code
                    ELSE FinalCode(r, runner[r].problem)
          /\ \/ Become(r, [pc |-> "deliver", code |-> code, ledger |-> ledger])
             \/ Exit(r, code)
    BY <1>7 DEF NotifyDecide
  <2>2. code \in ExitCodes
    BY <2>1 DEF FinalCode, ExitCodes
  <2>3. CASE Become(r, [pc |-> "deliver", code |-> code, ledger |-> ledger])
    BY <1>1, <2>2, <2>3, BecomeOnly DEF Fields
  <2>4. CASE Exit(r, code)
    BY <1>1, <2>2, <2>4, ExitEnds DEF Ends
  <2>q. QED BY <2>1, <2>3, <2>4
<1>8. CASE Deliver(r)
  <2>1. CASE Become(r, [pc |-> "save"])
    BY <1>1, <2>1, BecomeOnly DEF Fields
  <2>2. CASE Leave(r, [undelivered |-> TRUE])
    <3>1. Only(r, Cleared \cup {"undelivered"})
      BY <2>2, LeaveOnly
    <3>q. QED BY <1>1, <3>1 DEF Cleared
  <2>q. QED BY <1>8, <2>1, <2>2 DEF Deliver
<1>9. CASE SaveLedger(r)
  <2>1. Only(r, Cleared)
    BY <1>9, LeaveOnly DEF SaveLedger
  <2>q. QED BY <1>1, <2>1 DEF Cleared
<1>10. CASE Crash(r)
  BY <1>1, <1>10, ExitEnds DEF Crash, Ends, ExitCodes
<1>q. QED
  BY <1>2, <1>3, <1>4, <1>5, <1>6, <1>7, <1>8, <1>9, <1>10 DEF RunnerStep

(* --- the books and the documents ---------------------------------------------- *)

(* The steps that touch neither. *)
Aside == UNCHANGED <<clock, owner, gathered, digest, payloads, protected, minted, todo>>

(* A step that touches neither keeps both.                                    *)
LEMMA AsideKeeps ==
  ASSUME Documents, Books, Aside
  PROVE  Documents' /\ Books'
  BY DEF Aside, owner, Documents, Books

(* Most steps of a run touch neither.                                         *)
LEMMA RunnersAside ==
  ASSUME NEW r \in Runners,
         \/ Start(r) \/ AuthorizationPhase(r) \/ RefreshSnapshot(r) \/ MonthEndReminder(r)
         \/ CashPhase(r) \/ EnterModel(r) \/ Postflight(r) \/ RecordDiscovery(r)
         \/ NotifyDecide(r) \/ Deliver(r) \/ SaveLedger(r)
  PROVE  Aside
<1>1. CASE Start(r) \/ AuthorizationPhase(r) \/ RefreshSnapshot(r) \/ MonthEndReminder(r)
  BY <1>1 DEF Start, AuthorizationPhase, RefreshSnapshot, MonthEndReminder, Aside, files
<1>2. CASE CashPhase(r) \/ EnterModel(r) \/ Postflight(r) \/ RecordDiscovery(r)
  BY <1>2 DEF CashPhase, EnterModel, Postflight, RecordDiscovery, Aside, files
<1>3. CASE NotifyDecide(r) \/ Deliver(r) \/ SaveLedger(r)
  BY <1>3 DEF NotifyDecide, Deliver, SaveLedger, Aside, files
<1>q. QED BY <1>1, <1>2, <1>3

(* A model leaves a document, of the time it was written.                     *)
LEMMA ModelBooks ==
  ASSUME Documents, Books, NEW r \in Runners, Model(r)
  PROVE  Documents' /\ Books'
<1>1. PICK out \in Outputs :
        /\ \E source :
             payloads' = IF out.payload = None THEN payloads
                         ELSE [payloads EXCEPT ![r] =
                                 [planType |-> out.payload.planType, at |-> clock,
                                  source |-> source, legs |-> out.payload.legs]]
        /\ \E pointer :
             digest' = IF out.digest = None THEN digest
                       ELSE [f \in DOMAIN out.digest \cup {"run", "pointer"} |->
                               CASE f = "run" -> r [] f = "pointer" -> pointer
                                 [] OTHER -> out.digest[f]]
        /\ \E stray : StrayEffect(r, stray)
  BY DEF Model
<1>2. UNCHANGED <<clock, owner, gathered, minted, todo>>
  BY DEF Model
<1>3. Books'
  BY <1>1, <1>2 DEF owner, Books, StrayEffect
<1>4. /\ payloads' = [s \in Runners |-> payloads'[s]]
      /\ \A s \in Runners : payloads'[s] # None => payloads'[s].legs \in Seq(ProposedLegs)
  <2>1. CASE out.payload = None
    BY <1>1, <2>1 DEF Documents
  <2>2. CASE out.payload # None
    <3>1. out.payload.legs \in Seq(ProposedLegs)
      BY <2>2, ProposedTyped
    <3>q. QED BY <1>1, <2>2, <3>1 DEF Documents
  <2>q. QED BY <2>1, <2>2
<1>5. digest' # None =>
        Len(digest'.legs) \in Nat /\ DOMAIN digest'.legs = 1 .. Len(digest'.legs)
  <2>1. CASE out.digest = None
    BY <1>1, <2>1 DEF Documents
  <2>2. CASE out.digest # None
    <3>1. digest'.legs = out.digest.legs
      BY <1>1, <2>2, OutputsAreDocuments
    <3>2. /\ Len(out.digest.legs) \in Nat
          /\ DOMAIN out.digest.legs = 1 .. Len(out.digest.legs)
      BY <2>2, OutputsAreDocuments
    <3>q. QED BY <3>1, <3>2
  <2>q. QED BY <2>1, <2>2
<1>q. QED BY <1>2, <1>3, <1>4, <1>5 DEF Documents

(* The record of a run is a digest of what it concerned.                      *)
LEMMA RecordBooks ==
  ASSUME Documents, Books, NEW r \in Runners, RecordRun(r)
  PROVE  Documents' /\ Books'
<1>1. /\ digest' = RecordedDigest(r)
      /\ UNCHANGED <<clock, owner, gathered, payloads, protected, minted, todo>>
  BY DEF RecordRun
<1>2. ASSUME NEW report PROVE DerivedDigest(report, r).legs = <<>>
  BY DEF DerivedDigest
<1>3. digest' # None =>
        Len(digest'.legs) \in Nat /\ DOMAIN digest'.legs = 1 .. Len(digest'.legs)
  BY <1>1, <1>2 DEF RecordedDigest, Documents
<1>q. QED BY <1>1, <1>3 DEF owner, Documents, Books

(* What is gathered is stamped with the hour it was asked for.                *)
LEMMA GatherBooks ==
  ASSUME Documents, Books, NEW r \in Runners, Gather(r)
  PROVE  Documents' /\ Books'
<1>1. UNCHANGED <<clock, owner, digest, payloads, protected, minted, todo>>
  BY DEF Gather
<1>2. gathered' = None \/ \E price : price # None /\ gathered' = Gathered(payloads[r], price)
  BY DEF Gather
<1>3. ASSUME NEW price, price # None, gathered' = Gathered(payloads[r], price)
      PROVE  /\ gathered'.cash = cash /\ gathered'.asOf = clock
             /\ \A t \in DOMAIN gathered'.quotes : gathered'.quotes[t].at = clock
  BY <1>3 DEF Gathered, Backfilled
<1>4. cash \in Int /\ clock \in Int /\ clock <= clock
  BY DEF Books
<1>5. gathered' # None =>
        /\ gathered'.cash \in Int /\ gathered'.asOf \in Int /\ gathered'.asOf <= clock'
        /\ \A t \in DOMAIN gathered'.quotes : gathered'.quotes[t].at = gathered'.asOf
  BY <1>1, <1>2, <1>3, <1>4
<1>q. QED BY <1>1, <1>5 DEF owner, Documents, Books

(* What a promoter sets out to log is the recommendation of some run. *)
SetsOut(p, r, file) ==
  LET planned == Planned(payloads[r], file)
  IN todo' = [todo EXCEPT ![p] = [i \in DOMAIN planned |-> [leg |-> planned[i], run |-> r]]]

(* Only legs of the document are planned.                                     *)
LEMMA PlannedTyped ==
  ASSUME Documents, NEW r \in Runners, NEW file, payloads[r] # None
  PROVE  Planned(payloads[r], file) \in Seq(ProposedLegs)
<1>1. payloads[r].legs \in Seq(ProposedLegs) /\ <<>> \in Seq(ProposedLegs)
  BY EmptySeq DEF Documents
<1>2. Planned(payloads[r], file) \in {payloads[r].legs, <<>>}
  BY DEF Planned
<1>q. QED BY <1>1, <1>2

(* So what is to be minted is a list of proposed legs.                        *)
LEMMA SetsOutBooks ==
  ASSUME Documents, Books, NEW p \in Promoters, NEW r \in Runners, NEW file, SetsOut(p, r, file),
         payloads[r] # None,
         UNCHANGED <<clock, owner, files, minted>>
  PROVE  Documents' /\ Books'
<1> DEFINE planned == Planned(payloads[r], file)
           list == [i \in DOMAIN planned |-> [leg |-> planned[i], run |-> r]]
<1>1. PICK n \in Nat : planned \in [1 .. n -> ProposedLegs]
  BY PlannedTyped, SeqDef
<1>2. \A i \in 1 .. n : [leg |-> planned[i], run |-> r] \in PlannedLegs
  BY <1>1 DEF PlannedLegs
<1>3. list \in [1 .. n -> PlannedLegs]
  BY <1>1, <1>2
<1>4. todo' = [todo EXCEPT ![p] = list]
  BY DEF SetsOut
<1> HIDE DEF list
<1>5. list \in Seq(PlannedLegs)
  BY <1>3, SeqDef
<1>6. todo' \in [Promoters -> Seq(PlannedLegs)]
  BY <1>4, <1>5 DEF Books
<1>q. QED BY <1>6 DEF owner, files, Documents, Books

(* A leg at a time goes from that list to the log.                            *)
LEMMA MintBooks ==
  ASSUME Documents, Books, NEW p \in Promoters, MintLeg(p)
  PROVE  Documents' /\ Books'
<1>1. /\ minted' = Append(minted, PromotedDecision(Head(todo[p]), p))
      /\ todo' = [todo EXCEPT ![p] = Tail(todo[p])]
      /\ UNCHANGED <<clock, owner, files>> /\ todo[p] # <<>>
  BY DEF MintLeg
<1>2. todo[p] \in Seq(PlannedLegs) /\ minted \in Seq(PendingDecisions)
  BY DEF Books
<1>3. Head(todo[p]) \in PlannedLegs /\ Tail(todo[p]) \in Seq(PlannedLegs)
  BY <1>1, <1>2, HeadTailProperties
<1>4. PromotedDecision(Head(todo[p]), p) \in PendingDecisions
  BY <1>3 DEF PromotedDecision, PlannedLegs, PendingDecisions
<1>5. minted' \in Seq(PendingDecisions) /\ Len(minted') = Len(minted) + 1
  BY <1>1, <1>2, <1>4, AppendProperties
<1>6. DOMAIN minted \subseteq DOMAIN minted'
  BY <1>2, <1>5, LenProperties
<1>7. todo' \in [Promoters -> Seq(PlannedLegs)]
  BY <1>1, <1>3 DEF Books
<1>q. QED BY <1>1, <1>5, <1>6, <1>7 DEF owner, files, Documents, Books

(* Owner, clock and spoilt ledgers leave the documents alone.                 *)
LEMMA OwnerBooks ==
  ASSUME Documents, Books, OwnerActs \/ LedgerSpoilt \/ Tick
  PROVE  Documents' /\ Books'
<1>1. CASE OwnerActs
  <2>1. UNCHANGED <<clock, gathered, digest, payloads, protected, minted, todo>>
    BY <1>1 DEF OwnerActs, files
  <2>2. open' \subseteq Switches /\ denied' \in BOOLEAN /\ handed' \in BOOLEAN
    BY <1>1, ScheduledConstants DEF OwnerActs, Books
  <2>3. approved' \subseteq DOMAIN minted
    BY <1>1 DEF OwnerActs, Books
  <2>4. cash' \in Nat /\ remaining' \in Nat
    BY <1>1 DEF OwnerActs, Books
  <2>q. QED BY <2>1, <2>2, <2>3, <2>4 DEF Documents, Books
<1>2. CASE LedgerSpoilt
  BY <1>2, AsideKeeps DEF LedgerSpoilt, Aside, files
<1>3. CASE Tick
  <2>1. clock' = clock + 1 /\ clock < MaxClock /\ UNCHANGED <<owner, files, minted, todo>>
    BY <1>3 DEF Tick
  <2>2. clock' \in 0 .. MaxClock /\ \A n \in Int : n <= clock => n <= clock'
    BY <2>1, ScheduledConstants DEF Books
  <2>3. Books'
    BY <2>1, <2>2 DEF owner, files, Books
  <2>4. Documents'
    BY <2>1, <2>2 DEF files, Documents
  <2>q. QED BY <2>3, <2>4
<1>q. QED BY <1>1, <1>2, <1>3

(* Only the run itself writes its recommendation, before it promotes it. *)
LEMMA PayloadKept ==
  ASSUME Shaped, Documents, \A s \in Runners : HasItsPayload(s),
         NEW r \in Runners, Start(r) \/ RunnerStep(r) \/ Crash(r)
  PROVE  \A s \in Runners : HasItsPayload(s)'
<1>1. ASSUME payloads' = payloads, \A s \in Runners \ {r} : runner'[s] = runner[s],
             HasItsPayload(r)'
      PROVE  \A s \in Runners : HasItsPayload(s)'
  BY <1>1 DEF HasItsPayload
<1>2. ASSUME NEW F, Only(r, F), payloads' = payloads,
             \/ "pc" \notin F
             \/ /\ runner'[r].pc \notin {"gather", "promote"}
                /\ runner'[r].pc \in Early => runner[r].pc \in Early
      PROVE  \A s \in Runners : HasItsPayload(s)'
  BY <1>1, <1>2 DEF Only, HasItsPayload, Fields
<1>3. CASE Start(r) \/ AuthorizationPhase(r) \/ RefreshSnapshot(r) \/ MonthEndReminder(r)
             \/ CashPhase(r) \/ EnterModel(r)
  <2>1. payloads' = payloads
    BY <1>3, RunnersAside DEF Aside
  <2>2. runner[r].pc \in Early
    BY <1>3
       DEF Start, AuthorizationPhase, RefreshSnapshot, MonthEndReminder, CashPhase, EnterModel,
           At, Early
  <2>3. PICK F : Only(r, F) /\ runner'[r].pc \notin {"gather", "promote"}
    BY <1>3, BeforeModel DEF GoesOn, TakesDigest, HasToSay, EndsEarly
  <2>q. QED BY <1>2, <2>1, <2>2, <2>3
<1>4. CASE Model(r)
  <2>1. Only(r, {"pc", "ok", "stray"}) /\ runner'[r].pc = "postflight"
    BY <1>4, ModelOnly
  <2>2. \A s \in Runners \ {r} : payloads'[s] = payloads[s]
    BY <1>4 DEF Model, Documents
  <2>q. QED BY <2>1, <2>2 DEF Only, HasItsPayload, Early
<1>5. CASE Postflight(r)
  <2>1. payloads' = payloads
    BY <1>5, RunnersAside DEF Aside
  <2>q. QED BY <1>2, <1>5, <2>1, PostflightOnly DEF Early
<1>6. CASE RecordRun(r)
  <2>1. PICK note : Become(r, [pc |-> IF payloads[r] # None THEN "gather" ELSE "notify",
                               note |-> note, problem |-> RecordProblem(r)])
    BY <1>6 DEF RecordRun
  <2>2. payloads' = payloads
    BY <1>6 DEF RecordRun
  <2>q. QED BY <1>1, <2>1, <2>2, BecomeOnly DEF Only, HasItsPayload, Early, Fields
<1>7. CASE Gather(r)
  <2>1. PICK ready : Become(r, [pc |-> "promote", ready |-> ready])
    BY <1>7 DEF Gather
  <2>2. payloads' = payloads /\ runner[r].pc = "gather"
    BY <1>7 DEF Gather, At
  <2>q. QED BY <1>1, <2>1, <2>2, BecomeOnly DEF Only, HasItsPayload, Early, Fields
<1>8. CASE Promote(r)
  <2>1. PICK pc \in {"notify", "mint"} :
          \E note, refused : Become(r, [pc |-> pc, refused |-> refused, note |-> note])
    BY <1>8 DEF Promote
  <2>2. payloads' = payloads
    BY <1>8 DEF Promote, files
  <2>q. QED BY <1>1, <2>1, <2>2, BecomeOnly DEF Only, HasItsPayload, Early, Fields
<1>9. CASE RecordDiscovery(r)
  <2>1. PICK problem : Exit(r, FinalCode(r, problem))
    BY <1>9 DEF RecordDiscovery
  <2>2. payloads' = payloads
    BY <1>9 DEF RecordDiscovery, files
  <2>q. QED BY <1>2, <2>1, <2>2, ExitEnds DEF Ends, Early
<1>10. CASE MintLeg(r)
  <2>1. payloads' = payloads
    BY <1>10 DEF MintLeg, files
  <2>q. QED BY <1>1, <1>2, <1>10, <2>1, MintOnly DEF HasItsPayload, Early
<1>11. CASE NotifyDecide(r)
  <2>1. PICK code, ledger :
          \/ Become(r, [pc |-> "deliver", code |-> code, ledger |-> ledger])
          \/ Exit(r, code)
    BY <1>11 DEF NotifyDecide
  <2>2. payloads' = payloads
    BY <1>11 DEF NotifyDecide, files
  <2>3. CASE Become(r, [pc |-> "deliver", code |-> code, ledger |-> ledger])
    BY <1>2, <2>2, <2>3, BecomeOnly DEF Early, Fields
  <2>4. CASE Exit(r, code)
    BY <1>2, <2>2, <2>4, ExitEnds DEF Ends, Early
  <2>q. QED BY <2>1, <2>3, <2>4
<1>12. CASE Deliver(r)
  <2>1. payloads' = payloads
    BY <1>12 DEF Deliver, files
  <2>2. CASE Become(r, [pc |-> "save"])
    BY <1>2, <2>1, <2>2, BecomeOnly DEF Early, Fields
  <2>3. CASE Leave(r, [undelivered |-> TRUE])
    BY <1>2, <2>1, <2>3, LeaveOnly DEF Early
  <2>q. QED BY <1>12, <2>2, <2>3 DEF Deliver
<1>13. CASE SaveLedger(r)
  <2>1. Only(r, Cleared) /\ runner'[r].pc = "exit" /\ payloads' = payloads
    BY <1>13, LeaveOnly DEF SaveLedger, files
  <2>q. QED BY <1>2, <2>1 DEF Early
<1>14. CASE Crash(r)
  BY <1>2, <1>14, ExitEnds DEF Crash, Ends, Early, files
<1>q. QED
  BY <1>3, <1>4, <1>5, <1>6, <1>7, <1>8, <1>9, <1>10, <1>11, <1>12, <1>13, <1>14 DEF RunnerStep

(* --- every step ------------------------------------------------------------------ *)

(* Nothing was written, gathered or promoted.                                 *)
LEMMA PromoInit == Init => PromoInv
<1> SUFFICES ASSUME Init PROVE PromoInv
  OBVIOUS
<1>1. runner = [r \in Runners |-> Idle] /\ payloads = [r \in Runners |-> None]
      /\ digest = None /\ gathered = None
  BY DEF Init
<1>2. Shaped /\ \A r \in Runners : runner[r].code \in ExitCodes
  BY <1>1 DEF Shaped, Idle, Fields, ExitCodes
<1>3. Documents /\ \A r \in Runners : HasItsPayload(r)
  BY <1>1 DEF Documents, HasItsPayload, Idle
<1>4. \A S : <<>> \in Seq(S)
  BY EmptySeq
<1>5. clock \in 0 .. MaxClock /\ cash \in Nat /\ remaining \in Nat
  BY ScheduledConstants DEF Init
<1>6. Books
  BY <1>4, <1>5 DEF Init, Books
<1>7. others \subseteq Runners /\ disturbances \in 0 .. MaxDisturbances
  BY ScheduledConstants DEF Init
<1>q. QED BY <1>2, <1>3, <1>6, <1>7 DEF PromoInv

(* Every step keeps the books and the documents.                              *)
LEMMA BooksStep ==
  ASSUME PromoInv, Next
  PROVE  Documents' /\ Books'
<1>a. Documents /\ Books /\ Shaped /\ (\A r \in Runners : HasItsPayload(r))
      /\ Runners \subseteq Promoters /\ Owner \in Promoters
  BY DEF PromoInv, Promoters
<1>1. ASSUME NEW r \in Runners, Promote(r) PROVE Documents' /\ Books'
  <2>1. \E file : SetsOut(r, r, file)
    BY <1>1 DEF Promote, SetsOut
  <2>2. payloads[r] # None
    BY <1>a, <1>1 DEF HasItsPayload, Promote, At
  <2>q. QED BY <1>a, <1>1, <2>1, <2>2, SetsOutBooks DEF Promote
<1>2. CASE PromoteByHand
  <2>1. \E r \in Runners : SetsOut(Owner, r, gathered) /\ payloads[r] # None
    BY <1>2 DEF PromoteByHand, SetsOut
  <2>q. QED BY <1>a, <1>2, <2>1, SetsOutBooks DEF PromoteByHand
<1>3. ASSUME NEW r \in Runners, Crash(r) PROVE Documents' /\ Books'
  <2>1. <<>> \in Seq(PlannedLegs)
    BY EmptySeq
  <2>2. todo' = [todo EXCEPT ![r] = <<>>] /\ UNCHANGED <<clock, owner, files, minted>>
    BY <1>3 DEF Crash
  <2>q. QED BY <1>a, <2>1, <2>2 DEF owner, files, Documents, Books
<1>4. ASSUME NEW r \in Runners, Start(r) \/ RunnerStep(r) PROVE Documents' /\ Books'
  BY <1>a, <1>1, <1>4, RunnersAside, AsideKeeps, ModelBooks, RecordBooks, GatherBooks, MintBooks
     DEF RunnerStep
<1>q. QED BY <1>a, <1>2, <1>3, <1>4, NextActions, MintBooks, OwnerBooks

(* Every step keeps the invariant.                                            *)
LEMMA PromoStep == PromoInv /\ [Next]_vars => PromoInv'
<1> SUFFICES ASSUME PromoInv, [Next]_vars PROVE PromoInv'
  OBVIOUS
<1>1. CASE UNCHANGED vars
  BY <1>1 DEF vars, owner, files, PromoInv, Shaped, Documents, Books, HasItsPayload
<1>2. CASE Next
  <2>1. Documents' /\ Books'
    BY <1>2, BooksStep
  <2>2. Shaped' /\ (\A r \in Runners : runner'[r].code \in ExitCodes)
        /\ \A r \in Runners : HasItsPayload(r)'
    <3>1. CASE \E r \in Runners : Start(r) \/ RunnerStep(r) \/ Crash(r)
      BY <3>1, CodesKept, PayloadKept DEF PromoInv
    <3>2. CASE MintLeg(Owner) \/ PromoteByHand \/ OwnerActs \/ LedgerSpoilt \/ Tick
      <4>1. UNCHANGED <<runner, payloads>>
        BY <3>2 DEF MintLeg, PromoteByHand, OwnerActs, LedgerSpoilt, Tick, files
      <4>q. QED BY <4>1 DEF PromoInv, Shaped, HasItsPayload
    <3>q. QED BY <1>2, <3>1, <3>2, NextActions
  <2>3. others' \subseteq Runners
    BY <1>2 DEF Next, Ordinary, Disturbance, Witness, PromoInv
  <2>4. disturbances' \in 0 .. MaxDisturbances
    BY <1>2, ScheduledConstants DEF Next, PromoInv
  <2>q. QED BY <2>1, <2>2, <2>3, <2>4 DEF PromoInv
<1>q. QED BY <1>1, <1>2

(* Every variable of the scheduled runs keeps its type: what is logged stays  *)
(* a list of decisions of runs, what is approved is among them, an exit code  *)
(* is one of the runbook's.                                                   *)
THEOREM ScheduledTypes == Spec => []TypeOK
<1>1. PromoInv => TypeOK
  <2> SUFFICES ASSUME PromoInv PROVE TypeOK
    OBVIOUS
  <2>1. \A i \in DOMAIN minted : minted[i] \in PendingDecisions
    BY ElementOfSeq, LenProperties DEF PromoInv, Books
  <2>2. DOMAIN runner = Runners /\ DOMAIN todo = Promoters
    BY DEF PromoInv, Shaped, Books
  <2>q. QED BY <2>1, <2>2 DEF PromoInv, Books, PendingDecisions, ExitCodes, TypeOK
<1>q. QED BY PromoInit, PromoStep, <1>1, PTL DEF Spec

(* --- setting out to promote ------------------------------------------------------ *)

(* A leg passes preflight only with a snapshot that quotes it recently, and   *)
(* for an amount that fits the month and the cash.                            *)
LEMMA PassingLeg ==
  ASSUME NEW leg, NEW switches, NEW available, NEW file, NEW now,
         LegPromotable(leg, switches, available, file, now)
  PROVE  /\ file # None
         /\ ~(leg.usd > available) /\ ~(leg.usd > file.cash)
         /\ leg.ticker \in DOMAIN file.quotes
         /\ ~(now - file.quotes[leg.ticker].at > MaxQuoteAge)
<1> DEFINE codes == PreflightCodes(leg, switches, available, file, now)
<1>1. ExpectedAtPromotion = {"EXECUTION_MODE_DRY_RUN", "AGENT_DISABLED", "LIVE_TRADING_DISABLED",
                             "NOT_APPROVED"}
  BY DEF ExpectedAtPromotion, RequiredGateCodes, SwitchCode
<1>2. codes \subseteq ExpectedAtPromotion
  BY DEF LegPromotable, PromotionBlockers
<1>3. /\ "BROKER_UNREADABLE" \notin codes /\ "EXCEEDS_RECONCILED_AUTHORIZATION" \notin codes
      /\ "INSUFFICIENT_SETTLED_CASH" \notin codes /\ "STALE_QUOTE" \notin codes
  BY <1>1, <1>2
<1>4. file # None
  BY <1>3 DEF PreflightCodes
<1>5. MoneyCodes(leg, available, file) \subseteq codes /\ QuoteCodes(leg, file, now) \subseteq codes
  BY <1>4 DEF PreflightCodes
<1> HIDE DEF codes
<1>6. ~(leg.usd > available) /\ ~(leg.usd > file.cash)
  BY <1>3, <1>5 DEF MoneyCodes
<1>7. "STALE_QUOTE" \notin QuoteCodes(leg, file, now)
  BY <1>3, <1>5
<1>8. leg.ticker \in DOMAIN file.quotes
  BY <1>7 DEF QuoteCodes
<1>9. ~(now - file.quotes[leg.ticker].at > MaxQuoteAge)
  BY <1>7, <1>8 DEF QuoteCodes
<1>q. QED BY <1>4, <1>6, <1>8, <1>9

(* The steps that give a promoter something to log.                           *)
LEMMA SettingOut ==
  ASSUME PromoInv, Next, NEW p \in Promoters, todo[p] = <<>>, todo'[p] # <<>>
  PROVE  \E r \in Runners :
           /\ payloads[r] # None /\ Announces
           /\ Promotable(payloads[r], gathered) /\ payloads[r].legs # <<>>
           /\ todo'[p] = [i \in DOMAIN payloads[r].legs |-> [leg |-> payloads[r].legs[i], run |-> r]]
<1>a. /\ todo \in [Promoters -> Seq(PlannedLegs)]
      /\ Documents /\ \A r \in Runners : HasItsPayload(r)
  BY DEF PromoInv, Books
<1>1. ASSUME NEW r \in Runners, payloads[r] # None, NEW file, file \in {gathered, None},
             SetsOut(p, r, file)
      PROVE  /\ Announces
             /\ Promotable(payloads[r], gathered) /\ payloads[r].legs # <<>>
             /\ todo'[p] = [i \in DOMAIN payloads[r].legs |->
                              [leg |-> payloads[r].legs[i], run |-> r]]
  <2> DEFINE planned == Planned(payloads[r], file)
             list == [i \in DOMAIN planned |-> [leg |-> planned[i], run |-> r]]
  <2>1. todo'[p] = list
    BY <1>1, <1>a DEF SetsOut
  <2>2. planned # <<>>
    <3>1. CASE planned = <<>>
      <4>1. list = <<>>
        BY <3>1
      <4>q. QED BY <2>1, <4>1
    <3>q. QED BY <3>1
  <2>3. Announces /\ Promotable(payloads[r], file) /\ planned = payloads[r].legs
    BY <2>2 DEF Planned
  <2>4. payloads[r].legs \in Seq(ProposedLegs)
    BY <1>1, <1>a DEF Documents
  <2>5. 1 \in DOMAIN payloads[r].legs
    BY <2>2, <2>3, <2>4, EmptySeq, LenProperties
  <2>6. file # None
    BY <2>3, <2>5, PassingLeg DEF Promotable
  <2>q. QED BY <1>1, <2>1, <2>2, <2>3, <2>6
<1>2. ASSUME NEW r \in Runners, Promote(r)
      PROVE  p = r /\ payloads[r] # None /\ \E file \in {gathered, None} : SetsOut(p, r, file)
  <2>1. \E file \in {gathered, None} : SetsOut(r, r, file)
    BY <1>2 DEF Promote, SetsOut
  <2>2. p = r
    BY <1>a, <2>1 DEF SetsOut
  <2>q. QED BY <1>a, <1>2, <2>1, <2>2 DEF HasItsPayload, Promote, At
<1>3. ASSUME PromoteByHand
      PROVE  \E r \in Runners : payloads[r] # None /\ SetsOut(p, r, gathered)
  <2>1. PICK r \in Runners : SetsOut(Owner, r, gathered) /\ payloads[r] # None
    BY <1>3 DEF PromoteByHand, SetsOut
  <2>2. p = Owner
    BY <1>a, <2>1 DEF SetsOut
  <2>q. QED BY <2>1, <2>2
<1>4. ASSUME NEW q \in Promoters, MintLeg(q) PROVE FALSE
  <2>1. todo[q] # <<>> /\ todo' = [todo EXCEPT ![q] = Tail(todo[q])]
    BY <1>4 DEF MintLeg
  <2>q. QED BY <1>a, <2>1
<1>5. ASSUME NEW r \in Runners, Crash(r) PROVE FALSE
  BY <1>5, <1>a DEF Crash
<1>6. ASSUME todo' = todo PROVE FALSE
  BY <1>6
<1>7. ASSUME NEW r \in Runners, Start(r) \/ RunnerStep(r) PROVE Promote(r)
  <2>1. r \in Promoters
    BY DEF Promoters
  <2>2. CASE Model(r) \/ RecordRun(r) \/ Gather(r)
    BY <1>6, <2>2 DEF Model, RecordRun, Gather
  <2>q. QED BY <1>4, <1>6, <1>7, <2>1, <2>2, RunnersAside DEF Aside, RunnerStep
<1>8. CASE OwnerActs \/ LedgerSpoilt \/ Tick
  BY <1>6, <1>8 DEF OwnerActs, LedgerSpoilt, Tick
<1>9. Owner \in Promoters
  BY DEF Promoters
<1>q. QED BY <1>1, <1>2, <1>3, <1>4, <1>5, <1>7, <1>8, <1>9, NextActions

(* What a promoter sets out to log is, leg by leg and amount by amount, the   *)
(* BUY that the digest on disk announces, of a recommendation that names the  *)
(* newest audit record and the one the digest names, if it names one: a       *)
(* derived digest, one that points at another record or one that announces    *)
(* something else promotes nothing (promote_latest_recommendation.py). Whose  *)
(* the digest is, when its text points nowhere, nothing in the code settles.  *)
THEOREM PromotionsAreAnnounced == Spec => PromotedAsAnnounced
<1> DEFINE Announced ==
             \A p \in Promoters :
               todo[p] = <<>> /\ todo'[p] # <<>> =>
                 /\ digest # None /\ digest.headline = "BUY"
                 /\ Headline(digest.legs)
                      = Headline([i \in DOMAIN todo'[p] |-> todo'[p][i].leg])
                 /\ LET source == payloads[todo'[p][1].run].source
                    IN /\ digest.pointer # None => digest.pointer = source
                       /\ NewestReport # None => source = NewestReport
<1>1. ASSUME PromoInv, Next PROVE Announced
  <2> SUFFICES ASSUME NEW p \in Promoters, todo[p] = <<>>, todo'[p] # <<>>
               PROVE  /\ digest # None /\ digest.headline = "BUY"
                      /\ Headline(digest.legs)
                           = Headline([i \in DOMAIN todo'[p] |-> todo'[p][i].leg])
                      /\ LET source == payloads[todo'[p][1].run].source
                         IN /\ digest.pointer # None => digest.pointer = source
                            /\ NewestReport # None => source = NewestReport
    OBVIOUS
  <2>1. PICK r \in Runners :
          /\ payloads[r] # None /\ Announces
          /\ Promotable(payloads[r], gathered) /\ payloads[r].legs # <<>>
          /\ todo'[p] = [i \in DOMAIN payloads[r].legs |-> [leg |-> payloads[r].legs[i], run |-> r]]
    BY <1>1, SettingOut
  <2>2. digest # None /\ digest.headline = "BUY"
    BY <2>1, NoneIsNoBanner DEF Announces, BannerKind
  <2>3. DOMAIN digest.legs = 1 .. Len(digest.legs)
    BY <1>1, <2>2 DEF PromoInv, Documents
  <2>4. /\ digest.pointer # None => digest.pointer = payloads[r].source
        /\ NewestReport # None => payloads[r].source = NewestReport
    BY <2>1 DEF Promotable, Fresh
  <2>5. DOMAIN payloads[r].legs = 1 .. Len(payloads[r].legs)
    BY <1>1, <2>1, LenProperties DEF PromoInv, Documents
  <2>6. Headline(digest.legs) = Headline(payloads[r].legs)
    BY <2>1, <2>3, <2>5 DEF Headline, Promotable, BannerAgrees
  <2>7. Headline([i \in DOMAIN todo'[p] |-> todo'[p][i].leg]) = Headline(payloads[r].legs)
    BY <2>1 DEF Headline
  <2>8. todo'[p][1].run = r
    <3>1. 1 \in DOMAIN payloads[r].legs
      BY <1>1, <2>1, <2>5, LenProperties, EmptySeq DEF PromoInv, Documents
    <3>q. QED BY <2>1, <3>1
  <2>q. QED BY <2>2, <2>4, <2>6, <2>7, <2>8
<1>2. UNCHANGED vars => UNCHANGED todo
  BY DEF vars
<1>3. PromoInv /\ [Next]_vars => [Announced]_vars
  BY <1>1
<1>q. QED BY PromoInit, PromoStep, <1>3, PTL DEF Spec, PromotedAsAnnounced

(* What the owner approved and has not spent is a number of dollars.          *)
LEMMA ReservedIsDollars ==
  ASSUME Books
  PROVE  Reserved \in Int
<1> DEFINE usd == [i \in DOMAIN minted |-> minted[i].leg.usd]
<1>1. DOMAIN minted = 1 .. Len(minted) /\ Len(minted) \in Nat
  BY LenProperties DEF Books
<1>2. \A i \in DOMAIN minted : minted[i] \in PendingDecisions
  BY <1>1, ElementOfSeq DEF Books
<1>3. \A i \in DOMAIN minted : usd[i] \in Int
  BY <1>2, ProposedAmounts DEF PendingDecisions
<1>4. IsFiniteSet(DOMAIN minted)
  BY <1>1, FS_Interval
<1>5. IsFiniteSet(approved) /\ \A i \in approved : usd[i] \in Int
  BY <1>3, <1>4, FS_Subset DEF Books
<1> HIDE DEF usd
<1>6. SumOver(usd, approved) \in Int
  BY <1>5, SumOverInt
<1>q. QED BY <1>6 DEF Reserved, usd

(* Setting out to promote, every leg fits what the month has left after what  *)
(* is approved and unspent, and the cash of a snapshot no older than a quote  *)
(* may be, whoever approved, deposited, spent or gathered in between.         *)
THEOREM PromotionsAreWithinMeans == Spec => PromotedWithinMeans
<1> DEFINE Fits(leg) == /\ leg.usd + Reserved <= remaining
                        /\ gathered # None /\ leg.usd <= gathered.cash
                        /\ clock - gathered.asOf \in 0 .. MaxQuoteAge
           Within == \A p \in Promoters :
                       todo[p] = <<>> /\ todo'[p] # <<>> =>
                         \A i \in DOMAIN todo'[p] : Fits(todo'[p][i].leg)
<1>1. ASSUME PromoInv, Next PROVE Within
  <2> SUFFICES ASSUME NEW p \in Promoters, todo[p] = <<>>, todo'[p] # <<>>,
                      NEW i \in DOMAIN todo'[p]
               PROVE  Fits(todo'[p][i].leg)
    OBVIOUS
  <2>1. PICK r \in Runners :
          /\ payloads[r] # None /\ Announces
          /\ Promotable(payloads[r], gathered) /\ payloads[r].legs # <<>>
          /\ todo'[p] = [j \in DOMAIN payloads[r].legs |-> [leg |-> payloads[r].legs[j], run |-> r]]
    BY <1>1, SettingOut
  <2>2. PICK leg : leg = payloads[r].legs[i]
    OBVIOUS
  <2>3. i \in DOMAIN payloads[r].legs /\ todo'[p][i].leg = leg
    BY <2>1, <2>2
  <2>4. /\ Reserved \in Int /\ remaining \in Nat /\ clock \in Nat
        /\ payloads[r].legs \in Seq(ProposedLegs)
    BY <1>1, <2>1, ReservedIsDollars DEF PromoInv, Books, Documents
  <2>5. leg.usd \in Int
    BY <2>2, <2>3, <2>4, ProposedAmounts, ElementOfSeq, LenProperties
  <2>6. leg.usd > 0
    BY <2>1, <2>2, <2>3 DEF Promotable, ValidRecommendation
  <2>7. /\ gathered # None
        /\ ~(leg.usd > Available(remaining, Reserved)) /\ ~(leg.usd > gathered.cash)
        /\ leg.ticker \in DOMAIN gathered.quotes
        /\ ~(clock - gathered.quotes[leg.ticker].at > MaxQuoteAge)
    BY <2>1, <2>2, <2>3, PassingLeg DEF Promotable
  <2>8. Available(remaining, Reserved)
          = IF remaining - Reserved < 0 THEN 0 ELSE remaining - Reserved
    BY <2>4, NoneIsNoNumber DEF Available, AtLeastZero
  <2>9. leg.usd + Reserved <= remaining
    BY <2>4, <2>5, <2>6, <2>7, <2>8
  <2>10. /\ gathered.cash \in Int /\ gathered.asOf \in Int /\ gathered.asOf <= clock
         /\ gathered.quotes[leg.ticker].at = gathered.asOf
    BY <1>1, <2>7 DEF PromoInv, Documents
  <2>11. leg.usd <= gathered.cash
    BY <2>5, <2>7, <2>10
  <2>12. clock - gathered.asOf \in 0 .. MaxQuoteAge
    BY <2>4, <2>7, <2>10, PromotionConstants
  <2>q. QED BY <2>3, <2>7, <2>9, <2>11, <2>12
<1>2. PromoInv /\ [Next]_vars => [Within]_vars
  BY <1>1
<1>q. QED BY PromoInit, PromoStep, <1>2, PTL DEF Spec, PromotedWithinMeans

(* --- plans are logged whole ---------------------------------------------------- *)

(* The legs of a run's recommendation a promoter still has to log. *)
Waiting(r, p) == IF todo[p] # <<>> /\ todo[p][1].run = r THEN Len(todo[p]) ELSE 0
Cut(p) == p \in Runners /\ runner[p].pc = "exit" /\ runner[p].code = -1

(* What waits is the rest of one recommendation, and waits for nothing but to  *)
(* be logged.                                                                  *)
InTurn(p) ==
  todo[p] # <<>> =>
    /\ p \in Runners => runner[p].pc = "mint"
    /\ LET legs == payloads[todo[p][1].run].legs
       IN \A i \in 1 .. Len(todo[p]) :
            /\ todo[p][i].run = todo[p][1].run
            /\ todo[p][i].leg = legs[Len(legs) - Len(todo[p]) + i]

(* What is logged of a recommendation is in its order, over and over, and with *)
(* what still waits it is whole, unless the promoter died.                     *)
Placed(r, p) ==
  \A i \in Logged(r, p) :
    minted[i].leg
      = payloads[r].legs[(Cardinality(LoggedBefore(r, p, i)) % Len(payloads[r].legs)) + 1]
Whole(r, p) ==
  Logged(r, p) # {} \/ Waiting(r, p) # 0 =>
    /\ payloads[r] # None
    /\ 0 < Len(payloads[r].legs) /\ Waiting(r, p) <= Len(payloads[r].legs)
    /\ Placed(r, p)
    /\ ~Cut(p) =>
         (Cardinality(Logged(r, p)) + Waiting(r, p)) % Len(payloads[r].legs) = 0

PlansInv ==
  /\ PromoInv
  /\ \A p \in Promoters : InTurn(p) /\ \A r \in Runners : Whole(r, p)

(* Counting round and round a plan of s legs: with k to go the next is the one *)
(* k from the end, and a whole plan more or less makes no difference.          *)
LEMMA RoundThePlan ==
  ASSUME NEW c \in Nat, NEW k \in Nat, NEW s \in Nat, 0 < s
  PROVE  /\ 0 < k /\ k <= s /\ (c + k) % s = 0 => c % s = s - k
         /\ c % s = 0 => (c + s) % s = 0
<1>1. PICK q \in Nat, m \in Nat : c = s * q + m /\ m < s /\ c % s = m
  <2>1. c = s * (c \div s) + (c % s) /\ c \div s \in Nat
    OBVIOUS
  <2>2. c % s \in Nat /\ c % s < s
    OBVIOUS
  <2>q. QED BY <2>1, <2>2
<1>2. \A n, j \in Nat : j < s => (s * n + j) % s = j
  OBVIOUS
<1>3. ASSUME 0 < k, k <= s, (c + k) % s = 0 PROVE m = s - k
  <2>1. CASE m + k < s
    <3>1. PICK j \in Nat : j = m + k
      OBVIOUS
    <3>2. c + k = s * q + j /\ j < s
      BY <1>1, <2>1, <3>1
    <3>3. (c + k) % s = m + k
      BY <1>2, <3>1, <3>2
    <3>q. QED BY <1>3, <3>3
  <2>2. CASE s <= m + k
    <3>1. c + k = s * (q + 1) + (m + k - s)
      BY <1>1
    <3>2. m + k - s \in Nat /\ m + k - s < s /\ q + 1 \in Nat
      BY <1>1, <1>3, <2>2
    <3>3. (c + k) % s = m + k - s
      BY <1>2, <3>1, <3>2
    <3>q. QED BY <1>3, <3>3
  <2>q. QED BY <2>1, <2>2
<1>4. ASSUME m = 0 PROVE (c + s) % s = 0
  <2>1. c + s = s * (q + 1) + 0 /\ q + 1 \in Nat
    BY <1>1, <1>4
  <2>q. QED BY <1>2, <2>1
<1>q. QED BY <1>1, <1>3, <1>4

(* What is logged can be counted. *)
LEMMA LoggedIsFinite ==
  ASSUME Books, NEW r, NEW p
  PROVE  /\ IsFiniteSet(Logged(r, p)) /\ Cardinality(Logged(r, p)) \in Nat
         /\ Len(minted) \in Nat /\ Logged(r, p) \subseteq 1 .. Len(minted)
<1>1. Len(minted) \in Nat /\ DOMAIN minted = 1 .. Len(minted)
  BY LenProperties DEF Books
<1>2. Logged(r, p) \subseteq 1 .. Len(minted)
  BY <1>1 DEF Logged
<1>3. IsFiniteSet(1 .. Len(minted))
  BY <1>1, FS_Interval
<1>4. IsFiniteSet(Logged(r, p))
  BY <1>2, <1>3, FS_Subset
<1>q. QED BY <1>1, <1>2, <1>4, FS_CardinalityType

(* A leg logged leaves those before it where they are. *)
Logs(e) == minted' = Append(minted, e)
LEMMA LoggedGrows ==
  ASSUME Books, NEW e \in PendingDecisions, Logs(e),
         NEW n \in Nat, n = Len(minted) + 1, NEW r, NEW p
  PROVE  /\ Logged(r, p)' = IF e.run = r /\ e.by = p THEN Logged(r, p) \cup {n}
                            ELSE Logged(r, p)
         /\ n \notin Logged(r, p) /\ minted'[n] = e
         /\ \A i \in Logged(r, p) :
              minted'[i] = minted[i] /\ LoggedBefore(r, p, i)' = LoggedBefore(r, p, i)
         /\ LoggedBefore(r, p, n)' = Logged(r, p)
<1>1. /\ DOMAIN minted = 1 .. n - 1 /\ DOMAIN minted' = 1 .. n
      /\ \A i \in 1 .. n - 1 : minted'[i] = minted[i]
      /\ minted'[n] = e
  BY AppendProperties, LenProperties DEF Books, Logs
<1>2. Logged(r, p) \subseteq 1 .. n - 1
  BY LoggedIsFinite
<1>3. Logged(r, p)' = IF e.run = r /\ e.by = p THEN Logged(r, p) \cup {n} ELSE Logged(r, p)
  BY <1>1 DEF Logged
<1>4. \A i \in 1 .. n : LoggedBefore(r, p, i)' = LoggedBefore(r, p, i)
  BY <1>2, <1>3 DEF LoggedBefore
<1>5. LoggedBefore(r, p, n) = Logged(r, p)
  BY <1>2 DEF LoggedBefore
<1>6. n \in 1 .. n /\ 1 .. n - 1 \subseteq 1 .. n /\ n \notin 1 .. n - 1
  OBVIOUS
<1>q. QED BY <1>1, <1>2, <1>3, <1>4, <1>5, <1>6

(* What a promoter has logged of a run's recommendation stays as it was. *)
Unmoved(r, p) ==
  /\ Logged(r, p)' = Logged(r, p)
  /\ \A i \in Logged(r, p) :
       minted'[i] = minted[i] /\ LoggedBefore(r, p, i)' = LoggedBefore(r, p, i)
  /\ payloads[r] # None => payloads'[r] = payloads[r]

(* Then it is as whole as before, as long as as much waits. *)
LEMMA WholeKept ==
  ASSUME NEW r, NEW p, Whole(r, p), Unmoved(r, p), Waiting(r, p)' = Waiting(r, p),
         Cut(p) => Cut(p)'
  PROVE  Whole(r, p)'
<1> SUFFICES ASSUME Logged(r, p)' # {} \/ Waiting(r, p)' # 0 PROVE Whole(r, p)'
  BY DEF Whole
<1>1. /\ payloads[r] # None /\ payloads'[r] = payloads[r] /\ Placed(r, p)
      /\ Logged(r, p)' = Logged(r, p)
  BY DEF Whole, Unmoved
<1>2. Placed(r, p)'
  BY <1>1 DEF Placed, Unmoved
<1>q. QED BY <1>1, <1>2 DEF Whole

(* A promoter that logs nothing, and is not cut, keeps its plan. *)
LEMMA PlanKept ==
  ASSUME PlansInv, NEW p \in Promoters, todo'[p] = todo[p],
         \A r \in Runners : Unmoved(r, p),
         p \in Runners => \/ runner'[p] = runner[p]
                          \/ runner[p].pc \notin {"mint", "exit"}
  PROVE  InTurn(p)' /\ \A r \in Runners : Whole(r, p)'
<1>1. \A r \in Runners : Waiting(r, p)' = Waiting(r, p)
  BY DEF Waiting
<1>2. Cut(p) => Cut(p)'
  BY DEF Cut
<1>3. \A r \in Runners : Whole(r, p)'
  BY <1>1, <1>2, WholeKept DEF PlansInv
<1>4. InTurn(p)'
  <2> SUFFICES ASSUME todo[p] # <<>> PROVE InTurn(p)'
    BY DEF InTurn
  <2>1. todo[p] \in Seq(PlannedLegs)
    BY DEF PlansInv, PromoInv, Books
  <2>2. todo[p][1] \in PlannedLegs /\ Len(todo[p]) > 0
    BY <2>1, HeadTailProperties, LenProperties, EmptySeq, ElementOfSeq
  <2>3. PICK r \in Runners : r = todo[p][1].run
    BY <2>2 DEF PlannedLegs
  <2>4. Waiting(r, p) # 0
    BY <2>2, <2>3 DEF Waiting
  <2>5. payloads'[r] = payloads[r]
    BY <2>4 DEF PlansInv, Whole, Unmoved
  <2>6. p \in Runners => runner[p].pc = "mint" /\ runner'[p] = runner[p]
    BY DEF PlansInv, InTurn
  <2>7. \A i \in 1 .. Len(todo[p]) :
          /\ todo[p][i].run = r
          /\ todo[p][i].leg = payloads[r].legs[Len(payloads[r].legs) - Len(todo[p]) + i]
    BY <2>3 DEF PlansInv, InTurn
  <2>q. QED BY <2>3, <2>5, <2>6, <2>7 DEF InTurn
<1>q. QED BY <1>3, <1>4

(* So does everyone in a step that logs nothing and cuts no one. *)
LEMMA PlansKept ==
  ASSUME PlansInv, UNCHANGED <<minted, todo>>,
         \A r \in Runners : payloads[r] # None => payloads'[r] = payloads[r],
         \A r \in Runners : \/ runner'[r] = runner[r]
                           \/ runner[r].pc \notin {"mint", "exit"}
  PROVE  \A p \in Promoters : InTurn(p)' /\ \A r \in Runners : Whole(r, p)'
<1>1. \A p \in Promoters, r \in Runners : Unmoved(r, p)
  BY DEF Unmoved, Logged, LoggedBefore
<1>q. QED BY <1>1, PlanKept

(* A promoter that sets out has the whole recommendation waiting. *)
LEMMA SetsOutWhole ==
  ASSUME PlansInv, NEW p \in Promoters, NEW r \in Runners, NEW file, SetsOut(p, r, file),
         payloads[r] # None, todo[p] = <<>>, UNCHANGED <<files, minted>>,
         \A s \in Runners \ {p} : runner'[s] = runner[s],
         p \in Runners =>
           /\ runner[p].pc = "promote"
           /\ Planned(payloads[r], file) # <<>> => runner'[p].pc = "mint"
  PROVE  \A q \in Promoters : InTurn(q)' /\ \A s \in Runners : Whole(s, q)'
<1> DEFINE legs == payloads[r].legs
           list == [i \in DOMAIN legs |-> [leg |-> legs[i], run |-> r]]
<1>1. \A s \in Runners, q \in Promoters : Unmoved(s, q)
  BY DEF files, Unmoved, Logged, LoggedBefore
<1>2. ASSUME NEW q \in Promoters, q # p \/ todo'[p] = todo[p]
      PROVE  InTurn(q)' /\ \A s \in Runners : Whole(s, q)'
  <2>1. todo'[q] = todo[q]
    BY <1>2 DEF SetsOut, PlansInv, PromoInv, Books
  <2>q. QED BY <1>1, <2>1, PlanKept
<1>3. CASE Planned(payloads[r], file) = <<>>
  <2>1. todo'[p] = <<>>
    BY <1>3 DEF SetsOut, PlansInv, PromoInv, Books
  <2>q. QED BY <1>2, <2>1
<1>4. CASE Planned(payloads[r], file) # <<>>
  <2>1. Planned(payloads[r], file) = legs /\ legs # <<>>
    BY <1>4 DEF Planned
  <2>2. todo'[p] = list
    BY <2>1 DEF SetsOut, PlansInv, PromoInv, Books
  <2>3. legs \in Seq(ProposedLegs)
    BY DEF PlansInv, PromoInv, Documents
  <2>4. PICK n \in Nat : n = Len(legs) /\ 0 < n /\ DOMAIN legs = 1 .. n
    BY <2>1, <2>3, LenProperties, EmptySeq
  <2>5. /\ Len(list) = n /\ list # <<>>
        /\ \A i \in 1 .. n : list[i].leg = legs[i] /\ list[i].run = r
    <3>1. list \in [1 .. n -> PlannedLegs]
      BY <2>3, <2>4, ElementOfSeq DEF PlannedLegs
    <3>2. list \in Seq(PlannedLegs) /\ Len(list) = n
      BY <3>1, SeqDef, LenProperties
    <3>3. \A i \in 1 .. n : list[i].leg = legs[i] /\ list[i].run = r
      BY <2>4
    <3> HIDE DEF list
    <3>q. QED BY <2>4, <3>2, <3>3, EmptySeq
  <2> HIDE DEF list
  <2>6. /\ \A s \in Runners : Waiting(s, p) = 0
        /\ \A s \in Runners \ {r} : Waiting(s, p)' = 0
        /\ Waiting(r, p)' = n
    BY <2>2, <2>4, <2>5 DEF Waiting
  <2>7. ~Cut(p) /\ payloads' = payloads
    BY DEF Cut, files
  <2>8. ASSUME NEW s \in Runners, s # r PROVE Whole(s, p)'
    BY <1>1, <2>6, <2>7, <2>8, WholeKept DEF PlansInv
  <2>9. Whole(r, p)'
    <3> DEFINE c == Cardinality(Logged(r, p))
    <3>1. c \in Nat /\ c % n = 0 /\ Placed(r, p)
      <4>1. CASE Logged(r, p) = {}
        BY <2>4, <4>1, FS_EmptySet DEF Placed
      <4>2. CASE Logged(r, p) # {}
        <5>1. Placed(r, p) /\ (c + 0) % n = 0
          BY <2>4, <2>6, <2>7, <4>2 DEF PlansInv, Whole
        <5>2. c \in Nat
          BY LoggedIsFinite DEF PlansInv, PromoInv
        <5>q. QED BY <5>1, <5>2
      <4>q. QED BY <4>1, <4>2
    <3>2. (c + n) % n = 0
      BY <2>4, <3>1, RoundThePlan
    <3>3. Placed(r, p)' /\ Logged(r, p)' = Logged(r, p)
      BY <1>1, <2>7, <3>1 DEF Placed, Unmoved
    <3>q. QED BY <2>4, <2>6, <2>7, <3>2, <3>3 DEF Whole
  <2>10. InTurn(p)'
    <3>1. \A i \in 1 .. n : n - n + i = i
      OBVIOUS
    <3>2. 1 \in 1 .. n
      BY <2>4
    <3>3. /\ todo'[p][1].run = r /\ Len(todo'[p]) = n /\ Len(payloads'[r].legs) = n
          /\ p \in Runners => runner'[p].pc = "mint"
      BY <1>4, <2>2, <2>4, <2>5, <2>7, <3>2
    <3>4. \A i \in 1 .. n : todo'[p][i].run = r /\ todo'[p][i].leg = payloads'[r].legs[n - n + i]
      BY <2>2, <2>5, <2>7, <3>1
    <3> HIDE DEF legs
    <3>q. QED BY <3>3, <3>4 DEF InTurn
  <2>q. QED BY <1>2, <2>8, <2>9, <2>10
<1>q. QED BY <1>3, <1>4

(* Places in a list of k and in the rest of it. *)
LEMMA OneLess ==
  ASSUME NEW k \in Nat, 0 < k
  PROVE  /\ k - 1 \in Nat /\ 1 \in 1 .. k
         /\ k # 1 => 1 \in 1 .. k - 1 /\ 2 \in 1 .. k
         /\ \A i \in 1 .. k - 1 : i + 1 \in 1 .. k
         /\ \A s \in Nat : k <= s => k - 1 <= s
         /\ \A c \in Nat : (c + 1) + (k - 1) = c + k
         /\ \A s \in Nat, i \in 1 .. k - 1 : s - k + (i + 1) = s - (k - 1) + i
  OBVIOUS

(* The head of a list is its first. *)
LEMMA HeadIsFirst == ASSUME NEW S, NEW s \in Seq(S), s # <<>> PROVE Head(s) = s[1]
<1>1. Len(s) \in Nat /\ 1 <= Len(s)
  BY LenProperties, EmptySeq
<1>2. SubSeq(s, 1, Len(s)) = s
  BY SubSeqFull
<1>3. 1 \in 1 .. Len(s) + 1 /\ Len(s) \in 1 .. Len(s)
  BY <1>1
<1>q. QED BY <1>1, <1>2, <1>3, HeadTailOfSubSeq

(* A leg logged is the next of its plan. *)
LEMMA MintKeepsPlans ==
  ASSUME PlansInv, NEW p \in Promoters, MintLeg(p),
         \A s \in Runners \ {p} : runner'[s] = runner[s]
  PROVE  \A q \in Promoters : InTurn(q)' /\ \A s \in Runners : Whole(s, q)'
<1>1. /\ Books /\ todo[p] # <<>>
      /\ minted' = Append(minted, PromotedDecision(Head(todo[p]), p))
      /\ todo' = [todo EXCEPT ![p] = Tail(todo[p])]
      /\ payloads' = payloads /\ (p \in Runners => runner[p].pc = "mint")
  BY DEF MintLeg, PlansInv, PromoInv, files, At
<1>2. todo[p] \in Seq(PlannedLegs) /\ todo \in [Promoters -> Seq(PlannedLegs)]
  BY <1>1 DEF Books
<1>3. PICK k \in Nat : k = Len(todo[p]) /\ 0 < k
  BY <1>1, <1>2, LenProperties, EmptySeq
<1>a. 1 \in 1 .. k
  BY <1>3, OneLess
<1>b. /\ Len(Tail(todo[p])) = k - 1
      /\ \A i \in 1 .. k - 1 : Tail(todo[p])[i] = todo[p][i + 1]
      /\ k = 1 <=> Tail(todo[p]) = <<>>
  <2>1. /\ Tail(todo[p]) \in Seq(PlannedLegs) /\ Len(Tail(todo[p])) = k - 1
        /\ \A i \in 1 .. Len(Tail(todo[p])) : Tail(todo[p])[i] = todo[p][i + 1]
    BY <1>1, <1>2, <1>3, HeadTailProperties
  <2>2. Tail(todo[p]) = <<>> <=> Len(Tail(todo[p])) = 0
    BY <2>1, EmptySeq
  <2>3. k = 1 <=> k - 1 = 0
    OBVIOUS
  <2>q. QED BY <2>1, <2>2, <2>3
<1>4. Head(todo[p]) = todo[p][1] /\ Head(todo[p]) \in PlannedLegs
  <2>1. Head(todo[p]) = todo[p][1]
    BY <1>1, <1>2, HeadIsFirst
  <2>q. QED BY <1>1, <1>2, <2>1, HeadTailProperties
<1>c. k # 1 => 1 \in 1 .. k - 1 /\ 2 \in 1 .. k
  BY <1>3, OneLess
<1>5. PICK r \in Runners : r = todo[p][1].run
  BY <1>4 DEF PlannedLegs
<1>6. PICK e \in PendingDecisions :
        Logs(e) /\ e.by = p /\ e.run = r /\ e.leg = todo[p][1].leg
  BY <1>1, <1>4, <1>5 DEF PromotedDecision, PlannedLegs, PendingDecisions, Logs
<1>7. PICK n \in Nat : n = Len(minted) + 1
  BY <1>1, LoggedIsFinite
<1>d. /\ minted'[n] = e
      /\ \A s \in Runners, q \in Promoters :
           /\ Logged(s, q)' = IF e.run = s /\ e.by = q THEN Logged(s, q) \cup {n}
                              ELSE Logged(s, q)
           /\ n \notin Logged(s, q) /\ LoggedBefore(s, q, n)' = Logged(s, q)
           /\ \A i \in Logged(s, q) :
                minted'[i] = minted[i] /\ LoggedBefore(s, q, i)' = LoggedBefore(s, q, i)
  <2> SUFFICES ASSUME NEW s \in Runners, NEW q \in Promoters
               PROVE  /\ minted'[n] = e
                      /\ Logged(s, q)' = IF e.run = s /\ e.by = q THEN Logged(s, q) \cup {n}
                                         ELSE Logged(s, q)
                      /\ n \notin Logged(s, q) /\ LoggedBefore(s, q, n)' = Logged(s, q)
                      /\ \A i \in Logged(s, q) :
                           /\ minted'[i] = minted[i]
                           /\ LoggedBefore(s, q, i)' = LoggedBefore(s, q, i)
    OBVIOUS
  <2>1. Books /\ Logs(e) /\ n = Len(minted) + 1
    BY <1>1, <1>6, <1>7
  <2>2. minted'[n] = e
    BY <2>1, LoggedGrows
  <2>3. n \notin Logged(s, q)
    BY <2>1, LoggedGrows
  <2>4. LoggedBefore(s, q, n)' = Logged(s, q)
    BY <2>1, LoggedGrows
  <2>5. Logged(s, q)' = IF e.run = s /\ e.by = q THEN Logged(s, q) \cup {n} ELSE Logged(s, q)
    BY <2>1, LoggedGrows
  <2>q. QED BY <2>1, <2>2, <2>3, <2>4, <2>5, LoggedGrows
<1>8. ASSUME NEW q \in Promoters, q # p PROVE InTurn(q)' /\ \A s \in Runners : Whole(s, q)'
  <2>1. \A s \in Runners : Unmoved(s, q)
    BY <1>1, <1>6, <1>8, <1>d DEF Unmoved
  <2>2. todo'[q] = todo[q] /\ (q \in Runners => runner'[q] = runner[q])
    BY <1>1, <1>2, <1>8
  <2>q. QED BY <2>1, <2>2, PlanKept
<1>9. /\ todo'[p] = Tail(todo[p]) /\ ~Cut(p)
      /\ k # 1 /\ p \in Runners => runner'[p].pc = "mint"
  <2>1. k # 1 => runner' = runner
    BY <1>3 DEF MintLeg
  <2>q. QED BY <1>1, <1>2, <2>1 DEF Cut
<1>10. /\ Waiting(r, p) = k /\ Waiting(r, p)' = k - 1
       /\ \A s \in Runners \ {r} : Waiting(s, p) = 0 /\ Waiting(s, p)' = 0
  <2>1. \A i \in 1 .. k : todo[p][i].run = r
    BY <1>1, <1>3, <1>5 DEF PlansInv, InTurn
  <2>2. CASE k = 1
    <3>1. todo'[p] = <<>>
      BY <1>9, <1>b, <2>2
    <3>2. k - 1 = 0
      BY <2>2
    <3>q. QED BY <1>1, <1>3, <1>5, <3>1, <3>2 DEF Waiting
  <2>3. CASE k # 1
    <3>1. Tail(todo[p])[1] = todo[p][2] /\ todo[p][2].run = r
      BY <1>b, <1>c, <2>1, <2>3
    <3>2. todo'[p] # <<>> /\ todo'[p][1].run = r /\ Len(todo'[p]) = k - 1
      BY <1>9, <1>b, <2>3, <3>1
    <3>q. QED BY <1>1, <1>3, <1>5, <3>2 DEF Waiting
  <2>q. QED BY <2>2, <2>3
<1>11. ASSUME NEW s \in Runners, s # r PROVE Whole(s, p)'
  <2>1. Unmoved(s, p)
    BY <1>1, <1>6, <1>11, <1>d DEF Unmoved
  <2>q. QED BY <1>9, <1>10, <1>11, <2>1, WholeKept DEF PlansInv
<1> DEFINE legs == payloads[r].legs
<1>12. PICK size \in Nat :
         /\ size = Len(legs) /\ 0 < size /\ k <= size /\ Placed(r, p) /\ payloads[r] # None
         /\ (Cardinality(Logged(r, p)) + k) % size = 0
  <2>1. /\ payloads[r] # None /\ 0 < Len(legs) /\ k <= Len(legs) /\ Placed(r, p)
        /\ (Cardinality(Logged(r, p)) + k) % Len(legs) = 0
    BY <1>3, <1>9, <1>10 DEF PlansInv, Whole
  <2>2. Len(legs) \in Nat
    BY <2>1, LenProperties DEF PlansInv, PromoInv, Documents
  <2>q. QED BY <2>1, <2>2
<1>13. PICK c \in Nat : c = Cardinality(Logged(r, p)) /\ IsFiniteSet(Logged(r, p))
  BY <1>1, LoggedIsFinite
<1>14. \A i \in 1 .. k : todo[p][i].run = r /\ todo[p][i].leg = legs[size - k + i]
  BY <1>1, <1>3, <1>5, <1>12 DEF PlansInv, InTurn
<1>15. c % size = size - k
  BY <1>3, <1>12, <1>13, RoundThePlan
<1>16. Logged(r, p)' = Logged(r, p) \cup {n} /\ n \notin Logged(r, p)
  BY <1>6, <1>d
<1>17. Cardinality(Logged(r, p))' = c + 1
  BY <1>13, <1>16, FS_AddElement
<1>18. Placed(r, p)'
  <2>1. e.leg = legs[(c % size) + 1]
    <3>1. size - k + 1 = (c % size) + 1
      BY <1>15
    <3>q. QED BY <1>6, <1>14, <1>a, <3>1
  <2>2. /\ minted'[n].leg = legs[(Cardinality(LoggedBefore(r, p, n)') % size) + 1]
        /\ payloads'[r].legs = legs
    BY <1>1, <1>13, <1>d, <2>1
  <2>3. ASSUME NEW i \in Logged(r, p)
        PROVE  minted'[i].leg = legs[(Cardinality(LoggedBefore(r, p, i)') % size) + 1]
    BY <1>12, <1>d DEF Placed
  <2> HIDE DEF legs
  <2>q. QED BY <1>12, <1>16, <2>2, <2>3 DEF Placed
<1>19. Whole(r, p)'
  <2>1. k - 1 \in Nat /\ k - 1 <= size /\ (c + 1) + (k - 1) = c + k
    <3>1. k <= size
      BY <1>12
    <3>q. QED BY <1>3, <3>1, OneLess
  <2>q. QED BY <1>1, <1>10, <1>12, <1>13, <1>17, <1>18, <2>1 DEF Whole
<1>20. InTurn(p)'
  <2> SUFFICES ASSUME k # 1 PROVE InTurn(p)'
    <3>1. k = 1 => todo'[p] = <<>>
      BY <1>9, <1>b
    <3>q. QED BY <3>1 DEF InTurn
  <2>1. \A i \in 1 .. k - 1 :
          /\ Tail(todo[p])[i].run = r
          /\ Tail(todo[p])[i].leg = legs[size - (k - 1) + i]
    <3> SUFFICES ASSUME NEW i \in 1 .. k - 1
                 PROVE  /\ Tail(todo[p])[i].run = r
                        /\ Tail(todo[p])[i].leg = legs[size - (k - 1) + i]
      OBVIOUS
    <3>1. i + 1 \in 1 .. k /\ size - k + (i + 1) = size - (k - 1) + i
      BY <1>3, OneLess
    <3>q. QED BY <1>b, <1>14, <3>1
  <2>2. 1 \in 1 .. k - 1
    BY <1>c
  <2>3. /\ todo'[p][1].run = r /\ Len(todo'[p]) = k - 1 /\ payloads'[r].legs = legs
        /\ p \in Runners => runner'[p].pc = "mint"
    BY <1>1, <1>9, <1>b, <2>1, <2>2
  <2>4. \A i \in 1 .. k - 1 : todo'[p][i].run = r /\ todo'[p][i].leg = legs[size - (k - 1) + i]
    BY <1>9, <2>1
  <2> HIDE DEF legs
  <2>q. QED BY <1>12, <2>3, <2>4 DEF InTurn
<1>q. QED BY <1>8, <1>11, <1>19, <1>20

(* A promoter that dies leaves the beginning of a plan. *)
LEMMA CrashKeepsPlans ==
  ASSUME PlansInv, NEW r \in Runners, Crash(r)
  PROVE  \A p \in Promoters : InTurn(p)' /\ \A s \in Runners : Whole(s, p)'
<1>1. /\ todo' = [todo EXCEPT ![r] = <<>>] /\ UNCHANGED <<minted, payloads>>
      /\ \A s \in Runners \ {r} : runner'[s] = runner[s]
      /\ runner'[r].pc = "exit" /\ runner'[r].code = -1
  BY ExitEnds DEF Crash, files, PlansInv, PromoInv, Ends, Only
<1>2. \A p \in Promoters, s \in Runners : Unmoved(s, p)
  BY <1>1 DEF Unmoved, Logged, LoggedBefore
<1>3. ASSUME NEW p \in Promoters, p # r PROVE InTurn(p)' /\ \A s \in Runners : Whole(s, p)'
  <2>1. todo'[p] = todo[p] /\ (p \in Runners => runner'[p] = runner[p])
    BY <1>1, <1>3 DEF PlansInv, PromoInv, Books
  <2>q. QED BY <1>2, <2>1, PlanKept
<1>4. r \in Promoters => InTurn(r)' /\ \A s \in Runners : Whole(s, r)'
  <2> SUFFICES ASSUME r \in Promoters, NEW s \in Runners PROVE InTurn(r)' /\ Whole(s, r)'
    OBVIOUS
  <2>1. todo'[r] = <<>>
    BY <1>1 DEF PlansInv, PromoInv, Books
  <2>2. Cut(r)' /\ Waiting(s, r)' = 0 /\ InTurn(r)'
    BY <1>1, <2>1 DEF Cut, Waiting, InTurn
  <2>3. CASE Logged(s, r) # {}
    <3>1. /\ payloads[s] # None /\ 0 < Len(payloads[s].legs) /\ Placed(s, r)
          /\ Len(payloads[s].legs) \in Nat
      BY <2>3, LenProperties DEF PlansInv, PromoInv, Documents, Whole
    <3>2. Placed(s, r)'
      BY <1>1, <1>2, <3>1 DEF Placed, Unmoved
    <3>q. QED BY <1>1, <2>2, <3>1, <3>2 DEF Whole
  <2>4. CASE Logged(s, r) = {}
    BY <1>2, <2>2, <2>4 DEF Whole, Unmoved
  <2>q. QED BY <2>2, <2>3, <2>4
<1>q. QED BY <1>3, <1>4

(* Every other step of a run is of one that neither logs nor has ended, and    *)
(* only a model writes a recommendation, where there was none.                 *)
LEMMA RunnersKeepPlans ==
  ASSUME PlansInv, NEW r \in Runners,
         \/ Start(r) \/ AuthorizationPhase(r) \/ RefreshSnapshot(r) \/ MonthEndReminder(r)
         \/ CashPhase(r) \/ EnterModel(r) \/ Model(r) \/ Postflight(r) \/ RecordRun(r)
         \/ RecordDiscovery(r) \/ Gather(r) \/ NotifyDecide(r) \/ Deliver(r) \/ SaveLedger(r)
  PROVE  \A p \in Promoters : InTurn(p)' /\ \A s \in Runners : Whole(s, p)'
<1>1. \A s \in Runners \ {r} : runner'[s] = runner[s]
  BY CodesKept DEF RunnerStep, PlansInv, PromoInv
<1>2. runner[r].pc \notin {"mint", "exit"}
  <2>1. CASE Start(r) \/ AuthorizationPhase(r) \/ RefreshSnapshot(r) \/ MonthEndReminder(r)
    BY <2>1 DEF Start, AuthorizationPhase, RefreshSnapshot, MonthEndReminder, At
  <2>2. CASE CashPhase(r) \/ EnterModel(r) \/ Model(r) \/ Postflight(r) \/ RecordRun(r)
    BY <2>2 DEF CashPhase, EnterModel, Model, Postflight, RecordRun, At
  <2>3. CASE RecordDiscovery(r) \/ Gather(r) \/ NotifyDecide(r) \/ Deliver(r) \/ SaveLedger(r)
    BY <2>3 DEF RecordDiscovery, Gather, NotifyDecide, Deliver, SaveLedger, At
  <2>q. QED BY <2>1, <2>2, <2>3
<1>3. /\ UNCHANGED <<minted, todo>>
      /\ \A s \in Runners : payloads[s] # None => payloads'[s] = payloads[s]
  <2>1. CASE Model(r)
    <3>1. payloads[r] = None
      BY <2>1 DEF Model, At, Early, PlansInv, PromoInv, HasItsPayload
    <3>2. \A s \in Runners \ {r} : payloads'[s] = payloads[s]
      BY <2>1 DEF Model, PlansInv, PromoInv, Documents
    <3>3. UNCHANGED <<minted, todo>>
      BY <2>1 DEF Model
    <3>q. QED BY <3>1, <3>2, <3>3
  <2>2. CASE RecordRun(r) \/ Gather(r)
    BY <2>2 DEF RecordRun, Gather
  <2>3. CASE ~Model(r) /\ ~RecordRun(r) /\ ~Gather(r)
    BY <2>3, RunnersAside DEF Aside
  <2>q. QED BY <2>1, <2>2, <2>3
<1>q. QED BY <1>1, <1>2, <1>3, PlansKept

(* A run's own promotion, and one by hand. *)
LEMMA PromotionsKeepPlans ==
  ASSUME PlansInv, PromoteByHand \/ \E r \in Runners : Promote(r)
  PROVE  \A p \in Promoters : InTurn(p)' /\ \A s \in Runners : Whole(s, p)'
<1>1. ASSUME NEW r \in Runners, Promote(r)
      PROVE  \A p \in Promoters : InTurn(p)' /\ \A s \in Runners : Whole(s, p)'
  <2> DEFINE used == IF runner[r].ready THEN gathered ELSE None
  <2>1. PICK file :
          /\ SetsOut(r, r, file)
          /\ \E note, refused :
               Become(r, [pc |-> IF Planned(payloads[r], file) = <<>> THEN "notify" ELSE "mint",
                          refused |-> refused, note |-> note])
    <3>1. /\ SetsOut(r, r, used)
          /\ \E note, refused :
               Become(r, [pc |-> IF Planned(payloads[r], used) = <<>> THEN "notify" ELSE "mint",
                          refused |-> refused, note |-> note])
      BY <1>1 DEF Promote, SetsOut
    <3> HIDE DEF used
    <3>q. QED BY <3>1
  <2>2. runner[r].pc = "promote" /\ UNCHANGED <<files, minted>>
    BY <1>1 DEF Promote, At
  <2>3. r \in Promoters /\ payloads[r] # None /\ todo[r] = <<>>
    BY <2>2 DEF PlansInv, PromoInv, HasItsPayload, InTurn, Promoters
  <2>4. /\ \A s \in Runners \ {r} : runner'[s] = runner[s]
        /\ Planned(payloads[r], file) # <<>> => runner'[r].pc = "mint"
    BY <2>1, BecomeOnly DEF PlansInv, PromoInv, Fields, Only
  <2>q. QED BY <2>1, <2>2, <2>3, <2>4, SetsOutWhole
<1>2. CASE PromoteByHand
  <2>1. PICK r \in Runners : payloads[r] # None /\ SetsOut(Owner, r, gathered)
    BY <1>2 DEF PromoteByHand, SetsOut
  <2>2. todo[Owner] = <<>> /\ UNCHANGED <<files, minted, runner>>
    BY <1>2 DEF PromoteByHand
  <2>3. Owner \in Promoters /\ Owner \notin Runners
    BY ScheduledConstants DEF Promoters, Owner
  <2>q. QED BY <2>1, <2>2, <2>3, SetsOutWhole
<1>q. QED BY <1>1, <1>2

(* Nothing is logged or waits to be. *)
LEMMA PlansInit == Init => PlansInv
<1> SUFFICES ASSUME Init PROVE PlansInv
  OBVIOUS
<1>1. minted = <<>> /\ \A p \in Promoters : todo[p] = <<>>
  BY DEF Init
<1>2. \A r, p : Logged(r, p) = {}
  BY <1>1 DEF Logged
<1>3. \A p \in Promoters : InTurn(p) /\ \A r \in Runners : Whole(r, p)
  BY <1>1, <1>2 DEF InTurn, Waiting, Whole
<1>q. QED BY <1>3, PromoInit DEF PlansInv

(* Every step keeps every plan. *)
LEMMA PlansStep == PlansInv /\ [Next]_vars => PlansInv'
<1> SUFFICES ASSUME PlansInv, [Next]_vars PROVE PlansInv'
  OBVIOUS
<1>1. PromoInv'
  BY PromoStep DEF PlansInv
<1> DEFINE Kept == \A p \in Promoters : InTurn(p)' /\ \A r \in Runners : Whole(r, p)'
<1>2. ASSUME UNCHANGED vars PROVE Kept
  BY <1>2, PlansKept DEF vars, files
<1>3. ASSUME Next PROVE Kept
  <2>1. ASSUME NEW r \in Runners, Start(r) \/ RunnerStep(r) \/ Crash(r) PROVE Kept
    <3>1. CASE MintLeg(r)
      <4>1. \A s \in Runners \ {r} : runner'[s] = runner[s]
        BY <2>1, CodesKept DEF PlansInv, PromoInv
      <4>2. r \in Promoters
        BY DEF Promoters
      <4>q. QED BY <3>1, <4>1, <4>2, MintKeepsPlans
    <3>2. CASE Promote(r)
      BY <3>2, PromotionsKeepPlans
    <3>3. CASE Crash(r)
      BY <3>3, CrashKeepsPlans
    <3>q. QED BY <2>1, <3>1, <3>2, <3>3, RunnersKeepPlans DEF RunnerStep
  <2>2. ASSUME MintLeg(Owner) PROVE Kept
    <3>1. Owner \in Promoters /\ UNCHANGED runner
      BY <2>2 DEF Promoters, MintLeg, Owner
    <3>q. QED BY <2>2, <3>1, MintKeepsPlans
  <2>3. ASSUME PromoteByHand PROVE Kept
    BY <2>3, PromotionsKeepPlans
  <2>4. ASSUME OwnerActs \/ LedgerSpoilt \/ Tick PROVE Kept
    <3>1. UNCHANGED <<minted, todo, payloads, runner>>
      BY <2>4 DEF OwnerActs, LedgerSpoilt, Tick, files
    <3>q. QED BY <3>1, PlansKept
  <2>q. QED BY <1>3, <2>1, <2>2, <2>3, <2>4, NextActions
<1>4. Kept
  BY <1>2, <1>3
<1>q. QED BY <1>1, <1>4 DEF PlansInv

(* Of a recommendation a promoter that was not killed has logged nothing or   *)
(* all, leg by leg in the recommendation's order, once or more often: whatever *)
(* switches, cash, approvals and other promotions change between two legs.     *)
THEOREM PlansAreWhole == Spec => []PlansAreNotSplit
<1>1. PlansInv => PlansAreNotSplit
  <2> SUFFICES ASSUME PlansInv, NEW r \in Runners, NEW p \in Promoters, Logged(r, p) # {}
               PROVE  /\ payloads[r] # None /\ Placed(r, p)
                      /\ todo[p] = <<>> /\ (p \in Runners => runner[p].code # -1) =>
                           Cardinality(Logged(r, p)) % Len(payloads[r].legs) = 0
    BY DEF PlansAreNotSplit, Placed
  <2>1. /\ payloads[r] # None /\ Placed(r, p)
        /\ ~Cut(p) => (Cardinality(Logged(r, p)) + Waiting(r, p)) % Len(payloads[r].legs) = 0
    BY DEF PlansInv, Whole
  <2>2. Cardinality(Logged(r, p)) \in Nat
    BY LoggedIsFinite DEF PlansInv, PromoInv
  <2>3. ASSUME todo[p] = <<>>, p \in Runners => runner[p].code # -1
        PROVE  Cardinality(Logged(r, p)) % Len(payloads[r].legs) = 0
    <3>1. ~Cut(p) /\ Waiting(r, p) = 0
      BY <2>3 DEF Cut, Waiting
    <3>2. Cardinality(Logged(r, p)) + 0 = Cardinality(Logged(r, p))
      BY <2>2
    <3>q. QED BY <2>1, <3>1, <3>2
  <2>q. QED BY <2>1, <2>3
<1>q. QED BY PlansInit, PlansStep, <1>1, PTL DEF Spec
=============================================================================
