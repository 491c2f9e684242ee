----------------------------- MODULE OneShellProofs -----------------------------
(* What holds when the operator runs one script at a time, as the runbook has *)
(* him do: no copy in memory is ever older than the file it will replace. For *)
(* any decisions, amounts and bounds, and any number of crashes; the last     *)
(* theorem is that the pipeline implements OrderLifecycle.                    *)
EXTENDS SubmissionSafetyProofs

OneShell == \A v, w \in Shells : v = w

(* --- the inductive invariant --------------------------------------------- *)

(* The states a reconciled order with a fill leaves a record in.              *)
Executed == {"PARTIALLY_FILLED", "FILLED", "CANCELLED"}

(* What is on disk: a ticket is marked before its one intent is logged, an    *)
(* approval is filed after its record, and no script writes these three       *)
(* states. An order without an execution has nothing filled.                  *)
DiskAlone ==
  /\ \A t \in TicketIds :
       /\ intents[t] <= 1
       /\ tickets[t] # "consumed" => intents[t] = 0
  /\ \A d \in Decisions :
       /\ executions[d] \notin {"REAPPROVAL_REQUIRED", "EXECUTION_FAILED", "EXPIRED"}
       /\ approvals[d] # 0 => HasRecord(d)
       /\ orders[d].phase \in {"none", "open", "rejected"} => orders[d].filled = 0

(* What the running script is about to save differs from the disk in its own  *)
(* decision's record, by one move at most.                                    *)
OneMove(s) ==
  /\ \A e \in Decisions : e # s.decision => s.executions[e] = executions[e]
  /\ \/ s.executions[s.decision] = executions[s.decision]
     \/ CanMove(executions[s.decision], s.executions[s.decision])
  /\ s.executions[s.decision] \notin {"REAPPROVAL_REQUIRED", "EXECUTION_FAILED", "EXPIRED"}

(* A ticket that supports a submission: marked, and citing the approval on file. *)
Cited(s) == approvals[s.decision] = minted[s.ticket].approval

(* What the running script holds, step by step.                               *)
ShellAlone(s) ==
  /\ s.at \in {"prompt", "mint", "store", "submit", "consumed"} => s.executions = executions
  /\ s.at \in {"prompt", "mint", "store", "submit", "consumed", "intended"} => s.next = "idle"
  /\ s.at = "prompt" => executions[s.decision] \in {"PROPOSED", "APPROVED"}
  /\ s.at \in {"mint", "store"} =>
       /\ s.ticket = Len(minted) /\ tickets[s.ticket] = "absent"
       /\ s.ticket \in TicketIds
       /\ Granted(s.decision, minted[s.ticket].approval)
  /\ s.at = "store" => s.tickets = [tickets EXCEPT ![s.ticket] = "fresh"]
  /\ s.at = "submit" =>
       /\ s.tickets = tickets /\ tickets[s.ticket] = "fresh" /\ Cited(s)
  /\ s.at = "consumed" =>
       /\ tickets[s.ticket] = "consumed" /\ intents[s.ticket] = 0 /\ Cited(s)
       /\ executions[s.decision] = "PRE_EXECUTION_VALIDATED"
  /\ s.at = "intended" =>
       /\ tickets[s.ticket] = "consumed" /\ Cited(s)
       /\ executions[s.decision] = "PRE_EXECUTION_VALIDATED"
       /\ s.executions[s.decision] = "SUBMISSION_UNCERTAIN"
  /\ s.at \in {"intended", "save"} => OneMove(s)
  /\ s.at = "save" =>
       /\ s.executions[s.decision] \in {"APPROVED", "PRE_EXECUTION_VALIDATED"}
            /\ s.executions[s.decision] # executions[s.decision]
            => \E a \in 1 .. Len(grants) : Granted(s.decision, a)
       /\ s.next = "grant" => s.executions[s.decision] = "APPROVED"
       /\ s.next = "commit" => s.executions[s.decision] \in Executed
  /\ s.at \in {"grant", "file"} => HasRecord(s.decision)
  /\ s.at = "file" => \A e \in Decisions : e # s.decision => s.approvals[e] = approvals[e]
  /\ s.at \in {"commit", "post"} => executions[s.decision] \in Executed
  /\ s.at = "post" =>
       /\ s.decision \notin ledger.acted
       /\ s.ledger.committed >= ledger.committed
       /\ s.ledger.acted = ledger.acted \union {s.decision}

Alone ==
  /\ Sound
  /\ DiskAlone
  /\ \A w \in Shells : ShellAlone(shell[w])

(* --- preservation ---------------------------------------------------------- *)

(* What is on disk stays right while nobody writes to it.                     *)
LEMMA DiskKept ==
  ASSUME DiskAlone, UNCHANGED << tickets, intents, executions, approvals, orders >>
  PROVE  DiskAlone'
  BY DEF DiskAlone, HasRecord

(* The one shell holds what it was given to hold.                             *)
LEMMA HeldAlone ==
  ASSUME OneShell, Typed, Sound', DiskAlone', NEW w \in Shells, NEW s \in Shell,
         Hold(w, s), ShellAlone(s)'
  PROVE  Alone'
<1>1. \A v \in Shells : shell'[v] = s
  BY DEF OneShell, Hold, Typed, TypeOK
<1>q. QED BY <1>1 DEF Alone

(* A shell in which nothing runs claims nothing.                              *)
LEMMA BlankAlone == ShellAlone(Blank) /\ ShellAlone(Blank)'
  BY DEF ShellAlone, Blank

(* Nothing is moved back to PROPOSED, nor to a state of no script's.          *)
LEMMA MovesOn ==
  ASSUME NEW current \in ExecutionState, NEW target, CanMove(current, target)
  PROVE  target # "PROPOSED" /\ target \in ExecutionState
  BY DEF CanMove, VALID_TRANSITIONS, ExecutionState

(* What may settle a record may move it.                                      *)
LEMMA SettleMoves ==
  ASSUME NEW current \in ExecutionState, NEW target, CanSettle(current, target)
  PROVE  CanMove(current, target)
  BY DEF CanSettle, CanMove, VALID_TRANSITIONS, ExecutionState

(* The moves that the scripts make without asking.                            *)
LEMMA Edges ==
  /\ CanMove("PROPOSED", "APPROVED") /\ CanMove("APPROVED", "PRE_EXECUTION_VALIDATED")
  /\ CanMove("PRE_EXECUTION_VALIDATED", "SUBMISSION_UNCERTAIN")
  /\ CanMove("SUBMISSION_UNCERTAIN", "SUBMITTED")
  BY DEF CanMove, VALID_TRANSITIONS

(* A copy of the records with one of them moved.                              *)
LEMMA MovedCopy ==
  ASSUME NEW copy \in Executions, NEW d \in Decisions, NEW state \in ExecutionState
  PROVE  \E moved \in Executions :
           /\ moved = [copy EXCEPT ![d] = state]
           /\ moved[d] = state /\ \A e \in Decisions : e # d => moved[e] = copy[e]
<1>1. /\ [copy EXCEPT ![d] = state] \in Executions
      /\ [copy EXCEPT ![d] = state][d] = state
      /\ \A e \in Decisions : e # d => [copy EXCEPT ![d] = state][e] = copy[e]
  BY DEF Executions
<1>q. QED BY ONLY <1>1

(* A script that has read the records, and will save one of them moved.       *)
LEMMA SaveStartsAlone ==
  ASSUME OneShell, Alone, Sound', NEW w \in Shells, NEW d \in Decisions,
         NEW target \in ExecutionState, NEW next \in {"idle", "commit"}, NEW fill \in Nat,
         StartSave(w, d, target, next, fill), CanMove(executions[d], target),
         target \notin {"REAPPROVAL_REQUIRED", "EXECUTION_FAILED", "EXPIRED", "APPROVED",
                        "PRE_EXECUTION_VALIDATED"},
         next = "commit" => target \in Executed,
         UNCHANGED << files, history, outside >>
  PROVE  Alone'
<1>a. /\ Typed /\ DiskAlone /\ Blank \in Shell /\ executions \in Executions
  BY BlankTyped DEF Alone, Sound, Typed, TypeOK
<1>1. DiskAlone'
  BY <1>a, DiskKept DEF files, outside
<1>2. PICK copy \in Executions :
        /\ copy = [executions EXCEPT ![d] = target]
        /\ copy[d] = target /\ \A e \in Decisions : e # d => copy[e] = executions[e]
  BY <1>a, MovedCopy
<1>3. PICK s \in Shell :
        /\ s = [Blank EXCEPT !.at = "save", !.next = next, !.decision = d, !.fill = fill,
                             !.executions = copy]
        /\ s.at = "save" /\ s.next = next /\ s.decision = d /\ s.executions = copy
  <2> DEFINE save == [Blank EXCEPT !.at = "save", !.next = next, !.decision = d, !.fill = fill,
                                   !.executions = copy]
  <2>1. /\ save \in Shell /\ save.at = "save" /\ save.next = next /\ save.decision = d
        /\ save.executions = copy
    BY ONLY <1>a, d \in Decisions, copy \in Executions, next \in {"idle", "commit"}, fill \in Nat
       DEF Shell
  <2> HIDE DEF save
  <2>2. save = [Blank EXCEPT !.at = "save", !.next = next, !.decision = d, !.fill = fill,
                             !.executions = copy]
    BY DEF save
  <2>q. QED BY ONLY <2>1, <2>2
<1>4. Hold(w, s)
  BY <1>2, <1>3 DEF StartSave
<1>5. executions' = executions
  BY DEF files
<1>6. ShellAlone(s)'
  BY <1>2, <1>3, <1>5 DEF ShellAlone, OneMove
<1>q. QED BY <1>a, <1>1, <1>4, <1>6, HeldAlone

(* The scripts that start: what each holds is what is on disk.                *)
LEMMA StartAlone ==
  ASSUME OneShell, Alone, Sound', NEW w \in Shells, NEW d \in Decisions,
         \/ Approve(w, d)
         \/ Prepare(w, d)
         \/ Submit(w, d)
         \/ Record(w, d)
         \/ \E commit \in BOOLEAN : Reconcile(w, d, commit)
         \/ Close(w, d)
  PROVE  Alone'
<1> USE DEF files, history, outside
<1>a. /\ Sound /\ Typed /\ TypeOK /\ DiskAlone /\ Blank \in Shell /\ executions \in Executions
      /\ tickets \in Tickets /\ orders[d] \in Order /\ executions[d] \in ExecutionState
  BY BlankTyped DEF Alone, Sound, Typed, TypeOK, Executions
<1>1. CASE Approve(w, d)
  <2>1. PICK s \in Shell :
          /\ s = [Blank EXCEPT !.at = "prompt", !.decision = d, !.executions = executions]
          /\ s.at = "prompt" /\ s.next = "idle" /\ s.decision = d /\ s.executions = executions
    <3> DEFINE prompt == [Blank EXCEPT !.at = "prompt", !.decision = d, !.executions = executions]
    <3>1. Blank.next = "idle"
      BY DEF Blank
    <3>2. /\ prompt \in Shell /\ prompt.at = "prompt" /\ prompt.next = "idle"
          /\ prompt.decision = d /\ prompt.executions = executions
      BY ONLY <1>a, <3>1, d \in Decisions DEF Shell
    <3> HIDE DEF prompt
    <3>3. prompt = [Blank EXCEPT !.at = "prompt", !.decision = d, !.executions = executions]
      BY DEF prompt
    <3>q. QED BY ONLY <3>2, <3>3
  <2>2. executions[d] \in {"PROPOSED", "APPROVED"}
    BY <1>1, <1>a DEF Approve, CanApprove, CanMove, VALID_TRANSITIONS, ExecutionState, DiskAlone
  <2>3. ShellAlone(s)'
    BY <1>1, <2>1, <2>2 DEF Approve, ShellAlone
  <2>q. QED BY <1>1, <1>a, <2>1, <2>3, DiskKept, HeldAlone DEF Approve
<1>2. CASE Prepare(w, d)
  <2> DEFINE t == Len(minted) + 1
  <2>1. /\ minted'[t] = [decision |-> d, approval |-> approvals[d], policy |-> policy]
        /\ Len(minted') = t /\ t \in TicketIds /\ tickets[t] = "absent"
    <3>1. /\ Len(minted) \in Nat /\ t \in TicketIds
      BY <1>2, <1>a, BoundsAssumption DEF Prepare, TypeOK, TicketIds
    <3>q. QED BY <1>2, <1>a, <3>1 DEF Prepare, TypeOK, Sound, SoundTickets, Tickets
  <2>2. Granted(d, approvals[d])'
    BY <1>2, <1>a
       DEF Prepare, PreflightOk, Authorized, ApprovalVerified, Sound, SoundApprovals, Granted
  <2>3. PICK s \in Shell :
          /\ s = [Blank EXCEPT !.at = "mint", !.decision = d, !.ticket = t,
                               !.executions = executions]
          /\ s.at = "mint" /\ s.next = "idle" /\ s.decision = d /\ s.ticket = t
          /\ s.executions = executions
    <3> DEFINE mint == [Blank EXCEPT !.at = "mint", !.decision = d, !.ticket = t,
                                     !.executions = executions]
    <3>1. Blank.next = "idle"
      BY DEF Blank
    <3>2. /\ mint \in Shell /\ mint.at = "mint" /\ mint.next = "idle"
          /\ mint.decision = d /\ mint.ticket = t /\ mint.executions = executions
      BY ONLY <1>a, <2>1, <3>1, d \in Decisions DEF Shell
    <3> HIDE DEF mint
    <3>3. mint = [Blank EXCEPT !.at = "mint", !.decision = d, !.ticket = t,
                               !.executions = executions]
      BY DEF mint
    <3>q. QED BY ONLY <3>2, <3>3
  <2>4. ShellAlone(s)'
    BY <1>2, <2>1, <2>2, <2>3 DEF Prepare, ShellAlone, Granted
  <2>q. QED BY <1>2, <1>a, <2>3, <2>4, DiskKept, HeldAlone DEF Prepare
<1>3. CASE Submit(w, d)
  <2>1. PICK t \in TicketsOf(d) :
          /\ tickets[t] = "fresh" /\ TicketVerified(t)
          /\ Hold(w, [Blank EXCEPT !.at = "submit", !.decision = d, !.ticket = t,
                                   !.executions = executions, !.tickets = tickets])
          /\ UNCHANGED << files, history, outside >>
    BY <1>3 DEF Submit
  <2>2. t \in TicketIds /\ approvals[d] = minted[t].approval
    BY <2>1 DEF TicketsOf, TicketVerified
  <2>3. PICK s \in Shell :
          /\ s = [Blank EXCEPT !.at = "submit", !.decision = d, !.ticket = t,
                               !.executions = executions, !.tickets = tickets]
          /\ s.at = "submit" /\ s.next = "idle" /\ s.decision = d /\ s.ticket = t
          /\ s.executions = executions /\ s.tickets = tickets
    <3> DEFINE submit == [Blank EXCEPT !.at = "submit", !.decision = d, !.ticket = t,
                                       !.executions = executions, !.tickets = tickets]
    <3>1. Blank.next = "idle"
      BY DEF Blank
    <3>2. /\ submit \in Shell /\ submit.at = "submit" /\ submit.next = "idle"
          /\ submit.decision = d /\ submit.ticket = t
          /\ submit.executions = executions /\ submit.tickets = tickets
      BY ONLY <1>a, <2>2, <3>1, d \in Decisions DEF Shell
    <3> HIDE DEF submit
    <3>3. submit = [Blank EXCEPT !.at = "submit", !.decision = d, !.ticket = t,
                                 !.executions = executions, !.tickets = tickets]
      BY DEF submit
    <3>q. QED BY ONLY <3>2, <3>3
  <2>4. ShellAlone(s)'
    BY <2>1, <2>2, <2>3 DEF ShellAlone, Cited
  <2>q. QED BY <1>a, <2>1, <2>3, <2>4, DiskKept, HeldAlone
<1>4. CASE Record(w, d)
  BY <1>4, Edges, SaveStartsAlone DEF Record, ExecutionState
<1>5. ASSUME NEW commit \in BOOLEAN, Reconcile(w, d, commit) PROVE Alone'
  <2>1. Outcome(orders[d]) \in {"FILLED", "PARTIALLY_FILLED", "REJECTED", "CANCELLED"}
    BY <1>5, <1>a DEF Reconcile, Outcome, Order
  <2>2. orders[d].filled > 0 => Outcome(orders[d]) \in Executed
    BY <1>5, <1>a DEF Reconcile, Outcome, Order, DiskAlone, Executed
  <2>3. CanMove(executions[d], Outcome(orders[d]))
    BY <1>5, <1>a, SettleMoves DEF Reconcile
  <2>4. orders[d].filled \in Nat /\ Outcome(orders[d]) \in ExecutionState
    BY <1>a, <2>1 DEF Order, ExecutionState
  <2> HIDE DEF files, history, outside
  <2>5. CASE commit /\ orders[d].filled > 0
    BY <1>5, <2>1, <2>2, <2>3, <2>4, <2>5, SaveStartsAlone DEF Reconcile
  <2>6. CASE ~ (commit /\ orders[d].filled > 0)
    BY <1>5, <2>1, <2>2, <2>3, <2>4, <2>6, SaveStartsAlone DEF Reconcile
  <2>q. QED BY <2>5, <2>6
<1>6. CASE Close(w, d)
  BY <1>6, SaveStartsAlone DEF Close, CanClose, ExecutionState
<1>q. QED BY <1>1, <1>2, <1>3, <1>4, <1>5, <1>6, ZenonT(30)

(* A script that goes on: what it holds, but for the step and one field.      *)
LEMMA NextStep ==
  ASSUME NEW s \in Shell, NEW step \in {"consumed", "save"}
  PROVE  \E t \in Shell :
           /\ t = [s EXCEPT !.at = step]
           /\ t.at = step /\ t.next = s.next /\ t.decision = s.decision
           /\ t.executions = s.executions /\ t.ticket = s.ticket
<1> DEFINE t == [s EXCEPT !.at = step]
<1>1. /\ t \in Shell /\ t.at = step /\ t.next = s.next /\ t.decision = s.decision
      /\ t.executions = s.executions /\ t.ticket = s.ticket
  BY DEF Shell
<1>q. QED BY ONLY <1>1

(* The script up to its submission.                                           *)
LEMMA SubmitAlone ==
  ASSUME OneShell, Alone, Sound', NEW w \in Shells,
         \/ HaltSubmission(w) \/ ConsumeTicket(w) \/ WriteIntent(w) \/ HandOff(w)
  PROVE  Alone'
<1> USE DEF files, history, outside
<1> DEFINE s == shell[w]
           d == s.decision
           t == s.ticket
<1>a. /\ Sound /\ Typed /\ TypeOK /\ DiskAlone /\ ShellAlone(s) /\ SoundShell(s)
      /\ s \in Shell /\ tickets \in Tickets /\ executions \in Executions
      /\ intents \in [TicketIds -> 0 .. MaxIntents]
  BY DEF Alone, Sound, Typed, TypeOK
<1>b. d \in Decisions
  BY <1>a DEF Typed, Working, Busy, HaltSubmission, ConsumeTicket, WriteIntent, HandOff
<1>c. s.at \in {"submit", "consumed", "intended"} => t \in TicketIds
  <2>1. SUFFICES ASSUME MintedFor(d, t) PROVE t \in TicketIds
    BY <1>a DEF SoundShell
  <2>q. QED BY <1>a, <2>1, BoundsAssumption DEF MintedFor, TypeOK, TicketIds
<1> HIDE DEF s
<1>1. CASE HaltSubmission(w)
  <2>1. PICK u \in Shell :
          /\ u = [s EXCEPT !.at = "save"]
          /\ u.at = "save" /\ u.next = s.next /\ u.decision = d
          /\ u.executions = s.executions /\ u.ticket = t
    BY <1>a, NextStep
  <2>2. Hold(w, u) /\ UNCHANGED << executions, grants >> /\ s.at = "submit"
    BY <1>1, <2>1 DEF HaltSubmission, s
  <2>3. ShellAlone(u)'
    BY <1>a, <1>b, <2>1, <2>2 DEF ShellAlone, OneMove, DiskAlone
  <2>q. QED BY <1>1, <1>a, <2>2, <2>3, DiskKept, HeldAlone DEF HaltSubmission
<1>2. CASE ConsumeTicket(w)
  <2>1. PICK u \in Shell :
          /\ u = [s EXCEPT !.at = "consumed"]
          /\ u.at = "consumed" /\ u.next = s.next /\ u.decision = d
          /\ u.executions = s.executions /\ u.ticket = t
    BY <1>a, NextStep
  <2>2. /\ Hold(w, u) /\ UNCHANGED << executions, minted, approvals, intents, orders >>
        /\ s.at = "submit" /\ s.executions[d] = "PRE_EXECUTION_VALIDATED"
    BY <1>2, <2>1 DEF ConsumeTicket, MaySubmit, s
  <2>3. /\ s.tickets = tickets /\ tickets[t] = "fresh" /\ t \in TicketIds
    BY <1>a, <1>c, <2>2 DEF ShellAlone
  <2>4. tickets' = [tickets EXCEPT ![t] = "consumed"]
    BY <1>2, <2>3 DEF ConsumeTicket, Consumed, s
  <2>5. DiskAlone'
    BY <1>a, <2>2, <2>3, <2>4 DEF DiskAlone, HasRecord, Tickets
  <2>6. ShellAlone(u)'
    BY <1>a, <1>b, <2>1, <2>2, <2>3, <2>4 DEF ShellAlone, Cited, DiskAlone, Tickets
  <2>q. QED BY <1>a, <2>2, <2>5, <2>6, HeldAlone
<1>3. CASE WriteIntent(w)
  <2>1. PICK copy \in Executions :
          /\ copy = [s.executions EXCEPT ![d] = "SUBMISSION_UNCERTAIN"]
          /\ copy[d] = "SUBMISSION_UNCERTAIN"
          /\ \A e \in Decisions : e # d => copy[e] = s.executions[e]
    <3>1. s.executions \in Executions /\ "SUBMISSION_UNCERTAIN" \in ExecutionState
      BY <1>a DEF Shell, ExecutionState
    <3>q. QED BY <1>b, <3>1, MovedCopy
  <2>u. PICK u \in Shell :
          /\ u = [s EXCEPT !.at = "intended", !.executions = copy]
          /\ u.at = "intended" /\ u.next = s.next /\ u.decision = d /\ u.ticket = t
          /\ u.executions = copy
    <3> DEFINE x == [s EXCEPT !.at = "intended", !.executions = copy]
    <3>1. /\ x \in Shell /\ x.at = "intended" /\ x.next = s.next /\ x.decision = d
          /\ x.ticket = t /\ x.executions = copy
      BY ONLY <1>a, copy \in Executions DEF Shell
    <3> HIDE DEF x
    <3>2. x = [s EXCEPT !.at = "intended", !.executions = copy]
      BY DEF x
    <3>q. QED BY ONLY <3>1, <3>2
  <2>2. /\ Hold(w, u) /\ UNCHANGED << executions, minted, approvals, tickets, orders >>
        /\ s.at = "consumed" /\ intents' = [intents EXCEPT ![t] = @ + 1]
    BY <1>3, <1>a, <2>1, <2>u DEF WriteIntent, s, Shell
  <2>3. /\ tickets[t] = "consumed" /\ intents[t] = 0 /\ t \in TicketIds
    BY <1>a, <1>c, <2>2 DEF ShellAlone
  <2>4. DiskAlone'
    BY <1>a, <2>2, <2>3 DEF DiskAlone, HasRecord
  <2>5. ShellAlone(u)'
    BY <1>a, <1>b, <2>1, <2>u, <2>2, <2>3, Edges DEF ShellAlone, Cited, OneMove
  <2>q. QED BY <1>a, <2>2, <2>4, <2>5, HeldAlone
<1>4. CASE HandOff(w)
  <2>1. PICK u \in Shell :
          /\ u = [s EXCEPT !.at = "save"]
          /\ u.at = "save" /\ u.next = s.next /\ u.decision = d
          /\ u.executions = s.executions /\ u.ticket = t
    BY <1>a, NextStep
  <2>2. Hold(w, u) /\ UNCHANGED << executions, grants >> /\ s.at = "intended"
    BY <1>4, <2>1 DEF HandOff, s
  <2>3. ShellAlone(u)'
    BY <1>a, <1>b, <2>1, <2>2 DEF ShellAlone, OneMove
  <2>q. QED BY <1>4, <1>a, <2>2, <2>3, DiskKept, HeldAlone DEF HandOff
<1>q. QED BY <1>1, <1>2, <1>3, <1>4

(* The human's answer, and the saves with the loads they follow.              *)
LEMMA SaveAlone ==
  ASSUME OneShell, Alone, Sound', NEW w \in Shells,
         \/ TypePhrase(w) \/ DeclinePhrase(w)
         \/ LoadApprovals(w) \/ SaveApproval(w) \/ LoadTickets(w) \/ SaveTicket(w)
         \/ SaveExecutions(w) \/ Commit(w) \/ RefuseCommit(w) \/ SaveLedger(w)
  PROVE  Alone'
<1> USE DEF files, history, outside
<1> DEFINE s == shell[w]
           d == s.decision
           t == s.ticket
<1>a. /\ Sound /\ Typed /\ TypeOK /\ DiskAlone /\ ShellAlone(s) /\ SoundShell(s)
      /\ s \in Shell /\ tickets \in Tickets /\ executions \in Executions
      /\ intents \in [TicketIds -> 0 .. MaxIntents] /\ Blank \in Shell
      /\ s.executions \in Executions /\ s.next \in {"idle", "grant", "commit"}
      /\ approvals \in Approvals /\ s.approval \in ApprovalIds \union {0}
  BY BlankTyped DEF Alone, Sound, Typed, TypeOK, Shell
<1>b. d \in Decisions
  BY <1>a DEF Typed, Working, Busy, TypePhrase, DeclinePhrase, LoadApprovals, SaveApproval,
     LoadTickets, SaveTicket, SaveExecutions, Commit, RefuseCommit, SaveLedger
<1>c. ASSUME Hold(w, Blank), DiskAlone' PROVE Alone'
  BY <1>a, <1>c, BlankAlone, HeldAlone
<1>d. /\ "APPROVED" \in ExecutionState /\ "PRE_EXECUTION_VALIDATED" \in ExecutionState
  BY DEF ExecutionState
<1> HIDE DEF s
<1>1. CASE TypePhrase(w)
  <2>1. PICK copy \in Executions :
          /\ copy = [s.executions EXCEPT ![d] = "APPROVED"]
          /\ copy[d] = "APPROVED"
          /\ \A e \in Decisions : e # d => copy[e] = s.executions[e]
    <3>1. s.executions \in Executions /\ "APPROVED" \in ExecutionState
      BY <1>a, <1>d
    <3>q. QED BY <1>b, <3>1, MovedCopy
  <2>2. Len(grants) + 1 \in ApprovalIds
    BY <1>1, <1>a, BoundsAssumption DEF TypePhrase, TypeOK, ApprovalIds
  <2>3. PICK u \in Shell :
          /\ u = [s EXCEPT !.at = "save", !.next = "grant", !.approval = Len(grants) + 1,
                           !.executions = copy]
          /\ u.at = "save" /\ u.next = "grant" /\ u.decision = d /\ u.executions = copy
    <3> DEFINE x == [s EXCEPT !.at = "save", !.next = "grant", !.approval = Len(grants) + 1,
                              !.executions = copy]
    <3>1. /\ x \in Shell /\ x.at = "save" /\ x.next = "grant" /\ x.decision = d
          /\ x.executions = copy
      BY ONLY <1>a, <2>2, copy \in Executions DEF Shell
    <3> HIDE DEF x
    <3>2. x = [s EXCEPT !.at = "save", !.next = "grant", !.approval = Len(grants) + 1,
                        !.executions = copy]
      BY DEF x
    <3>q. QED BY ONLY <3>1, <3>2
  <2>4. Hold(w, u) /\ s.at = "prompt" /\ executions' = executions
    BY <1>1, <1>a, <2>1, <2>3 DEF TypePhrase, s, Shell
  <2>5. s.executions = executions /\ executions[d] \in {"PROPOSED", "APPROVED"}
    BY <1>a, <2>4 DEF ShellAlone
  <2>6. \E a \in 1 .. Len(grants') : grants'[a].decision = d
    <3>1. grants' = Append(grants, [decision |-> d, policy |-> policy])
      BY <1>1 DEF TypePhrase, s
    <3>2. /\ Len(grants) \in Nat /\ Len(grants') = Len(grants) + 1
          /\ grants'[Len(grants) + 1].decision = d
      BY <1>a, <3>1 DEF TypeOK
    <3>q. QED BY <3>2
  <2>7. ShellAlone(u)'
    BY <1>b, <2>1, <2>3, <2>4, <2>5, <2>6, Edges DEF ShellAlone, OneMove, Granted
  <2>q. QED BY <1>1, <1>a, <2>4, <2>7, DiskKept, HeldAlone DEF TypePhrase
<1>2. CASE DeclinePhrase(w)
  BY <1>2, <1>a, <1>c, DiskKept DEF DeclinePhrase
<1>3. CASE SaveApproval(w)
  <2>1. HasRecord(d) /\ \A e \in Decisions : e # d => s.approvals[e] = approvals[e]
    BY <1>3, <1>a DEF SaveApproval, ShellAlone, s
  <2>2. /\ \A e \in Decisions : e # d => approvals'[e] = approvals[e]
        /\ UNCHANGED << executions, tickets, intents, orders >> /\ Hold(w, Blank)
    BY <1>3, <2>1 DEF SaveApproval, s
  <2>3. DiskAlone'
    BY <1>a, <2>1, <2>2 DEF DiskAlone, HasRecord
  <2>q. QED BY <1>c, <2>2, <2>3
<1>4. CASE SaveTicket(w)
  <2>1. /\ s.at = "store" /\ s.executions = executions /\ s.next = "idle"
        /\ tickets[t] = "absent" /\ Granted(d, minted[t].approval)
        /\ s.tickets = [tickets EXCEPT ![t] = "fresh"]
    BY <1>4, <1>a DEF SaveTicket, ShellAlone, s
  <2>2. t \in TicketIds
    BY <1>4, <1>a DEF SaveTicket, ShellAlone, s
  <2>3. /\ tickets' = [tickets EXCEPT ![t] = "fresh"]
        /\ UNCHANGED << executions, approvals, intents, orders, grants, minted >>
    BY <1>4, <2>1 DEF SaveTicket, s
  <2>4. DiskAlone'
    BY <1>a, <2>1, <2>2, <2>3 DEF DiskAlone, HasRecord, Tickets
  <2>5. CASE s.executions[d] # "APPROVED"
    BY <1>4, <1>c, <2>4, <2>5 DEF SaveTicket, s
  <2>6. CASE s.executions[d] = "APPROVED"
    <3>1. PICK copy \in Executions :
            /\ copy = [s.executions EXCEPT ![d] = "PRE_EXECUTION_VALIDATED"]
            /\ copy[d] = "PRE_EXECUTION_VALIDATED"
            /\ \A e \in Decisions : e # d => copy[e] = s.executions[e]
      <4>1. s.executions \in Executions /\ "PRE_EXECUTION_VALIDATED" \in ExecutionState
        BY <1>a, <1>d
      <4>q. QED BY <1>b, <4>1, MovedCopy
    <3>2. PICK u \in Shell :
            /\ u = [s EXCEPT !.at = "save", !.executions = copy]
            /\ u.at = "save" /\ u.next = s.next /\ u.decision = d /\ u.executions = copy
      <4> DEFINE x == [s EXCEPT !.at = "save", !.executions = copy]
      <4>1. /\ x \in Shell /\ x.at = "save" /\ x.next = s.next /\ x.decision = d
            /\ x.executions = copy
        BY ONLY <1>a, copy \in Executions DEF Shell
      <4> HIDE DEF x
      <4>2. x = [s EXCEPT !.at = "save", !.executions = copy]
        BY DEF x
      <4>q. QED BY ONLY <4>1, <4>2
    <3>3. Hold(w, u)
      BY <1>4, <1>a, <2>6, <3>1, <3>2 DEF SaveTicket, s, Shell
    <3>4. \E a \in 1 .. Len(grants') : grants'[a].decision = d
      BY <2>1, <2>3 DEF Granted
    <3>5. ShellAlone(u)'
      BY <1>b, <2>1, <2>3, <2>6, <3>1, <3>2, <3>4, Edges DEF ShellAlone, OneMove, Granted
    <3>q. QED BY <1>a, <2>4, <3>3, <3>5, HeldAlone
  <2>q. QED BY <2>5, <2>6
<1>5. CASE SaveExecutions(w)
  <2>1. /\ s.at = "save" /\ executions' = s.executions
        /\ UNCHANGED << tickets, approvals, intents, orders, grants, minted >>
    BY <1>5 DEF SaveExecutions, s
  <2>2. OneMove(s)
    BY <1>a, <2>1 DEF ShellAlone
  <2>3. executions[d] # "PROPOSED" => executions'[d] # "PROPOSED"
    BY <1>a, <1>b, <2>1, <2>2, MovesOn DEF OneMove, Executions
  <2>4. DiskAlone'
    BY <1>a, <1>b, <2>1, <2>2, <2>3 DEF DiskAlone, HasRecord, OneMove
  <2>5. CASE s.next = "idle"
    BY <1>5, <1>c, <2>4, <2>5 DEF SaveExecutions, s
  <2>6. CASE s.next # "idle"
    <3>1. PICK u \in Shell :
            /\ u = [s EXCEPT !.at = s.next]
            /\ u.at = s.next /\ u.decision = d /\ u.next = s.next
      <4> DEFINE x == [s EXCEPT !.at = s.next]
      <4>1. x \in Shell /\ x.at = s.next /\ x.decision = d /\ x.next = s.next
        BY ONLY <1>a DEF Shell
      <4> HIDE DEF x
      <4>2. x = [s EXCEPT !.at = s.next]
        BY DEF x
      <4>q. QED BY ONLY <4>1, <4>2
    <3>2. Hold(w, u)
      BY <1>5, <2>6, <3>1 DEF SaveExecutions, s
    <3>3. ShellAlone(u)'
      BY <1>a, <2>1, <2>6, <3>1 DEF ShellAlone, HasRecord
    <3>q. QED BY <1>a, <2>4, <3>2, <3>3, HeldAlone
  <2>q. QED BY <2>5, <2>6
<1>6. CASE Commit(w)
  <2>1. /\ s.at = "commit" /\ d \notin ledger.acted /\ executions[d] \in Executed
        /\ UNCHANGED << executions, ledger >>
    BY <1>6, <1>a DEF Commit, MayCommit, ShellAlone, s
  <2>2. PICK book \in Ledger :
          /\ book = CommittedPurchase(d, s.fill)
          /\ book.committed >= ledger.committed /\ book.acted = ledger.acted \union {d}
    <3>1. ledger \in Ledger /\ s.fill \in Nat
      BY <1>a DEF TypeOK, Shell
    <3>2. /\ CommittedPurchase(d, s.fill) \in Ledger
          /\ CommittedPurchase(d, s.fill).committed >= ledger.committed
          /\ CommittedPurchase(d, s.fill).acted = ledger.acted \union {d}
      BY ONLY <1>b, <3>1 DEF CommittedPurchase, Ledger
    <3>q. QED BY <3>2
  <2>3. PICK u \in Shell :
          /\ u = [s EXCEPT !.at = "post", !.ledger = book]
          /\ u.at = "post" /\ u.decision = d /\ u.ledger = book
    <3> DEFINE x == [s EXCEPT !.at = "post", !.ledger = book]
    <3>1. x \in Shell /\ x.at = "post" /\ x.decision = d /\ x.ledger = book
      BY ONLY <1>a, book \in Ledger DEF Shell
    <3> HIDE DEF x
    <3>2. x = [s EXCEPT !.at = "post", !.ledger = book]
      BY DEF x
    <3>q. QED BY ONLY <3>1, <3>2
  <2>4. Hold(w, u)
    BY <1>6, <2>2, <2>3 DEF Commit, s
  <2>5. ShellAlone(u)'
    BY <2>1, <2>2, <2>3 DEF ShellAlone
  <2>q. QED BY <1>6, <1>a, <2>4, <2>5, DiskKept, HeldAlone DEF Commit
<1>7. CASE RefuseCommit(w)
  BY <1>7, <1>a, <1>c, DiskKept DEF RefuseCommit
<1>8. CASE SaveLedger(w)
  BY <1>8, <1>a, <1>c, DiskKept DEF SaveLedger
<1>9. CASE LoadApprovals(w)
  <2>1. PICK copy \in Approvals :
          /\ copy = [approvals EXCEPT ![d] = s.approval]
          /\ \A e \in Decisions : e # d => copy[e] = approvals[e]
    <3>1. /\ [approvals EXCEPT ![d] = s.approval] \in Approvals
          /\ \A e \in Decisions : e # d => [approvals EXCEPT ![d] = s.approval][e] = approvals[e]
      BY <1>a DEF Approvals
    <3>q. QED BY ONLY <3>1
  <2>2. PICK u \in Shell :
          /\ u = [s EXCEPT !.at = "file", !.approvals = copy]
          /\ u.at = "file" /\ u.decision = d /\ u.approvals = copy
    <3> DEFINE x == [s EXCEPT !.at = "file", !.approvals = copy]
    <3>1. x \in Shell /\ x.at = "file" /\ x.decision = d /\ x.approvals = copy
      BY ONLY <1>a, copy \in Approvals DEF Shell
    <3> HIDE DEF x
    <3>2. x = [s EXCEPT !.at = "file", !.approvals = copy]
      BY DEF x
    <3>q. QED BY ONLY <3>1, <3>2
  <2>3. Hold(w, u) /\ HasRecord(d) /\ UNCHANGED << executions, approvals >>
    BY <1>9, <1>a, <2>1, <2>2 DEF LoadApprovals, ShellAlone, s
  <2>4. ShellAlone(u)'
    BY <2>1, <2>2, <2>3 DEF ShellAlone, HasRecord
  <2>q. QED BY <1>9, <1>a, <2>3, <2>4, DiskKept, HeldAlone DEF LoadApprovals
<1>10. CASE LoadTickets(w)
  <2>1. PICK copy \in Tickets : copy = [tickets EXCEPT ![t] = "fresh"]
    BY <1>a DEF Tickets
  <2>2. PICK u \in Shell :
          /\ u = [s EXCEPT !.at = "store", !.tickets = copy]
          /\ u.at = "store" /\ u.next = s.next /\ u.decision = d /\ u.ticket = t
          /\ u.executions = s.executions /\ u.tickets = copy
    <3> DEFINE x == [s EXCEPT !.at = "store", !.tickets = copy]
    <3>1. /\ x \in Shell /\ x.at = "store" /\ x.next = s.next /\ x.decision = d
          /\ x.ticket = t /\ x.executions = s.executions /\ x.tickets = copy
      BY ONLY <1>a, copy \in Tickets DEF Shell
    <3> HIDE DEF x
    <3>2. x = [s EXCEPT !.at = "store", !.tickets = copy]
      BY DEF x
    <3>q. QED BY ONLY <3>1, <3>2
  <2>3. /\ Hold(w, u) /\ s.at = "mint"
        /\ UNCHANGED << executions, tickets, grants, minted >>
    BY <1>10, <2>1, <2>2 DEF LoadTickets, s
  <2>4. ShellAlone(u)'
    BY <1>a, <2>1, <2>2, <2>3 DEF ShellAlone, Granted
  <2>q. QED BY <1>10, <1>a, <2>3, <2>4, DiskKept, HeldAlone DEF LoadTickets
<1>q. QED BY <1>1, <1>2, <1>3, <1>4, <1>5, <1>6, <1>7, <1>8, <1>9, <1>10

(* --- the broker, the operator, and a crash --------------------------------- *)

(* What the script holds stays right while the files stay as they are.        *)
LEMMA ShellKept ==
  ASSUME UNCHANGED << executions, approvals, tickets, ledger, intents, grants, minted >>,
         NEW s, ShellAlone(s)
  PROVE  ShellAlone(s)'
  BY DEF ShellAlone, OneMove, Cited, HasRecord, Granted

(* The broker fills an order only while it can, and touches no file.          *)
LEMMA BrokerAlone ==
  ASSUME Alone, Sound', BrokerStep
  PROVE  Alone'
<1> USE DEF files, history, outside
<1>a. Sound /\ Typed /\ TypeOK /\ DiskAlone /\ \A w \in Shells : ShellAlone(shell[w])
  BY DEF Alone, Sound, Typed
<1>1. /\ UNCHANGED << executions, approvals, tickets, ledger, intents, grants, minted, shell >>
      /\ \A d \in Decisions :
           orders'[d].phase \in {"none", "open", "rejected"} => orders'[d].filled = 0
  <2> USE DEF DiskAlone
  <2>1. CASE CallRefused
    BY <1>a, <2>1 DEF CallRefused
  <2>2. ASSUME NEW answered \in BOOLEAN, CallAccepted(answered) PROVE <1>1!:
    <3>1. handoff.decision \in Decisions
      BY <1>a, <2>2 DEF CallAccepted, Typed, Working
    <3>2. \A d \in Decisions :
            orders'[d].phase \in {"none", "open", "rejected"} => orders'[d].filled = 0
      BY <1>a, <2>2, <3>1 DEF CallAccepted, TypeOK, Order
    <3>q. QED BY <2>2, <3>2 DEF CallAccepted
  <2>3. ASSUME NEW d \in Decisions, NEW order \in Order, SetOrder(d, order),
               order.phase \in {"none", "open", "rejected"} => order.filled = 0
        PROVE  <1>1!:
    BY <1>a, <2>3 DEF SetOrder, TypeOK
  <2>4. ASSUME NEW d \in Decisions,
               \/ OrderListed(d) \/ OrderPartiallyFills(d) \/ OrderFills(d)
               \/ OrderCancelled(d) \/ OrderRejected(d)
        PROVE  <1>1!:
    <3>1. orders[d] \in Order /\ Amount[d] \in Nat
      BY <1>a, AmountAssumption DEF TypeOK
    <3>2. /\ [orders[d] EXCEPT !.listed = TRUE] \in Order
          /\ [orders[d] EXCEPT !.listed = TRUE].phase = orders[d].phase
          /\ [orders[d] EXCEPT !.listed = TRUE].filled = orders[d].filled
          /\ \A f \in Nat :
               /\ [orders[d] EXCEPT !.phase = "partial", !.filled = f] \in Order
               /\ [orders[d] EXCEPT !.phase = "partial", !.filled = f].phase = "partial"
               /\ [orders[d] EXCEPT !.phase = "filled", !.filled = f] \in Order
               /\ [orders[d] EXCEPT !.phase = "filled", !.filled = f].phase = "filled"
          /\ [orders[d] EXCEPT !.phase = "cancelled"] \in Order
          /\ [orders[d] EXCEPT !.phase = "cancelled"].phase = "cancelled"
          /\ [orders[d] EXCEPT !.phase = "rejected"] \in Order
          /\ [orders[d] EXCEPT !.phase = "rejected"].filled = orders[d].filled
      BY ONLY <3>1 DEF Order
    <3>3. CASE OrderListed(d)
      BY <1>a, <2>3, <3>2, <3>3 DEF OrderListed
    <3>4. CASE OrderPartiallyFills(d)
      <4>1. PICK f \in Nat : SetOrder(d, [orders[d] EXCEPT !.phase = "partial", !.filled = f])
        <5>1. \A f \in 1 .. (Amount[d] - 1) : f \in Nat
          BY <3>1
        <5>q. QED BY <3>4, <5>1 DEF OrderPartiallyFills
      <4>q. QED BY <2>3, <3>2, <4>1
    <3>5. CASE OrderFills(d)
      BY <2>3, <3>1, <3>2, <3>5 DEF OrderFills
    <3>6. CASE OrderCancelled(d)
      BY <2>3, <3>2, <3>6 DEF OrderCancelled
    <3>7. CASE OrderRejected(d)
      BY <1>a, <2>3, <3>2, <3>7 DEF OrderRejected
    <3>q. QED BY <2>4, <3>3, <3>4, <3>5, <3>6, <3>7
  <2>q. QED BY <2>1, <2>2, <2>4 DEF BrokerStep
<1>2. DiskAlone'
  BY <1>a, <1>1 DEF DiskAlone, HasRecord
<1>3. \A w \in Shells : ShellAlone(shell[w])'
  BY <1>a, <1>1, ShellKept
<1>q. QED BY <1>1, <1>2, <1>3 DEF Alone

(* Edits and expiries touch neither files nor memory; a crash clears memory.  *)
LEMMA WorldAlone ==
  ASSUME OneShell, Alone, Sound', WorldStep
  PROVE  Alone'
<1> USE DEF files, history
<1>a. Sound /\ Typed /\ DiskAlone /\ \A w \in Shells : ShellAlone(shell[w])
  BY DEF Alone, Sound
<1>1. UNCHANGED << executions, approvals, tickets, ledger, intents, grants, minted, orders >>
  BY DEF WorldStep, ToggleSwitches, EditPolicy, ApprovalLapses, TicketLapses, Crash
<1>2. DiskAlone'
  BY <1>a, <1>1, DiskKept
<1>3. ASSUME NEW w \in Shells, Crash(w) PROVE Alone'
  BY <1>a, <1>2, <1>3, BlankTyped, BlankAlone, HeldAlone DEF Crash
<1>4. CASE shell' = shell
  <2>1. \A w \in Shells : ShellAlone(shell[w])'
    BY <1>a, <1>1, <1>4, ShellKept
  <2>q. QED BY <1>2, <1>4, <2>1 DEF Alone
<1>q. QED
  BY <1>3, <1>4 DEF WorldStep, ToggleSwitches, EditPolicy, ApprovalLapses, TicketLapses

(* The empty state directory.                                                 *)
LEMMA InitAlone == Init => Alone
<1> SUFFICES ASSUME Init PROVE Alone
  OBVIOUS
<1>1. DiskAlone
  BY DEF Init, DiskAlone, HasRecord, Blank, Executions, Tickets
<1>q. QED BY <1>1, InitSound, BlankAlone DEF Init, Alone

(* Every step keeps it.                                                       *)
LEMMA StepAlone ==
  ASSUME OneShell, Alone, [Next]_vars
  PROVE  Alone'
<1>1. Sound'
  BY StepSound DEF Alone
<1>2. CASE UNCHANGED vars
  <2>1. \A w \in Shells : ShellAlone(shell[w])'
    BY <1>2, ShellKept DEF Alone, vars
  <2>2. DiskAlone'
    BY <1>2, DiskKept DEF Alone, vars
  <2>q. QED BY <1>1, <1>2, <2>1, <2>2 DEF Alone, vars
<1>3. CASE Next
  BY <1>1, <1>3, StartAlone, SubmitAlone, SaveAlone, BrokerAlone, WorldAlone
     DEF Next, ScriptStep, Proceed
<1>q. QED BY <1>2, <1>3

(* --- what follows ---------------------------------------------------------- *)

(* With one shell, crashes and all, no ticket's intent is logged twice: a     *)
(* ticket supports one submission.                                            *)
THEOREM TicketsUsedOnce == ASSUME OneShell PROVE Spec => []TicketUsedOnce
<1>1. Alone => TicketUsedOnce
  BY DEF Alone, DiskAlone, TicketUsedOnce
<1>q. QED BY InitAlone, StepAlone, <1>1, PTL DEF Spec

(* With one shell, an approval on file always has its record: dying between   *)
(* the two saves of approve_decision leaves the record without the approval.  *)
THEOREM ApprovalsHaveRecords == ASSUME OneShell PROVE Spec => []ApprovalHasRecord
<1>1. Alone => ApprovalHasRecord
  BY DEF Alone, DiskAlone, ApprovalHasRecord
<1>q. QED BY InitAlone, StepAlone, <1>1, PTL DEF Spec

(* Each of these files has one writer.                                        *)
LEMMA Writers ==
  ASSUME [Next]_vars
  PROVE  /\ executions' # executions => \E w \in Shells : SaveExecutions(w)
         /\ handoff' # handoff /\ ~ handoff'.called =>
              \/ \E w \in Shells : HandOff(w)
              \/ \E answered \in BOOLEAN : CallAccepted(answered)
              \/ CallRefused
         /\ ledger' # ledger => \E w \in Shells : SaveLedger(w)
         /\ grants' # grants => \E w \in Shells : TypePhrase(w)
         /\ minted' # minted => \E w \in Shells, d \in Decisions : Prepare(w, d)
         /\ intents' # intents => \E w \in Shells : WriteIntent(w)
         /\ orders' # orders =>
              \/ \E answered \in BOOLEAN : CallAccepted(answered)
              \/ \E d \in Decisions : OrderListed(d) \/ OrderPartiallyFills(d)
                   \/ OrderFills(d) \/ OrderCancelled(d) \/ OrderRejected(d)
<1> USE DEF files, history, outside
<1>1. ASSUME NEW w \in Shells, NEW d \in Decisions,
             Approve(w, d) \/ Submit(w, d) \/ Record(w, d) \/ Close(w, d)
               \/ \E commit \in BOOLEAN : Reconcile(w, d, commit)
      PROVE  UNCHANGED << files, history, orders >>
  BY <1>1 DEF Approve, Submit, Record, Reconcile, Close
<1>2. ASSUME NEW w \in Shells,
             DeclinePhrase(w) \/ LoadApprovals(w) \/ LoadTickets(w) \/ HaltSubmission(w)
               \/ Commit(w) \/ RefuseCommit(w)
      PROVE  UNCHANGED << files, history, orders >>
  BY <1>2 DEF DeclinePhrase, LoadApprovals, LoadTickets, HaltSubmission, Commit, RefuseCommit
<1>3. ASSUME NEW w \in Shells, SaveApproval(w) \/ SaveTicket(w) \/ ConsumeTicket(w)
      PROVE  UNCHANGED << executions, handoff, ledger, intents, history, orders >>
  BY <1>3 DEF SaveApproval, SaveTicket, ConsumeTicket
<1>4. ASSUME NEW w \in Shells, NEW d \in Decisions, Prepare(w, d)
      PROVE  UNCHANGED << files, grants, orders >>
  BY <1>4 DEF Prepare
<1>5. ASSUME NEW w \in Shells, TypePhrase(w) PROVE UNCHANGED << files, minted, orders >>
  BY <1>5 DEF TypePhrase
<1>6. ASSUME NEW w \in Shells, WriteIntent(w)
      PROVE  UNCHANGED << executions, handoff, ledger, history, orders >>
  BY <1>6 DEF WriteIntent
<1>7. ASSUME NEW w \in Shells, HandOff(w)
      PROVE  UNCHANGED << executions, ledger, intents, history, orders >>
  BY <1>7 DEF HandOff
<1>8. ASSUME NEW w \in Shells, SaveExecutions(w)
      PROVE  UNCHANGED << handoff, ledger, intents, history, orders >>
  BY <1>8 DEF SaveExecutions
<1>9. ASSUME NEW w \in Shells, SaveLedger(w)
      PROVE  UNCHANGED << executions, handoff, intents, history, orders >>
  BY <1>9 DEF SaveLedger
<1>10. ASSUME NEW answered \in BOOLEAN, CallAccepted(answered)
       PROVE  UNCHANGED << executions, ledger, intents, history >>
  BY <1>10 DEF CallAccepted
<1>11. CallRefused => UNCHANGED << executions, ledger, intents, history, orders >>
  BY DEF CallRefused
<1>12. ASSUME NEW d \in Decisions,
              \/ OrderListed(d) \/ OrderPartiallyFills(d) \/ OrderFills(d)
              \/ OrderCancelled(d) \/ OrderRejected(d)
       PROVE  UNCHANGED << files, history >>
  BY <1>12 DEF OrderListed, OrderPartiallyFills, OrderFills, OrderCancelled, OrderRejected,
     SetOrder
<1>13. WorldStep => UNCHANGED << files, history, orders >>
  BY DEF WorldStep, ToggleSwitches, EditPolicy, ApprovalLapses, TicketLapses, Crash
<1>14. CASE UNCHANGED vars
  BY <1>14 DEF vars
<1>15. CASE BrokerStep
  BY <1>10, <1>11, <1>12, <1>15 DEF BrokerStep
<1>16. CASE WorldStep
  BY <1>13, <1>16
<1>17. CASE \E w \in Shells : ScriptStep(w)
  BY <1>1, <1>2, <1>3, <1>4, <1>5, <1>6, <1>7, <1>8, <1>9, <1>17 DEF ScriptStep, Proceed
<1>q. QED BY <1>14, <1>15, <1>16, <1>17 DEF Next

(* With one shell, every save of executions.json moves at most one record,    *)
(* and along an edge of the state machine.                                    *)
THEOREM DiskFollows == ASSUME OneShell PROVE Spec => DiskFollowsStateMachine
<1> DEFINE Moves == \A d \in Decisions :
             executions'[d] = executions[d] \/ CanMove(executions[d], executions'[d])
<1>1. ASSUME Alone, [Next]_vars PROVE [Moves]_vars
  <2>1. CASE executions' = executions
    BY <2>1
  <2>2. CASE executions' # executions
    <3>1. PICK w \in Shells : SaveExecutions(w)
      BY <1>1, <2>2, Writers
    <3>q. QED BY <1>1, <3>1 DEF SaveExecutions, Alone, ShellAlone, OneMove
  <2>q. QED BY <2>1, <2>2
<1>q. QED BY InitAlone, StepAlone, <1>1, PTL DEF Spec, DiskFollowsStateMachine

(* With one shell, order parameters are written out only while the files on   *)
(* disk support the submission.                                               *)
THEOREM HandoffsAreCurrent == ASSUME OneShell PROVE Spec => HandoffIsCurrent
<1> DEFINE Current == (handoff' # handoff /\ ~ handoff'.called) =>
             LET d == handoff'.decision
                 t == handoff'.ticket
             IN  /\ executions[d] = "PRE_EXECUTION_VALIDATED"
                 /\ approvals[d] = minted[t].approval
                 /\ tickets[t] = "consumed"
<1>1. ASSUME Alone, [Next]_vars PROVE [Current]_vars
  <2>1. SUFFICES ASSUME handoff' # handoff, ~ handoff'.called PROVE Current
    BY DEF Current
  <2>2. \A answered \in BOOLEAN : ~ CallAccepted(answered) /\ ~ CallRefused
    BY <1>1, <2>1 DEF CallAccepted, CallRefused, Alone, Sound, Typed, TypeOK
  <2>3. PICK w \in Shells : HandOff(w)
    BY <1>1, <2>1, <2>2, Writers
  <2>q. QED BY <1>1, <2>3 DEF HandOff, Alone, ShellAlone, Cited
<1>q. QED BY InitAlone, StepAlone, <1>1, PTL DEF Spec, HandoffIsCurrent

(* With one shell, the month's ledger only grows, and only by a decision      *)
(* whose record already says that its order executed.                         *)
THEOREM LedgerFollows == ASSUME OneShell PROVE Spec => LedgerFollowsRecords
<1> DEFINE Follows ==
             /\ ledger.committed <= ledger'.committed
             /\ ledger.acted \subseteq ledger'.acted
             /\ \A d \in ledger'.acted \ ledger.acted :
                  executions[d] \in {"PARTIALLY_FILLED", "FILLED", "CANCELLED"}
<1>1. ASSUME Alone, [Next]_vars PROVE [Follows]_vars
  <2>1. CASE ledger' = ledger
    BY <1>1, <2>1 DEF Alone, Sound, Typed, TypeOK, Ledger
  <2>2. CASE ledger' # ledger
    <3>1. PICK w \in Shells : SaveLedger(w)
      BY <1>1, <2>2, Writers
    <3>2. PICK s : s = shell[w] /\ s.at = "post" /\ ledger' = s.ledger /\ ShellAlone(s)
      BY <1>1, <3>1 DEF SaveLedger, Alone
    <3>3. /\ executions[s.decision] \in Executed /\ s.ledger.committed >= ledger.committed
          /\ s.ledger.acted = ledger.acted \union {s.decision}
      BY <3>2 DEF ShellAlone
    <3>q. QED BY <3>2, <3>3 DEF Executed
  <2>q. QED BY <2>1, <2>2
<1>q. QED BY InitAlone, StepAlone, <1>1, PTL DEF Spec, LedgerFollowsRecords

(* --- the refinement ------------------------------------------------------- *)

(* What OrderLifecycle knows of the pipeline's state.                         *)
GrantedDecisions == { grants[a].decision : a \in 1 .. Len(grants) }
AnnouncedDecisions ==
  { minted[t].decision : t \in { u \in 1 .. Len(minted) : intents[u] > 0 } }
OrderSides == [d \in Decisions |-> Side(orders[d].phase)]

(* The promise is made about the same state machine.                          *)
LEMMA SameMachine ==
  /\ \A current, target : Lifecycle!CanMove(current, target) <=> CanMove(current, target)
  /\ Lifecycle!ExecutionState = ExecutionState
  BY DEF Lifecycle!CanMove, Lifecycle!VALID_TRANSITIONS, Lifecycle!ExecutionState,
     CanMove, VALID_TRANSITIONS, ExecutionState

(* A decision is granted or announced as the proofs say it.                   *)
LEMMA Known ==
  ASSUME Typed, NEW d \in Decisions
  PROVE  /\ d \in GrantedDecisions <=> \E a \in 1 .. Len(grants) : Granted(d, a)
         /\ Announced(d) => d \in AnnouncedDecisions
  BY DEF GrantedDecisions, AnnouncedDecisions, Granted, Announced, MintedFor

(* Who is granted, announced, at the broker and booked follows from what the  *)
(* pipeline writes.                                                           *)
LEMMA SameView ==
  /\ UNCHANGED grants => UNCHANGED GrantedDecisions
  /\ UNCHANGED << minted, intents >> => UNCHANGED AnnouncedDecisions
  /\ UNCHANGED orders => UNCHANGED OrderSides
  BY DEF GrantedDecisions, AnnouncedDecisions, OrderSides

(* The steps of the promise, in the pipeline's own terms.                     *)
LEMMA SeenStill ==
  ASSUME UNCHANGED << executions, GrantedDecisions, AnnouncedDecisions, OrderSides, ledger >>
  PROVE  UNCHANGED Lifecycle!lifecycle
  BY DEF Lifecycle!lifecycle, GrantedDecisions, AnnouncedDecisions, OrderSides

(* An approval that is recorded is a grant.                                   *)
LEMMA SeenGrant ==
  ASSUME NEW d \in Decisions, executions[d] \in {"PROPOSED", "APPROVED"},
         GrantedDecisions' = GrantedDecisions \union {d},
         UNCHANGED << executions, AnnouncedDecisions, OrderSides, ledger >>
  PROVE  Lifecycle!LifecycleNext
<1>1. Lifecycle!Grant(d)
  BY DEF Lifecycle!Grant, GrantedDecisions, AnnouncedDecisions, OrderSides
<1>q. QED BY <1>1 DEF Lifecycle!LifecycleNext

(* A hand-off that is written ahead is an intention.                          *)
LEMMA SeenIntend ==
  ASSUME NEW d \in Decisions, d \in GrantedDecisions,
         executions[d] = "PRE_EXECUTION_VALIDATED",
         AnnouncedDecisions' = AnnouncedDecisions \union {d},
         UNCHANGED << executions, GrantedDecisions, OrderSides, ledger >>
  PROVE  Lifecycle!LifecycleNext
<1>1. Lifecycle!Intend(d)
  BY DEF Lifecycle!Intend, GrantedDecisions, AnnouncedDecisions, OrderSides
<1>q. QED BY <1>1 DEF Lifecycle!LifecycleNext

(* An order at the broker where there was none is placed.                     *)
LEMMA SeenPlace ==
  ASSUME NEW d \in Decisions, d \in AnnouncedDecisions, OrderSides[d] = "none",
         OrderSides' = [OrderSides EXCEPT ![d] = "live"],
         UNCHANGED << executions, GrantedDecisions, AnnouncedDecisions, ledger >>
  PROVE  Lifecycle!LifecycleNext
<1>1. Lifecycle!Place(d)
  BY DEF Lifecycle!Place, GrantedDecisions, AnnouncedDecisions, OrderSides
<1>q. QED BY <1>1 DEF Lifecycle!LifecycleNext

(* An order that fills or dies has ended.                                     *)
LEMMA SeenEnd ==
  ASSUME NEW d \in Decisions, NEW phase \in {"filled", "dead"}, OrderSides[d] = "live",
         OrderSides' = [OrderSides EXCEPT ![d] = phase],
         UNCHANGED << executions, GrantedDecisions, AnnouncedDecisions, ledger >>
  PROVE  Lifecycle!LifecycleNext
<1>1. Lifecycle!End(d, phase)
  BY DEF Lifecycle!End, GrantedDecisions, AnnouncedDecisions, OrderSides
<1>q. QED BY <1>1 DEF Lifecycle!LifecycleNext

(* A fill that is committed is booked.                                        *)
LEMMA SeenBook ==
  ASSUME NEW d \in Decisions, executions[d] \in Executed, d \notin ledger.acted,
         ledger'.acted = ledger.acted \union {d},
         UNCHANGED << executions, GrantedDecisions, AnnouncedDecisions, OrderSides >>
  PROVE  Lifecycle!LifecycleNext
<1>1. Lifecycle!Book(d)
  BY DEF Lifecycle!Book, Executed, GrantedDecisions, AnnouncedDecisions, OrderSides
<1>q. QED BY <1>1 DEF Lifecycle!LifecycleNext

(* A record that moves follows its evidence.                                  *)
LEMMA SeenMove ==
  ASSUME NEW d \in Decisions, NEW state \in ExecutionState,
         CanMove(executions[d], state), executions' = [executions EXCEPT ![d] = state],
         state \in {"APPROVED", "PRE_EXECUTION_VALIDATED"} => d \in GrantedDecisions,
         state = "SUBMISSION_UNCERTAIN" => d \in AnnouncedDecisions,
         BrokerShows(state, orders[d]),
         UNCHANGED << GrantedDecisions, AnnouncedDecisions, OrderSides, ledger >>
  PROVE  Lifecycle!LifecycleNext
<1>1. Lifecycle!Evidence(d, state)
  BY DEF Lifecycle!Evidence, BrokerShows, Side, GrantedDecisions, AnnouncedDecisions
<1>2. Lifecycle!Move(d, state)
  BY <1>1, SameMachine DEF Lifecycle!Move, GrantedDecisions, AnnouncedDecisions, OrderSides
<1>q. QED BY <1>2, SameMachine DEF Lifecycle!LifecycleNext

(* Every step of the pipeline is a step of the promise, or none.              *)
LEMMA StepImplements ==
  ASSUME OneShell, Alone, [Next]_vars
  PROVE  [Lifecycle!LifecycleNext]_(Lifecycle!lifecycle)
<1> USE DEF files, history, outside
<1>a. /\ Sound /\ Typed /\ TypeOK /\ DiskAlone /\ executions \in Executions /\ ledger \in Ledger
      /\ intents \in [TicketIds -> 0 .. MaxIntents] /\ Len(grants) \in Nat /\ Len(minted) \in Nat
      /\ orders \in [Decisions -> Order]
  BY DEF Alone, Sound, Typed, TypeOK
<1>b. Typed'
  BY <1>a, StepTyped
<1>1. CASE executions' # executions
  <2>1. PICK w \in Shells : SaveExecutions(w)
    BY <1>1, Writers
  <2>2. PICK d \in Decisions, s \in Shell : s = shell[w] /\ d = s.decision
    BY <1>a, <2>1 DEF Typed, TypeOK, Working, Busy, SaveExecutions
  <2>3. /\ executions' = s.executions /\ s.executions \in Executions /\ s.at = "save"
        /\ UNCHANGED << grants, minted, intents, orders, ledger >>
        /\ ShellAlone(s) /\ SoundShell(s)
    BY <2>1, <2>2, <1>a DEF SaveExecutions, Shell, Alone, Sound
  <2>4. /\ \A e \in Decisions : e # d => executions'[e] = executions[e]
        /\ executions'[d] = executions[d] \/ CanMove(executions[d], executions'[d])
    BY <2>2, <2>3 DEF ShellAlone, OneMove
  <2>5. executions'[d] # executions[d]
    BY <1>1, <1>a, <2>3, <2>4 DEF Executions
  <2>6. PICK state \in ExecutionState : state = executions'[d]
    BY <2>3 DEF Executions
  <2>7. executions' = [executions EXCEPT ![d] = state]
    BY <1>a, <2>3, <2>4, <2>6 DEF Executions
  <2>8. state \in {"APPROVED", "PRE_EXECUTION_VALIDATED"} => d \in GrantedDecisions
    BY <1>a, <2>2, <2>3, <2>5, <2>6, Known DEF ShellAlone
  <2>9. BrokerShows(state, orders[d]) /\ (state = "SUBMISSION_UNCERTAIN" => d \in AnnouncedDecisions)
    BY <1>a, <2>2, <2>3, <2>6, Known DEF SoundShell, SoundRecords
  <2>q. QED BY <2>3, <2>4, <2>5, <2>6, <2>7, <2>8, <2>9, SameView, SeenMove
<1>2. CASE grants' # grants
  <2>1. PICK w \in Shells : TypePhrase(w)
    BY <1>2, Writers
  <2>2. PICK d \in Decisions, s \in Shell : s = shell[w] /\ d = s.decision
    BY <1>a, <2>1 DEF Typed, TypeOK, Working, Busy, TypePhrase
  <2>3. /\ grants' = Append(grants, [decision |-> d, policy |-> policy])
        /\ UNCHANGED << executions, minted, intents, orders, ledger >>
        /\ ShellAlone(s) /\ s.at = "prompt"
    BY <2>1, <2>2 DEF TypePhrase, Alone
  <2>4. GrantedDecisions' = GrantedDecisions \union {d}
    <3>1. /\ Len(grants') = Len(grants) + 1 /\ grants'[Len(grants) + 1].decision = d
          /\ \A a \in 1 .. Len(grants) : grants'[a] = grants[a]
      BY <1>a, <2>3 DEF TypeOK
    <3>q. QED BY <1>a, <3>1 DEF GrantedDecisions
  <2>5. executions[d] \in {"PROPOSED", "APPROVED"}
    BY <2>2, <2>3 DEF ShellAlone
  <2>q. QED BY <2>3, <2>4, <2>5, SameView, SeenGrant
<1>3. CASE minted' # minted
  <2>1. PICK w \in Shells, d \in Decisions : Prepare(w, d)
    BY <1>3, Writers
  <2>2. UNCHANGED << executions, grants, intents, orders, ledger >>
        /\ Len(minted') = Len(minted) + 1
        /\ \A t \in 1 .. Len(minted) : minted'[t] = minted[t]
    BY <1>a, <2>1 DEF Prepare, TypeOK
  <2>3. intents[Len(minted) + 1] = 0
    <3>1. Len(minted) + 1 \in TicketIds
      BY <1>a, <2>1, BoundsAssumption DEF Prepare, TypeOK, TicketIds
    <3>2. tickets[Len(minted) + 1] = "absent"
      BY <1>a, <3>1 DEF Sound, SoundTickets
    <3>q. QED BY <1>a, <3>1, <3>2 DEF DiskAlone
  <2>4. AnnouncedDecisions' = AnnouncedDecisions
    BY <1>a, <2>2, <2>3 DEF AnnouncedDecisions
  <2>q. QED BY <2>2, <2>4, SameView, SeenStill
<1>4. CASE intents' # intents
  <2>1. PICK w \in Shells : WriteIntent(w)
    BY <1>4, Writers
  <2>2. PICK d \in Decisions, s \in Shell : s = shell[w] /\ d = s.decision
    BY <1>a, <2>1 DEF Typed, TypeOK, Working, Busy, WriteIntent
  <2>3. PICK t \in 1 .. Len(minted) : t = s.ticket /\ minted[t].decision = d
    BY <2>1, <2>2 DEF WriteIntent, Alone, Sound, SoundShell, MintedFor
  <2>4. t \in TicketIds
    BY <1>a, BoundsAssumption DEF TypeOK, TicketIds
  <2>5. /\ intents' = [intents EXCEPT ![t] = @ + 1]
        /\ UNCHANGED << executions, grants, minted, orders, ledger >>
        /\ executions[d] = "PRE_EXECUTION_VALIDATED"
    BY <2>1, <2>2, <2>3 DEF WriteIntent, Alone, ShellAlone
  <2>6. d \in GrantedDecisions
    <3>1. /\ minted[t].approval \in 1 .. Len(grants)
          /\ grants[minted[t].approval] = [decision |-> d, policy |-> minted[t].policy]
      BY <1>a, <2>3 DEF Sound, SoundMint
    <3>2. Granted(d, minted[t].approval)
      BY <3>1 DEF Granted
    <3>q. QED BY <1>a, <3>1, <3>2, Known
  <2>7. AnnouncedDecisions' = AnnouncedDecisions \union {d}
    <3>1. \A u \in 1 .. Len(minted) : intents'[u] > 0 <=> intents[u] > 0 \/ u = t
      BY <1>a, <2>4, <2>5, BoundsAssumption DEF TypeOK, TicketIds
    <3>q. QED BY <2>3, <2>5, <3>1 DEF AnnouncedDecisions
  <2>q. QED BY <2>5, <2>6, <2>7, SameView, SeenIntend
<1>5. CASE ledger' # ledger
  <2>1. PICK w \in Shells : SaveLedger(w)
    BY <1>5, Writers
  <2>2. PICK d \in Decisions, s \in Shell : s = shell[w] /\ d = s.decision
    BY <1>a, <2>1 DEF Typed, TypeOK, Working, Busy, SaveLedger
  <2>3. /\ UNCHANGED << executions, grants, minted, intents, orders >> /\ ledger' = s.ledger
        /\ ShellAlone(s) /\ s.at = "post"
    BY <2>1, <2>2 DEF SaveLedger, Alone
  <2>4. /\ executions[d] \in Executed /\ d \notin ledger.acted
        /\ ledger'.acted = ledger.acted \union {d}
    BY <2>2, <2>3 DEF ShellAlone
  <2>q. QED BY <2>3, <2>4, SameView, SeenBook
<1>6. CASE orders' # orders
  <2>1. ASSUME NEW answered \in BOOLEAN, CallAccepted(answered)
        PROVE  Lifecycle!LifecycleNext
    <3>1. PICK d \in Decisions : d = handoff.decision /\ d # NoDecision
      BY <1>a, <2>1, NoDecisionAssumption DEF CallAccepted, Typed, Working
    <3>2. UNCHANGED << executions, grants, minted, intents, ledger >>
          /\ orders[d].phase = "none" /\ orders' = [orders EXCEPT ![d].phase = "open"]
      BY <1>6, <2>1, <3>1 DEF CallAccepted
    <3>3. OrderSides[d] = "none" /\ OrderSides' = [OrderSides EXCEPT ![d] = "live"]
      BY <1>a, <3>2 DEF OrderSides, Side, Order
    <3>4. d \in AnnouncedDecisions
      BY <1>a, <3>1, Known DEF Sound, SoundBroker
    <3>q. QED BY <3>2, <3>3, <3>4, SameView, SeenPlace
  <2>2. ASSUME NEW d \in Decisions, NEW order, SetOrder(d, order),
               Side(order.phase) = Side(orders[d].phase)
        PROVE  UNCHANGED Lifecycle!lifecycle
    <3>1. UNCHANGED << executions, grants, minted, intents, ledger >>
          /\ orders' = [orders EXCEPT ![d] = order]
      BY <2>2 DEF SetOrder
    <3>2. OrderSides' = OrderSides
      BY <1>a, <2>2, <3>1 DEF OrderSides
    <3>q. QED BY <3>1, <3>2, SameView, SeenStill
  <2>3. ASSUME NEW d \in Decisions, NEW order, SetOrder(d, order),
               orders[d].phase \in {"open", "partial"},
               order.phase \in {"filled", "cancelled", "rejected"}
        PROVE  Lifecycle!LifecycleNext
    <3>1. UNCHANGED << executions, grants, minted, intents, ledger >>
          /\ orders' = [orders EXCEPT ![d] = order]
      BY <2>3 DEF SetOrder
    <3>2. PICK phase \in {"filled", "dead"} : phase = Side(order.phase)
      BY <2>3 DEF Side
    <3>3. OrderSides[d] = "live" /\ OrderSides' = [OrderSides EXCEPT ![d] = phase]
      <4>1. Side(orders[d].phase) = "live"
        BY <2>3 DEF Side
      <4>q. QED BY <1>a, <3>1, <3>2, <4>1 DEF OrderSides
    <3>q. QED BY <3>1, <3>3, SameView, SeenEnd
  <2>4. ASSUME NEW d \in Decisions,
               \/ OrderListed(d) \/ OrderPartiallyFills(d) \/ OrderFills(d)
               \/ OrderCancelled(d) \/ OrderRejected(d)
        PROVE  [Lifecycle!LifecycleNext]_(Lifecycle!lifecycle)
    <3>1. orders[d] \in Order
      BY <1>a
    <3>2. /\ [orders[d] EXCEPT !.listed = TRUE].phase = orders[d].phase
          /\ \A f : /\ [orders[d] EXCEPT !.phase = "partial", !.filled = f].phase = "partial"
                    /\ [orders[d] EXCEPT !.phase = "filled", !.filled = f].phase = "filled"
          /\ [orders[d] EXCEPT !.phase = "cancelled"].phase = "cancelled"
          /\ [orders[d] EXCEPT !.phase = "rejected"].phase = "rejected"
      BY ONLY <3>1 DEF Order
    <3>3. CASE OrderListed(d)
      BY <2>2, <3>2, <3>3 DEF OrderListed
    <3>4. CASE OrderPartiallyFills(d)
      <4>1. PICK order : SetOrder(d, order) /\ order.phase = "partial"
                           /\ orders[d].phase = "open"
        BY <3>2, <3>4 DEF OrderPartiallyFills
      <4>2. Side("partial") = Side("open")
        BY DEF Side
      <4>q. QED BY <2>2, <4>1, <4>2
    <3>5. CASE OrderFills(d)
      BY <2>3, <3>2, <3>5 DEF OrderFills
    <3>6. CASE OrderCancelled(d)
      BY <2>3, <3>2, <3>6 DEF OrderCancelled
    <3>7. CASE OrderRejected(d)
      BY <2>3, <3>2, <3>7 DEF OrderRejected
    <3>q. QED BY <2>4, <3>3, <3>4, <3>5, <3>6, <3>7
  <2>q. QED BY <1>6, <2>1, <2>4, Writers
<1>7. CASE UNCHANGED << executions, grants, minted, intents, orders, ledger >>
  BY <1>7, SameView, SeenStill
<1>q. QED BY <1>1, <1>2, <1>3, <1>4, <1>5, <1>6, <1>7

(* The empty state directory is where the promise starts.                     *)
LEMMA InitImplements == Init => Lifecycle!LifecycleInit
<1> SUFFICES ASSUME Init PROVE Lifecycle!LifecycleInit
  OBVIOUS
<1>1. /\ executions = [d \in Decisions |-> "PROPOSED"] /\ grants = << >> /\ minted = << >>
      /\ ledger.acted = {} /\ \A d \in Decisions : orders[d].phase = "none"
  BY DEF Init, Blank
<1>2. GrantedDecisions = {} /\ AnnouncedDecisions = {}
  BY <1>1 DEF GrantedDecisions, AnnouncedDecisions
<1>3. OrderSides = [d \in Decisions |-> "none"]
  BY <1>1 DEF OrderSides, Side
<1>q. QED
  BY <1>1, <1>2, <1>3
     DEF Lifecycle!LifecycleInit, GrantedDecisions, AnnouncedDecisions, OrderSides

(* With one shell, files, tickets, copies in memory, crashes and a broker out *)
(* of reach add up to the promise: granted, announced, placed, settled on     *)
(* evidence and booked, in that order and once.                               *)
THEOREM PipelineImplements == ASSUME OneShell PROVE Spec => ImplementsLifecycle
BY InitAlone, StepAlone, InitImplements, StepImplements, PTL
   DEF Spec, ImplementsLifecycle, Lifecycle!LifecycleSpec
================================================================================
