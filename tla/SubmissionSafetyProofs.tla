------------------------- MODULE SubmissionSafetyProofs -------------------------
(* Every order traces back to a human approval and a write-ahead intent, and  *)
(* no record claims more than its evidence, for any number of shells, any     *)
(* interleaving of their steps and any number of crashes.                     *)
EXTENDS SubmissionPipelineProofs

(* --- the inductive invariant --------------------------------------------- *)

(* Approval a is one a human gave decision d.                                 *)
Granted(d, a) == a \in 1 .. Len(grants) /\ grants[a].decision = d

(* Ticket t is one minted for d, and its submission was announced.            *)
MintedFor(d, t) == t \in 1 .. Len(minted) /\ minted[t].decision = d
Announced(d) == \E t \in TicketIds : MintedFor(d, t) /\ intents[t] > 0

(* Every ticket froze the approval it was minted under.                       *)
SoundMint ==
  \A t \in 1 .. Len(minted) :
    /\ minted[t].policy.armed
    /\ minted[t].approval \in 1 .. Len(grants)
    /\ grants[minted[t].approval] = [decision |-> minted[t].decision, policy |-> minted[t].policy]

(* What a copy of each file, on disk or in a script's memory, may contain.    *)
SoundApprovals(copy) == \A d \in Decisions : copy[d] # 0 => Granted(d, copy[d])
SoundTickets(copy) == \A t \in TicketIds : copy[t] # "absent" => t <= Len(minted)
SoundRecords(copy) ==
  \A d \in Decisions :
    /\ BrokerShows(copy[d], orders[d])
    /\ copy[d] = "SUBMISSION_UNCERTAIN" => Announced(d)

(* What a script may hold.                                                    *)
SoundShell(s) ==
  /\ s.at = "grant" \/ s.next = "grant" => Granted(s.decision, s.approval)
  /\ s.at \in {"mint", "submit", "consumed", "intended"} => MintedFor(s.decision, s.ticket)
  /\ s.at = "intended" => Announced(s.decision)
  /\ SoundApprovals(s.approvals)
  /\ SoundTickets(s.tickets)
  /\ SoundRecords(s.executions)

SoundBroker ==
  /\ handoff.decision # NoDecision => Announced(handoff.decision)
  /\ \A d \in Decisions : orders[d].phase # "none" => Announced(d)
  /\ \A d \in responses : orders[d].phase # "none"

Sound ==
  /\ Typed
  /\ SoundMint
  /\ SoundApprovals(approvals)
  /\ SoundTickets(tickets)
  /\ SoundRecords(executions)
  /\ SoundBroker
  /\ \A w \in Shells : SoundShell(shell[w])

(* --- what only grows ------------------------------------------------------ *)

(* Approvals and tickets are added and never rewritten, intents never unsaid, *)
(* an order never disappears and its end is final.                            *)
Grows ==
  /\ Len(grants) <= Len(grants') /\ \A a \in 1 .. Len(grants) : grants'[a] = grants[a]
  /\ Len(minted) <= Len(minted') /\ \A t \in 1 .. Len(minted) : minted'[t] = minted[t]
  /\ \A t \in TicketIds : intents[t] > 0 => intents'[t] > 0
  /\ \A d \in Decisions :
       /\ orders[d].phase # "none" => orders'[d].phase # "none"
       /\ orders[d].phase \in {"filled", "cancelled", "rejected"} =>
            orders'[d].phase = orders[d].phase

(* The histories are sequences of approvals and of tickets.                   *)
LEMMA LengthsTyped ==
  ASSUME Typed
  PROVE  /\ Len(grants) \in Nat /\ Len(minted) \in Nat
         /\ \A t \in 1 .. Len(minted) : minted[t] \in Ticket
         /\ \A a \in 1 .. Len(grants) : grants[a] \in Grant
  BY DEF Typed, TypeOK

(* What was sound of a copy stays sound as the histories grow.                *)
LEMMA GrowsKeeps ==
  ASSUME Typed, Typed', Grows
  PROVE  /\ \A d, a : Granted(d, a) => Granted(d, a)'
         /\ \A d, t : MintedFor(d, t) => MintedFor(d, t)'
         /\ \A d : Announced(d) => Announced(d)'
         /\ \A copy \in Approvals : SoundApprovals(copy) => SoundApprovals(copy)'
         /\ \A copy \in Tickets : SoundTickets(copy) => SoundTickets(copy)'
         /\ \A copy \in Executions : SoundRecords(copy) => SoundRecords(copy)'
         /\ \A s \in Shell : SoundShell(s) => SoundShell(s)'
<1>a. Len(grants) \in Nat /\ Len(grants') \in Nat /\ Len(minted) \in Nat /\ Len(minted') \in Nat
  BY DEF Typed, TypeOK
<1>1. \A d, a : Granted(d, a) => Granted(d, a)'
  BY <1>a DEF Granted, Grows
<1>2. \A d, t : MintedFor(d, t) => MintedFor(d, t)'
  BY <1>a DEF MintedFor, Grows
<1>3. \A d : Announced(d) => Announced(d)'
  BY <1>2 DEF Announced, Grows
<1>4. \A copy \in Tickets : SoundTickets(copy) => SoundTickets(copy)'
  BY <1>a DEF SoundTickets, Grows, TicketIds
<1>5. \A copy \in Executions : SoundRecords(copy) => SoundRecords(copy)'
  BY <1>3 DEF SoundRecords, BrokerShows, Grows
<1>6. \A copy \in Approvals : SoundApprovals(copy) => SoundApprovals(copy)'
  BY <1>1 DEF SoundApprovals
<1>7. \A s \in Shell : SoundShell(s) => SoundShell(s)'
  <2>1. \A s \in Shell :
          s.approvals \in Approvals /\ s.tickets \in Tickets /\ s.executions \in Executions
    BY DEF Shell
  <2>q. QED BY <1>1, <1>2, <1>3, <1>4, <1>5, <1>6, <2>1 DEF SoundShell
<1>q. QED BY <1>1, <1>2, <1>3, <1>4, <1>5, <1>6, <1>7

(* Every step only adds to the histories.                                     *)
LEMMA StepGrows ==
  ASSUME Typed, [Next]_vars
  PROVE  Grows
<1> USE DEF Typed, TypeOK
<1>a. Len(grants) \in Nat /\ Len(minted) \in Nat
  OBVIOUS
<1>1. CASE UNCHANGED << history, intents, orders >>
  BY <1>a, <1>1 DEF Grows, history
<1>2. ASSUME NEW w \in Shells, TypePhrase(w) PROVE Grows
  <2>1. grants' = Append(grants, [decision |-> shell[w].decision, policy |-> policy])
        /\ UNCHANGED << minted, intents, orders >>
    BY <1>2 DEF TypePhrase, files, outside
  <2>q. QED BY <1>a, <2>1 DEF Grows
<1>3. ASSUME NEW w \in Shells, NEW d \in Decisions, Prepare(w, d) PROVE Grows
  <2>1. minted' = Append(minted, [decision |-> d, approval |-> approvals[d], policy |-> policy])
        /\ UNCHANGED << grants, intents, orders >>
    BY <1>3 DEF Prepare, files, outside
  <2>q. QED BY <1>a, <2>1 DEF Grows
<1>4. ASSUME NEW w \in Shells, WriteIntent(w) PROVE Grows
  <2>1. UNCHANGED << grants, minted, orders >>
    BY <1>4 DEF WriteIntent, history, outside
  <2>2. \A t \in TicketIds : intents[t] > 0 => intents'[t] > 0
    BY <1>4 DEF WriteIntent
  <2>q. QED BY <1>a, <2>1, <2>2 DEF Grows
<1>5. ASSUME NEW answered \in BOOLEAN, CallAccepted(answered) PROVE Grows
  <2>1. UNCHANGED << grants, minted, intents >>
    BY <1>5 DEF CallAccepted, history
  <2>2. handoff.decision \in Decisions
    BY <1>5 DEF CallAccepted, Working
  <2>3. \A d \in Decisions :
          /\ orders[d].phase # "none" => orders'[d].phase # "none"
          /\ orders[d].phase \in {"filled", "cancelled", "rejected"} =>
               orders'[d].phase = orders[d].phase
    BY <1>5, <2>2 DEF CallAccepted, Order
  <2>q. QED BY <1>a, <2>1, <2>3 DEF Grows
<1>6. ASSUME NEW d \in Decisions, NEW order \in Order, SetOrder(d, order),
             order.phase # "none",
             order.phase # orders[d].phase => orders[d].phase \in {"open", "partial"}
      PROVE  Grows
  <2>1. UNCHANGED << grants, minted, intents >>
    BY <1>6 DEF SetOrder, files, history
  <2>2. \A e \in Decisions :
          /\ orders[e].phase # "none" => orders'[e].phase # "none"
          /\ orders[e].phase \in {"filled", "cancelled", "rejected"} =>
               orders'[e].phase = orders[e].phase
    BY <1>6 DEF SetOrder
  <2>q. QED BY <1>a, <2>1, <2>2 DEF Grows
<1>7. ASSUME NEW d \in Decisions,
             \/ OrderListed(d) \/ OrderPartiallyFills(d) \/ OrderFills(d)
             \/ OrderCancelled(d) \/ OrderRejected(d)
      PROVE  Grows
  <2>1. orders[d] \in Order /\ Amount[d] \in Nat
    BY AmountAssumption
  <2>2. ASSUME NEW f \in Nat
        PROVE  /\ [orders[d] EXCEPT !.listed = TRUE] \in Order
               /\ [orders[d] EXCEPT !.phase = "partial", !.filled = f] \in Order
               /\ [orders[d] EXCEPT !.phase = "filled", !.filled = f] \in Order
               /\ [orders[d] EXCEPT !.phase = "cancelled"] \in Order
               /\ [orders[d] EXCEPT !.phase = "rejected"] \in Order
               /\ [orders[d] EXCEPT !.listed = TRUE].phase = orders[d].phase
               /\ [orders[d] EXCEPT !.phase = "partial", !.filled = f].phase = "partial"
               /\ [orders[d] EXCEPT !.phase = "filled", !.filled = f].phase = "filled"
               /\ [orders[d] EXCEPT !.phase = "cancelled"].phase = "cancelled"
               /\ [orders[d] EXCEPT !.phase = "rejected"].phase = "rejected"
    BY ONLY <2>1, f \in Nat DEF Order
  <2>3. CASE OrderListed(d)
    BY <1>6, <2>1, <2>2, <2>3 DEF OrderListed
  <2>4. CASE OrderPartiallyFills(d)
    <3>1. PICK f \in 1 .. (Amount[d] - 1) :
            SetOrder(d, [orders[d] EXCEPT !.phase = "partial", !.filled = f])
      BY <2>4 DEF OrderPartiallyFills
    <3>2. f \in Nat
      BY <2>1
    <3>q. QED BY <1>6, <2>1, <2>2, <2>4, <3>1, <3>2 DEF OrderPartiallyFills
  <2>5. CASE OrderFills(d)
    BY <1>6, <2>1, <2>2, <2>5 DEF OrderFills
  <2>6. CASE OrderCancelled(d)
    BY <1>6, <2>1, <2>2, <2>6 DEF OrderCancelled
  <2>7. CASE OrderRejected(d)
    BY <1>6, <2>1, <2>2, <2>7 DEF OrderRejected
  <2>q. QED BY <1>7, <2>3, <2>4, <2>5, <2>6, <2>7
<1>8. CASE UNCHANGED vars
  BY <1>1, <1>8 DEF vars, history
<1>9. ASSUME NEW w \in Shells, ScriptStep(w) PROVE Grows
  BY <1>1, <1>2, <1>3, <1>4, <1>9
     DEF ScriptStep, Proceed, Approve, Submit, Record, Reconcile, Close, DeclinePhrase,
         LoadApprovals, SaveApproval, LoadTickets, SaveTicket, HaltSubmission, ConsumeTicket,
         HandOff, SaveExecutions, Commit, RefuseCommit, SaveLedger, files, outside
<1>10. CASE BrokerStep
  BY <1>1, <1>5, <1>7, <1>10 DEF BrokerStep, CallRefused, outside
<1>11. CASE WorldStep
  BY <1>1, <1>11
     DEF WorldStep, ToggleSwitches, EditPolicy, ApprovalLapses, TicketLapses, Crash, files
<1>q. QED BY <1>8, <1>9, <1>10, <1>11 DEF Next

(* --- preservation ---------------------------------------------------------- *)

(* An idle shell holds nothing unsound.                                       *)
LEMMA BlankSound ==
  /\ Blank \in Shell /\ Blank.at = "idle" /\ Blank.next = "idle"
  /\ SoundApprovals(Blank.approvals) /\ SoundTickets(Blank.tickets)
  /\ SoundRecords(Blank.executions) /\ SoundShell(Blank)
<1>1. /\ Blank \in Shell /\ Blank.at = "idle" /\ Blank.next = "idle"
      /\ \A d \in Decisions : Blank.approvals[d] = 0
      /\ \A t \in TicketIds : Blank.tickets[t] = "absent"
      /\ \A d \in Decisions : Blank.executions[d] = "PROPOSED"
  BY BlankTyped DEF Blank
<1>2. /\ SoundApprovals(Blank.approvals) /\ SoundTickets(Blank.tickets)
      /\ SoundRecords(Blank.executions)
  BY <1>1 DEF SoundApprovals, SoundTickets, SoundRecords, BrokerShows
<1>q. QED BY <1>1, <1>2 DEF SoundShell

(* A part whose own variables a step leaves alone stays sound.                *)
LEMMA KeepSound ==
  ASSUME Sound, Typed', Grows
  PROVE  /\ minted' = minted => SoundMint'
         /\ approvals' = approvals => SoundApprovals(approvals)'
         /\ tickets' = tickets => SoundTickets(tickets)'
         /\ executions' = executions => SoundRecords(executions)'
         /\ UNCHANGED << handoff, orders, responses >> => SoundBroker'
         /\ shell' = shell => \A v \in Shells : SoundShell(shell[v])'
         /\ \A w \in Shells : \A s \in Shell :
              Hold(w, s) /\ SoundShell(s)' => \A v \in Shells : SoundShell(shell[v])'
<1>a. Typed
  BY DEF Sound
<1>b. /\ approvals \in Approvals /\ tickets \in Tickets /\ executions \in Executions
      /\ \A v \in Shells : shell[v] \in Shell
  BY <1>a DEF Typed, TypeOK
<1>1. minted' = minted => SoundMint'
  BY <1>a DEF Sound, SoundMint, Grows, Typed, TypeOK
<1>2. approvals' = approvals => SoundApprovals(approvals)'
  BY <1>a, <1>b, GrowsKeeps DEF Sound
<1>3. tickets' = tickets => SoundTickets(tickets)'
  BY <1>a, <1>b, GrowsKeeps DEF Sound
<1>4. executions' = executions => SoundRecords(executions)'
  BY <1>a, <1>b, GrowsKeeps DEF Sound
<1>5. UNCHANGED << handoff, orders, responses >> => SoundBroker'
  BY <1>a, GrowsKeeps DEF Sound, SoundBroker
<1>6. \A v \in Shells : SoundShell(shell[v]) /\ shell[v] \in Shell
  BY <1>b DEF Sound
<1>7. shell' = shell => \A v \in Shells : SoundShell(shell[v])'
  BY <1>a, <1>6, GrowsKeeps
<1>8. ASSUME NEW w \in Shells, NEW s \in Shell, Hold(w, s), SoundShell(s)', NEW v \in Shells
      PROVE  SoundShell(shell[v])'
  <2>1. CASE v = w
    <3>1. shell'[v] = s
      BY <1>a, <1>8, <2>1 DEF Hold, Typed, TypeOK
    <3>q. QED BY <1>8, <3>1
  <2>2. CASE v # w
    <3>1. shell'[v] = shell[v]
      BY <1>a, <1>8, <2>2 DEF Hold, Typed, TypeOK
    <3>q. QED BY <1>a, <1>6, <3>1, GrowsKeeps
  <2>q. QED BY <2>1, <2>2
<1>q. QED BY <1>1, <1>2, <1>3, <1>4, <1>5, <1>7, <1>8

(* A step that changes nothing but what one script holds.                     *)
LEMMA QuietSound ==
  ASSUME Sound, Typed', Grows, NEW w \in Shells, NEW s \in Shell, SoundShell(s), Hold(w, s),
         UNCHANGED << minted, approvals, tickets, executions, handoff, orders, responses >>
  PROVE  Sound'
<1>1. SoundShell(s)'
  BY GrowsKeeps DEF Sound
<1>q. QED BY <1>1, KeepSound DEF Sound

(* The scripts that start: each copies sound files, and the records some move *)
(* in memory are moved on the evidence their guards ask for.                  *)
LEMMA StartSound ==
  ASSUME Sound, Typed', Grows, NEW w \in Shells, NEW d \in Decisions,
         \/ Approve(w, d)
         \/ Prepare(w, d)
         \/ Submit(w, d)
         \/ Record(w, d)
         \/ \E commit \in BOOLEAN : Reconcile(w, d, commit)
         \/ Close(w, d)
  PROVE  Sound'
<1> USE DEF files, history, outside
<1>a. /\ Typed /\ executions \in Executions /\ tickets \in Tickets /\ minted \in Seq(Ticket)
      /\ SoundRecords(executions) /\ SoundTickets(tickets)
      /\ SoundMint /\ SoundApprovals(approvals) /\ SoundBroker
  BY DEF Sound, Typed, TypeOK
<1>1. CASE Approve(w, d)
  <2> DEFINE s == [Blank EXCEPT !.at = "prompt", !.decision = d, !.executions = executions]
  <2>1. /\ s \in Shell /\ s.at = "prompt" /\ s.next = "idle"
        /\ s.approvals = Blank.approvals /\ s.tickets = Blank.tickets /\ s.executions = executions
    BY BlankSound, <1>a DEF Shell
  <2>2. SoundShell(s)
    BY <1>a, <2>1, BlankSound DEF SoundShell
  <2>q. QED BY <1>1, <2>1, <2>2, QuietSound DEF Approve
<1>2. CASE Prepare(w, d)
  <2> DEFINE m == [decision |-> d, approval |-> approvals[d], policy |-> policy]
  <2>1. /\ approvals[d] \in 1 .. Len(grants) /\ grants[approvals[d]].decision = d
        /\ grants[approvals[d]].policy = policy /\ policy.armed
    BY <1>2, <1>a
       DEF Prepare, PreflightOk, Authorized, ApprovalVerified, SoundApprovals, Granted
  <2>2. grants[approvals[d]] = [decision |-> d, policy |-> policy]
    BY <1>a, <2>1, LengthsTyped DEF Grant
  <2>3. Len(minted') = Len(minted) + 1 /\ minted'[Len(minted) + 1] = m /\ Len(minted) \in Nat
        /\ \A t \in 1 .. Len(minted) : minted'[t] = minted[t]
    BY <1>2, <1>a DEF Prepare
  <2>4. SoundMint'
    BY <1>2, <1>a, <2>1, <2>2, <2>3 DEF Prepare, SoundMint
  <2>5. Len(minted) + 1 \in TicketIds
    BY <1>2, <2>3, BoundsAssumption DEF Prepare, TicketIds
  <2>6. PICK s \in Shell :
          /\ s = [Blank EXCEPT !.at = "mint", !.decision = d, !.ticket = Len(minted) + 1,
                               !.executions = executions]
          /\ s.at = "mint" /\ s.next = "idle" /\ s.decision = d /\ s.ticket = Len(minted) + 1
          /\ s.approvals = Blank.approvals /\ s.tickets = Blank.tickets
          /\ s.executions = executions
    <3> DEFINE mint == [Blank EXCEPT !.at = "mint", !.decision = d, !.ticket = Len(minted) + 1,
                                     !.executions = executions]
    <3>1. /\ mint \in Shell /\ mint.at = "mint" /\ mint.next = "idle" /\ mint.decision = d
          /\ mint.ticket = Len(minted) + 1
          /\ mint.approvals = Blank.approvals /\ mint.tickets = Blank.tickets
          /\ mint.executions = executions
      BY ONLY BlankSound, <1>a, <2>5, d \in Decisions DEF Shell
    <3> HIDE DEF mint
    <3>2. mint = [Blank EXCEPT !.at = "mint", !.decision = d, !.ticket = Len(minted) + 1,
                               !.executions = executions]
      BY DEF mint
    <3>q. QED BY ONLY <3>1, <3>2
  <2>7. SoundApprovals(s.approvals)' /\ SoundTickets(s.tickets)' /\ SoundRecords(s.executions)'
    <3>1. s.approvals \in Approvals /\ s.tickets \in Tickets /\ s.executions \in Executions
      BY <2>6 DEF Shell
    <3>q. QED BY <1>a, <2>6, <3>1, BlankSound, GrowsKeeps
  <2>8. MintedFor(s.decision, s.ticket)'
    BY <2>3, <2>6 DEF MintedFor
  <2>9. SoundShell(s)'
    BY <2>6, <2>7, <2>8 DEF SoundShell
  <2>q. QED BY <1>2, <2>4, <2>6, <2>9, KeepSound DEF Prepare, Sound
<1>3. CASE Submit(w, d)
  <2>1. PICK t \in TicketsOf(d) :
          Hold(w, [Blank EXCEPT !.at = "submit", !.decision = d, !.ticket = t,
                                !.executions = executions, !.tickets = tickets])
    BY <1>3 DEF Submit
  <2> DEFINE s == [Blank EXCEPT !.at = "submit", !.decision = d, !.ticket = t,
                                !.executions = executions, !.tickets = tickets]
  <2>2. t \in TicketIds /\ t <= Len(minted) /\ minted[t].decision = d
    BY <1>a, <2>1 DEF TicketsOf, SoundTickets
  <2>3. MintedFor(d, t)
    BY <1>a, <2>2, LengthsTyped DEF MintedFor, TicketIds
  <2>4. /\ s \in Shell /\ s.at = "submit" /\ s.next = "idle" /\ s.decision = d /\ s.ticket = t
        /\ s.approvals = Blank.approvals /\ s.tickets = tickets /\ s.executions = executions
    BY BlankSound, <1>a, <2>2 DEF Shell
  <2>5. SoundShell(s)
    BY <1>a, <2>3, <2>4, BlankSound DEF SoundShell
  <2>q. QED BY <1>3, <2>1, <2>4, <2>5, QuietSound DEF Submit
<1>4. ASSUME NEW target \in ExecutionState, NEW next \in {"idle", "commit"}, NEW fill \in Nat,
             StartSave(w, d, target, next, fill), UNCHANGED << files, history, outside >>,
             BrokerShows(target, orders[d]), target # "SUBMISSION_UNCERTAIN"
      PROVE  Sound'
  <2> DEFINE copy == [executions EXCEPT ![d] = target]
             s == [Blank EXCEPT !.at = "save", !.next = next, !.decision = d, !.fill = fill,
                                !.executions = copy]
  <2>1. copy \in Executions /\ SoundRecords(copy)
    BY <1>a, <1>4 DEF Executions, SoundRecords
  <2>2. /\ s \in Shell /\ s.at = "save" /\ s.next # "grant"
        /\ s.approvals = Blank.approvals /\ s.tickets = Blank.tickets /\ s.executions = copy
    <3> HIDE DEF copy
    <3>q. QED BY BlankSound, <2>1 DEF Shell
  <2>3. SoundShell(s)
    BY <2>1, <2>2, BlankSound DEF SoundShell
  <2>q. QED BY <1>4, <2>2, <2>3, QuietSound DEF StartSave
<1>5. CASE Record(w, d)
  BY <1>4, <1>5, <1>a DEF Record, ExecutionState, BrokerShows, SoundBroker
<1>6. ASSUME NEW commit \in BOOLEAN, Reconcile(w, d, commit) PROVE Sound'
  <2>1. orders[d] \in Order /\ orders[d].filled \in Nat
    BY <1>a DEF Typed, TypeOK, Order
  <2>2. orders[d].phase \notin {"none", "open"}
    BY <1>6 DEF Reconcile
  <2>3. /\ Outcome(orders[d]) \in ExecutionState \ {"SUBMISSION_UNCERTAIN"}
        /\ BrokerShows(Outcome(orders[d]), orders[d])
    BY <2>1, <2>2 DEF Outcome, Order, BrokerShows, ExecutionState
  <2>q. QED BY <1>4, <1>6, <2>1, <2>3 DEF Reconcile
<1>7. CASE Close(w, d)
  BY <1>4, <1>7 DEF Close, ExecutionState, BrokerShows
<1>q. QED BY <1>1, <1>2, <1>3, <1>5, <1>6, <1>7

(* The steps of a running script: the files it writes are the sound copies it *)
(* holds, the ticket and the approval it works with.                          *)
LEMMA RunSound ==
  ASSUME Sound, Typed', Grows, NEW w \in Shells,
         TypePhrase(w) \/ DeclinePhrase(w) \/ Proceed(w)
  PROVE  Sound'
<1> USE DEF files, history, outside
<1>a. /\ Typed /\ shell[w] \in Shell /\ SoundShell(shell[w])
      /\ shell[w].executions \in Executions /\ shell[w].tickets \in Tickets
      /\ shell[w].approvals \in Approvals /\ shell[w].approval \in ApprovalIds \union {0}
      /\ approvals \in Approvals /\ tickets \in Tickets /\ executions \in Executions
      /\ SoundRecords(executions) /\ SoundTickets(tickets) /\ SoundApprovals(approvals)
      /\ SoundBroker
  BY DEF Sound, Typed, TypeOK, Shell
<1>b. PICK d \in Decisions : d = shell[w].decision
  BY <1>a DEF Typed, Working, Busy, TypePhrase, DeclinePhrase, Proceed, LoadApprovals,
     SaveApproval, LoadTickets, SaveTicket, HaltSubmission, ConsumeTicket, WriteIntent, HandOff,
     SaveExecutions, Commit, RefuseCommit, SaveLedger
<1> USE <1>b
(* A copy with d moved to a state that needs no evidence.                     *)
<1>c. ASSUME NEW state \in {"APPROVED", "PRE_EXECUTION_VALIDATED"}
      PROVE  [shell[w].executions EXCEPT ![d] = state] \in Executions
             /\ SoundRecords([shell[w].executions EXCEPT ![d] = state])
  BY <1>a DEF SoundShell, SoundRecords, Executions, ExecutionState, BrokerShows
<1>1. CASE TypePhrase(w)
  <2>1. Len(grants') = Len(grants) + 1 /\ grants'[Len(grants) + 1].decision = d
        /\ Len(grants) \in Nat /\ Len(grants) + 1 \in ApprovalIds
    BY <1>1, <1>a, BoundsAssumption DEF TypePhrase, Typed, TypeOK, ApprovalIds
  <2>2. PICK copy \in Executions :
          copy = [shell[w].executions EXCEPT ![d] = "APPROVED"] /\ SoundRecords(copy)
    BY <1>c
  <2>3. PICK s \in Shell :
          /\ s = [shell[w] EXCEPT !.at = "save", !.next = "grant", !.approval = Len(grants) + 1,
                                  !.executions = copy]
          /\ s.at = "save" /\ s.approval = Len(grants) + 1 /\ s.decision = d
          /\ s.approvals = shell[w].approvals /\ s.tickets = shell[w].tickets
          /\ s.executions = copy
    <3> DEFINE save == [shell[w] EXCEPT !.at = "save", !.next = "grant",
                                        !.approval = Len(grants) + 1, !.executions = copy]
    <3>1. /\ save \in Shell /\ save.at = "save" /\ save.approval = Len(grants) + 1
          /\ save.decision = d /\ save.approvals = shell[w].approvals
          /\ save.tickets = shell[w].tickets /\ save.executions = copy
      BY ONLY <1>a, <1>b, <2>1, copy \in Executions DEF Shell
    <3> HIDE DEF save
    <3>2. save = [shell[w] EXCEPT !.at = "save", !.next = "grant",
                                  !.approval = Len(grants) + 1, !.executions = copy]
      BY DEF save
    <3>q. QED BY ONLY <3>1, <3>2
  <2>4. Hold(w, s)
    BY <1>1, <1>a, <2>2, <2>3 DEF TypePhrase, Shell
  <2>5. Granted(s.decision, s.approval)'
    BY <2>1, <2>3 DEF Granted
  <2>6. SoundApprovals(s.approvals)' /\ SoundTickets(s.tickets)' /\ SoundRecords(s.executions)'
    <3>1. /\ s.approvals \in Approvals /\ SoundApprovals(s.approvals)
          /\ s.tickets \in Tickets /\ SoundTickets(s.tickets) /\ SoundRecords(s.executions)
      BY <1>a, <2>2, <2>3 DEF SoundShell
    <3>q. QED BY <1>a, <2>3, <3>1, GrowsKeeps
  <2>7. SoundShell(s)'
    BY <2>3, <2>5, <2>6 DEF SoundShell
  <2>q. QED BY <1>1, <2>4, <2>7, KeepSound DEF TypePhrase, Sound
<1>2. CASE DeclinePhrase(w)
  BY <1>2, BlankSound, QuietSound DEF DeclinePhrase
<1>3. CASE SaveApproval(w)
  <2>1. SoundApprovals(approvals')
    BY <1>3, <1>a DEF SaveApproval, SoundShell
  <2>2. SoundApprovals(approvals)'
    <3>1. grants' = grants
      BY <1>3 DEF SaveApproval
    <3>q. QED BY <2>1, <3>1 DEF SoundApprovals, Granted
  <2>3. SoundShell(Blank)'
    BY <1>a, BlankSound, GrowsKeeps
  <2>q. QED BY <1>3, <2>2, <2>3, BlankSound, KeepSound DEF SaveApproval, Sound
<1>4. CASE SaveTicket(w)
  <2>2. SoundTickets(tickets')
    BY <1>4, <1>a DEF SaveTicket, SoundShell
  <2>3. SoundTickets(tickets)'
    BY <1>4, <2>2 DEF SaveTicket, SoundTickets
  <2>4. PICK copy \in Executions :
          copy = [shell[w].executions EXCEPT ![d] = "PRE_EXECUTION_VALIDATED"] /\ SoundRecords(copy)
    BY <1>c
  <2>5. PICK s \in Shell :
          /\ s = [shell[w] EXCEPT !.at = "save", !.executions = copy]
          /\ s.at = "save" /\ s.next = shell[w].next /\ s.approval = shell[w].approval
          /\ s.decision = d /\ s.approvals = shell[w].approvals
          /\ s.tickets = shell[w].tickets /\ s.executions = copy
    <3> DEFINE save == [shell[w] EXCEPT !.at = "save", !.executions = copy]
    <3>1. /\ save \in Shell /\ save.at = "save" /\ save.next = shell[w].next
          /\ save.approval = shell[w].approval /\ save.decision = d
          /\ save.approvals = shell[w].approvals /\ save.tickets = shell[w].tickets /\ save.executions = copy
      BY ONLY <1>a, <1>b, copy \in Executions DEF Shell
    <3> HIDE DEF save
    <3>2. save = [shell[w] EXCEPT !.at = "save", !.executions = copy]
      BY DEF save
    <3>q. QED BY ONLY <3>1, <3>2
  <2>6. SoundShell(s)
    BY <1>a, <2>4, <2>5 DEF SoundShell
  <2>7. Hold(w, s) \/ Hold(w, Blank)
    BY <1>4, <1>a, <2>4, <2>5 DEF SaveTicket, Shell
  <2>8. SoundShell(s)' /\ SoundShell(Blank)'
    BY <1>a, <2>6, BlankSound, GrowsKeeps
  <2>q. QED BY <1>4, <2>3, <2>7, <2>8, BlankSound, KeepSound DEF SaveTicket, Sound
<1>5. ASSUME NEW step \in {"save", "consumed", "idle", "commit", "grant", "post"}, NEW copy \in Ledger,
             step = "consumed" => shell[w].at = "submit",
             step = "grant" => shell[w].next = "grant"
      PROVE  LET s == [shell[w] EXCEPT !.at = step, !.ledger = copy]
             IN  s \in Shell /\ SoundShell(s)
  BY <1>a, <1>5 DEF Shell, SoundShell
<1>6. ASSUME NEW step \in {"save", "consumed", "idle", "commit", "grant"},
             step = "consumed" => shell[w].at = "submit",
             step = "grant" => shell[w].next = "grant"
      PROVE  [shell[w] EXCEPT !.at = step] \in Shell /\ SoundShell([shell[w] EXCEPT !.at = step])
  BY <1>a, <1>6 DEF Shell, SoundShell
<1>7. CASE HaltSubmission(w)
  BY <1>6, <1>7, QuietSound DEF HaltSubmission
<1>8. CASE ConsumeTicket(w)
  <2>1. SoundTickets(tickets')
    BY <1>8, <1>a DEF ConsumeTicket, Consumed, SoundTickets, SoundShell, MintedFor, Tickets
  <2>2. SoundTickets(tickets)'
    BY <1>8, <2>1 DEF ConsumeTicket, SoundTickets
  <2>3. PICK s \in Shell : s = [shell[w] EXCEPT !.at = "consumed"] /\ SoundShell(s)
    BY <1>6, <1>8 DEF ConsumeTicket
  <2>4. SoundShell(s)'
    BY <1>a, <2>3, GrowsKeeps
  <2>q. QED BY <1>8, <2>2, <2>3, <2>4, KeepSound DEF ConsumeTicket, Sound
<1>9. CASE WriteIntent(w)
  <2>1. MintedFor(d, shell[w].ticket)
    BY <1>9, <1>a DEF WriteIntent, SoundShell
  <2>2. shell[w].ticket \in TicketIds
    BY <1>a, <2>1, LengthsTyped, BoundsAssumption DEF MintedFor, TicketIds, Typed, TypeOK
  <2>3. intents'[shell[w].ticket] > 0 /\ minted' = minted
    BY <1>9, <1>a, <2>2, BoundsAssumption DEF WriteIntent, Typed, TypeOK
  <2>4. Announced(d)'
    BY <2>1, <2>2, <2>3 DEF Announced, MintedFor
  <2>5. PICK copy \in Executions :
          copy = [shell[w].executions EXCEPT ![d] = "SUBMISSION_UNCERTAIN"]
    BY <1>a DEF Executions, ExecutionState
  <2>6. SoundRecords(copy)'
    <3>1. SoundRecords(shell[w].executions)
      BY <1>a DEF SoundShell
    <3>2. \A e \in Decisions : e # d => copy[e] = shell[w].executions[e]
      BY <2>5, <1>a DEF Executions
    <3>3. copy[d] = "SUBMISSION_UNCERTAIN"
      BY <2>5, <1>a, <1>b DEF Executions
    <3>4. orders' = orders
      BY <1>9 DEF WriteIntent
    <3>5. \A e : Announced(e) => Announced(e)'
      BY <1>a, GrowsKeeps
    <3>6. ASSUME NEW e \in Decisions
          PROVE  BrokerShows(copy[e], orders'[e])
                 /\ (copy[e] = "SUBMISSION_UNCERTAIN" => Announced(e)')
      <4>1. CASE e = d
        BY <2>4, <3>3, <4>1 DEF BrokerShows
      <4>2. CASE e # d
        BY <3>1, <3>2, <3>4, <3>5, <4>2 DEF SoundRecords
      <4>q. QED BY <4>1, <4>2
    <3>q. QED BY <3>6 DEF SoundRecords, BrokerShows
  <2>7. PICK s \in Shell :
          /\ s = [shell[w] EXCEPT !.at = "intended", !.executions = copy]
          /\ s.at = "intended" /\ s.next = shell[w].next /\ s.approval = shell[w].approval
          /\ s.decision = d /\ s.ticket = shell[w].ticket
          /\ s.approvals = shell[w].approvals /\ s.tickets = shell[w].tickets
          /\ s.executions = copy
    <3> DEFINE intended == [shell[w] EXCEPT !.at = "intended", !.executions = copy]
    <3>1. /\ intended \in Shell /\ intended.at = "intended" /\ intended.next = shell[w].next
          /\ intended.approval = shell[w].approval /\ intended.decision = d
          /\ intended.ticket = shell[w].ticket
          /\ intended.approvals = shell[w].approvals /\ intended.tickets = shell[w].tickets
          /\ intended.executions = copy
      BY ONLY <1>a, <1>b, copy \in Executions DEF Shell
    <3> HIDE DEF intended
    <3>2. intended = [shell[w] EXCEPT !.at = "intended", !.executions = copy]
      BY DEF intended
    <3>q. QED BY ONLY <3>1, <3>2
  <2>8. Hold(w, s)
    BY <1>9, <1>a, <2>5, <2>7 DEF WriteIntent, Shell
  <2>9. /\ (shell[w].next = "grant" => Granted(d, shell[w].approval))
        /\ SoundApprovals(shell[w].approvals) /\ SoundTickets(shell[w].tickets)
    BY <1>a DEF SoundShell
  <2>10. SoundShell(s)'
    <3>1. SoundApprovals(s.approvals)' /\ SoundTickets(s.tickets)'
      BY <1>a, <2>7, <2>9, GrowsKeeps
    <3>2. s.next = "grant" => Granted(s.decision, s.approval)'
      BY <1>a, <2>7, <2>9, GrowsKeeps
    <3>3. MintedFor(s.decision, s.ticket)'
      BY <1>a, <2>1, <2>7, GrowsKeeps
    <3>q. QED BY <2>4, <2>6, <2>7, <3>1, <3>2, <3>3 DEF SoundShell
  <2>q. QED BY <1>9, <2>8, <2>10, KeepSound DEF WriteIntent, Sound
<1>10. CASE HandOff(w)
  <2>1. Announced(d)
    BY <1>10, <1>a DEF HandOff, SoundShell
  <2>2. PICK s \in Shell : s = [shell[w] EXCEPT !.at = "save"] /\ SoundShell(s)
    BY <1>6
  <2>3. SoundShell(s)'
    BY <1>a, <2>2, GrowsKeeps
  <2>4. /\ handoff'.decision = d /\ orders' = orders /\ responses' = responses
        /\ minted' = minted /\ intents' = intents
    BY <1>10 DEF HandOff
  <2>5. SoundBroker'
    BY <1>a, <2>1, <2>4 DEF SoundBroker, Announced, MintedFor
  <2>q. QED BY <1>10, <2>2, <2>3, <2>5, KeepSound DEF HandOff, Sound
<1>11. CASE SaveExecutions(w)
  <2>1. SoundRecords(executions')
    BY <1>11, <1>a DEF SaveExecutions, SoundShell
  <2>2. SoundRecords(executions)'
    <3>1. orders' = orders /\ minted' = minted /\ intents' = intents
      BY <1>11 DEF SaveExecutions
    <3>q. QED BY <2>1, <3>1 DEF SoundRecords, Announced, MintedFor
  <2>3. shell[w].next \in {"idle", "grant", "commit"}
    BY <1>a DEF Shell
  <2>4. PICK s \in Shell : Hold(w, s) /\ SoundShell(s)
    BY <1>6, <1>11, <2>3, BlankSound DEF SaveExecutions
  <2>5. SoundShell(s)'
    BY <1>a, <2>4, GrowsKeeps
  <2>q. QED BY <1>11, <2>2, <2>4, <2>5, KeepSound DEF SaveExecutions, Sound
<1>12. CASE Commit(w)
  <2>1. CommittedPurchase(d, shell[w].fill) \in Ledger
    <3>1. ledger \in Ledger /\ shell[w].fill \in Nat
      BY <1>a DEF Typed, TypeOK, Shell
    <3>q. QED BY ONLY <3>1, d \in Decisions DEF CommittedPurchase, Ledger
  <2>q. QED BY <1>5, <1>12, <2>1, QuietSound DEF Commit
<1>13. CASE RefuseCommit(w)
  BY <1>13, BlankSound, QuietSound DEF RefuseCommit
<1>14. CASE SaveLedger(w)
  BY <1>14, BlankSound, QuietSound DEF SaveLedger
<1>15. CASE LoadApprovals(w)
  <2>1. PICK copy \in Approvals :
          copy = [approvals EXCEPT ![d] = shell[w].approval] /\ SoundApprovals(copy)
    <3>1. Granted(d, shell[w].approval)
      BY <1>15, <1>a DEF LoadApprovals, SoundShell
    <3> DEFINE filed == [approvals EXCEPT ![d] = shell[w].approval]
    <3>2. /\ filed \in Approvals /\ filed[d] = shell[w].approval
          /\ \A e \in Decisions : e # d => filed[e] = approvals[e]
      BY <1>a DEF Approvals
    <3> HIDE DEF filed
    <3>3. SoundApprovals(filed)
      BY <1>a, <3>1, <3>2 DEF SoundApprovals
    <3>q. QED BY <3>2, <3>3 DEF filed
  <2>2. [shell[w] EXCEPT !.at = "file", !.approvals = copy] \in Shell
        /\ SoundShell([shell[w] EXCEPT !.at = "file", !.approvals = copy])
    BY <1>a, <2>1 DEF Shell, SoundShell
  <2>q. QED BY <1>15, <2>1, <2>2, QuietSound DEF LoadApprovals
<1>16. CASE LoadTickets(w)
  <2>1. PICK copy \in Tickets :
          copy = [tickets EXCEPT ![shell[w].ticket] = "fresh"] /\ SoundTickets(copy)
    <3>1. shell[w].ticket \in 1 .. Len(minted)
      BY <1>16, <1>a DEF LoadTickets, SoundShell, MintedFor
    <3> DEFINE stored == [tickets EXCEPT ![shell[w].ticket] = "fresh"]
    <3>2. /\ stored \in Tickets
          /\ \A t \in TicketIds : t # shell[w].ticket => stored[t] = tickets[t]
      BY <1>a DEF Tickets
    <3> HIDE DEF stored
    <3>3. SoundTickets(stored)
      BY <1>a, <3>1, <3>2, LengthsTyped DEF SoundTickets
    <3>q. QED BY <3>2, <3>3 DEF stored
  <2>2. [shell[w] EXCEPT !.at = "store", !.tickets = copy] \in Shell
        /\ SoundShell([shell[w] EXCEPT !.at = "store", !.tickets = copy])
    BY <1>a, <2>1 DEF Shell, SoundShell
  <2>q. QED BY <1>16, <2>1, <2>2, QuietSound DEF LoadTickets
<1>q. QED
  BY <1>1, <1>2, <1>3, <1>4, <1>7, <1>8, <1>9, <1>10, <1>11, <1>12, <1>13, <1>14, <1>15, <1>16
     DEF Proceed

(* The broker acts only on a handoff whose intent was announced.              *)
LEMMA BrokerSound ==
  ASSUME Sound, Typed', Grows, BrokerStep
  PROVE  Sound'
<1> USE DEF files, history, outside
<1>a. Typed /\ SoundBroker
  BY DEF Sound
<1>1. ASSUME NEW answered \in BOOLEAN, CallAccepted(answered) PROVE Sound'
  <2>1. PICK h \in Decisions : h = handoff.decision /\ h # NoDecision
    BY <1>1, <1>a, NoDecisionAssumption DEF CallAccepted, Typed, Working
  <2>2. handoff'.decision = h
    BY <1>1, <1>a, <2>1 DEF CallAccepted, Typed, TypeOK
  <2>3. Announced(h)' /\ \A d : Announced(d) => Announced(d)'
    BY <1>a, <2>1, GrowsKeeps DEF SoundBroker
  <2>4. /\ orders'[h].phase # "none"
        /\ \A d \in Decisions : d # h => orders'[d] = orders[d]
    BY <1>1, <1>a, <2>1 DEF CallAccepted, Typed, TypeOK, Order
  <2>5. SoundBroker'
    BY <1>1, <1>a, <2>1, <2>2, <2>3, <2>4 DEF CallAccepted, SoundBroker, Typed, TypeOK
  <2>q. QED BY <1>1, <2>5, KeepSound DEF CallAccepted, Sound
<1>2. CASE CallRefused
  <2>1. handoff'.decision = handoff.decision /\ UNCHANGED << orders, responses >>
    BY <1>2, <1>a DEF CallRefused, Typed, TypeOK
  <2>2. SoundBroker'
    BY <1>a, <2>1, GrowsKeeps DEF SoundBroker
  <2>q. QED BY <1>2, <2>2, KeepSound DEF CallRefused, Sound
<1>3. ASSUME NEW d \in Decisions, NEW order, SetOrder(d, order), orders[d].phase # "none"
      PROVE  Sound'
  <2>1. \A e \in Decisions : orders'[e].phase # "none" => Announced(e)
    BY <1>3, <1>a DEF SetOrder, SoundBroker, Typed, TypeOK
  <2>2. \A e \in responses : orders'[e].phase # "none"
    BY <1>a DEF SoundBroker, Grows, Typed, TypeOK
  <2>3. handoff' = handoff /\ responses' = responses
    BY <1>3 DEF SetOrder
  <2>4. SoundBroker'
    BY <1>a, <2>1, <2>2, <2>3, GrowsKeeps DEF SoundBroker
  <2>q. QED BY <1>3, <2>4, KeepSound DEF SetOrder, Sound
<1>4. ASSUME NEW d \in Decisions,
             \/ OrderListed(d) \/ OrderPartiallyFills(d) \/ OrderFills(d)
             \/ OrderCancelled(d) \/ OrderRejected(d)
      PROVE  Sound'
  BY <1>3, <1>4 DEF OrderListed, OrderPartiallyFills, OrderFills, OrderCancelled, OrderRejected
<1>q. QED BY <1>1, <1>2, <1>4 DEF BrokerStep

(* Edits, expiries and crashes leave every copy sound.                        *)
LEMMA WorldSound ==
  ASSUME Sound, Typed', Grows, WorldStep
  PROVE  Sound'
<1> USE DEF files, history
<1>1. ASSUME NEW w \in Shells, Crash(w) PROVE Sound'
  BY <1>1, BlankSound, QuietSound DEF Crash
<1>2. ASSUME UNCHANGED << files, history, orders, responses, shell >> PROVE Sound'
  BY <1>2, KeepSound DEF Sound
<1>q. QED
  BY <1>1, <1>2 DEF WorldStep, ToggleSwitches, EditPolicy, ApprovalLapses, TicketLapses

(* The empty state directory is sound.                                        *)
LEMMA InitSound == Init => Sound
<1> SUFFICES ASSUME Init PROVE Sound
  OBVIOUS
<1>1. SoundMint
  BY DEF Init, SoundMint
<1>2. SoundApprovals(approvals) /\ SoundTickets(tickets) /\ SoundRecords(executions)
  BY BlankSound DEF Init
<1>3. SoundBroker
  BY DEF Init, SoundBroker
<1>4. \A w \in Shells : SoundShell(shell[w])
  BY BlankSound DEF Init
<1>q. QED BY InitTyped, <1>1, <1>2, <1>3, <1>4 DEF Sound

(* Every step keeps everything sound.                                         *)
LEMMA StepSound == Sound /\ [Next]_vars => Sound'
<1> SUFFICES ASSUME Sound, [Next]_vars PROVE Sound'
  OBVIOUS
<1>1. Typed' /\ Grows
  BY StepTyped, StepGrows DEF Sound
<1>2. CASE UNCHANGED vars
  BY <1>1, <1>2, KeepSound DEF Sound, vars
<1>3. CASE Next
  BY <1>1, <1>3, StartSound, RunSound, BrokerSound, WorldSound DEF Next, ScriptStep
<1>q. QED BY <1>2, <1>3

(* --- the theorems ---------------------------------------------------------- *)

(* An announced intent is one under a human approval.                         *)
LEMMA AnnouncedUnderApproval ==
  ASSUME Sound, NEW d, Announced(d)
  PROVE  WasIntended(d)
<1>1. PICK t \in TicketIds : MintedFor(d, t) /\ intents[t] > 0
  BY DEF Announced
<1>2. IntentUnderApproval(d, t)
  BY <1>1 DEF Sound, SoundMint, MintedFor, IntentUnderApproval
<1>q. QED BY <1>2 DEF WasIntended

(* No order reaches the broker, and no handoff file is written, but for a     *)
(* decision a human approved, through a ticket bound to that approval and its *)
(* policy, after the intent was logged.                                       *)
THEOREM OrdersApproved == Spec => []OrdersAreApproved
<1>1. Sound => OrdersAreApproved
  BY AnnouncedUnderApproval DEF OrdersAreApproved, Sound, SoundBroker
<1>q. QED BY InitSound, StepSound, <1>1, PTL DEF Spec

(* No record, on disk or in a copy about to be written, is ahead of the audit *)
(* log or of the broker.                                                      *)
THEOREM RecordsEvidenced == Spec => []RecordsHaveEvidence
<1>1. ASSUME Sound, NEW copy, SoundRecords(copy) PROVE CopyHasEvidence(copy)
  BY <1>1, AnnouncedUnderApproval DEF SoundRecords, CopyHasEvidence
<1>2. Sound => RecordsHaveEvidence
  BY <1>1 DEF Sound, SoundShell, RecordsHaveEvidence
<1>q. QED BY InitSound, StepSound, <1>2, PTL DEF Spec
================================================================================
