--------------------------- MODULE Notifications ---------------------------
(* src/notifications.py and scripts/notify.py: what is worth interrupting the *)
(* owner for, and the ledger that keeps it from being said twice. A note is   *)
(* its kind and its fingerprint: what it is about, as the code hashes it.     *)
EXTENDS Money, Sequences

CONSTANT ReminderWindow    \* REMINDER_HOURS, in the clock's unit

NOTIFICATION_KINDS ==
  {"ACTIONABLE_BUY", "FUNDING_REQUIRED", "MONTH_END_FUNDING", "PROMOTION_FAILED",
   "RECONCILIATION_FAILED", "PROPOSAL_INVALIDATED"}

ASSUME WindowsAreKnown == ReminderWindow \in [NOTIFICATION_KINDS -> Nat]

BuyDecisions == {"SINGLE_BUY", "SPLIT_BUY_PLAN"}

(* The absence of a decision is not a purchase. *)
ASSUME NoneIsNoBuy == None \notin BuyDecisions

Note(kind, about) == [kind |-> kind, fingerprint |-> <<kind, about>>]

(* The legs as the owner reads them: ticker and amount, nothing else. *)
Headline(legs) == [i \in DOMAIN legs |-> <<legs[i].ticker, legs[i].usd>>]

ActionableBuy(decision, legs) ==
  IF decision \in BuyDecisions /\ legs # <<>>
  THEN Note("ACTIONABLE_BUY", Headline(legs)) ELSE None

(* Keyed on the month and the shortfall. *)
FundingRequired(gate, month) ==
  IF gate.outcome = "FUNDING_REQUIRED"
  THEN Note("FUNDING_REQUIRED", <<month, gate.shortfall>>) ELSE None

MonthEndFunding(month, budget, cash) ==
  IF cash >= budget THEN None ELSE Note("MONTH_END_FUNDING", <<month, budget - cash>>)

Failure(kind, summary) == Note(kind, summary)

(* The suppression ledger: per kind, what was said last and when. A ledger    *)
(* that cannot be read counts as empty: a repeated alert is noise, a          *)
(* swallowed one is a missed purchase.                                        *)
EmptyLedger == [kind \in NOTIFICATION_KINDS |-> None]
LoadState(ledger) == IF ledger = None THEN EmptyLedger ELSE ledger

(* Mutant: once per kind and window, whatever it is about. *)
ShouldSendPerKind(note, sent, now) ==
  \/ sent[note.kind] = None
  \/ now - sent[note.kind].at >= ReminderWindow[note.kind]

ShouldSend(note, sent, now) ==
  \/ sent[note.kind] = None
  \/ sent[note.kind].fingerprint # note.fingerprint
  \/ now - sent[note.kind].at >= ReminderWindow[note.kind]

RecordSent(note, sent, now) ==
  [sent EXCEPT ![note.kind] = [fingerprint |-> note.fingerprint, at |-> now]]
=============================================================================
