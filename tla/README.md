# A verification of the investing agent

The program is a set of command-line scripts and a Python package (`src/src`,
`src/scripts`) around one promise: a model may *recommend* a purchase, a human
must *approve* it, and at most one order goes to the broker for each approval,
within a monthly authorization. Nothing locks anything. Scripts load whole JSON
files from `state/`, work on their copy and write the whole file back; each one
may be killed between two writes; the broker call is made by hand in another
program; and the evaluations that recommend run unattended, from launchd, beside
the owner and beside each other. This directory models that machinery in TLA+,
checks it with TLC on small instances, and proves part of it with TLAPS for all
instances.

## Inventory

| Component | State it keeps | Operations | Interacts with | What makes it correct |
|---|---|---|---|---|
| Execution records (`execution.py`, `execution_store.py`) | `state/executions.json`: a state per decision; `logs/execution_audit.jsonl` | `transition`, `plan_transitions_to_approved`, `plan_closure`, `save_executions` | every script | records move along `VALID_TRANSITIONS` only; no record claims more than is known |
| Human approval (`approval.py`, `approve_decision.py`) | `state/approvals.json` | `create_approval`, `verify_approval`, `policy_fingerprint` | preflight, tickets | authority dies with the policy it was given under; no approval without a record |
| Preflight (`execution.preflight`) | none | one pass of checks | budget, approvals, reconciliation, broker snapshot | never passes for an order in flight, an acted decision, or beyond the month |
| Submission (`submission.py`, `prepare_`, `submit_`, `record_`, `reconcile_submission.py`) | `state/submission_tickets.json`, `state/pending_submission.json` | mint, verify, consume, write ahead, hand off, ingest, reconcile | all of the above, the broker | a ticket is used once; an order always has a recorded intent; uncertainty ends |
| Close-out (`close_stale_decision.py`) | executions | `plan_closure` | approvals, preflight | dollars are not released while an order may exist |
| Reconciliation (`reconciliation.py`) | none | `reconcile`, `committed_usd` | budget, broker orders | conservative: the larger of ledger and broker |
| Month's ledger (`state.py`) | `state/budget.json` | `load_budget_state` (rolls months over), `commit_purchase` | reconciliation, gate, guardrails | never above the authorization, a decision once, months independent |
| Allocation (`allocation.py`) | none | `validate_plan`, `sibling_reservations_usd` | approvals, executions | legs of a plan together fit the month; reserved dollars are counted exactly once |
| Capital gate (`capital_gate.py`) | `state/broker_snapshot.json` | `evaluate_gate` | scheduler | an unreadable broker is never a funded account |
| Promotion (`promotion.py`, `promote_latest_recommendation.py`) | `logs/decisions.jsonl` | freshness, banner agreement, minting leg by leg | guardrails, preflight, scheduler | a leg is minted once and only if every leg passes |
| Scheduled run (`scheduling.py`, `scheduled_evaluation.sh`) | digests, `state/`, `reports/`, `research/` | preflight, gate, model, postflight, record, promote, notify | gate, promotion, notifications | an unattended run moves nothing but its reports |
| Notifications (`notifications.py`, `notify.py`) | a ledger by kind | `should_send`, deliver, `record_sent` | scheduler | only what was shown is silenced, repetition is bounded |
| Market calendar (`market_calendar.py`) | none | holidays, sessions, boundaries, three clocks | guardrails, month-end reminders | an event's verdict is true; a verdict holds for the day |
| Guardrails, schema, models (`guardrails.py`, ...) | none | `validate` | plans, promotion, approval, preflight | what is refused stays refused when more is wrong; the same verdict wherever a decision is judged |
| Reports (`reporting.py`, `record_scheduled_run.py`) | `reports/` | validate, derive a digest | scheduler, promotion | the digest announces what is promoted |
| Logs, lessons, history, research notes, launchd's installation, crypto universe | append-only logs, Markdown, a cache | parsing and layout | | not modelled: no interleaving, mostly text |

The hard behaviours are the ones no unit test reaches: a crash between any two
file writes, a stale copy of a file written back over a newer one, authority
that goes stale between a check and its use, answers of the broker that are lost
or listed late, two decisions that each fit the month, overlapping unattended
runs, a month that turns between a load and its save, and three clocks that
disagree about which day it is. `PROJECT.json` lists
them as hazards, each at its line.

## The modules

* `ExecutionStates` - the state machine of `execution.py` and the predicates the
  scripts ask of it. No variables; shared by the next two.
* `SubmissionPipeline` - the core. One variable per file under `state/`, one for
  the audit log's intents, `shell` for what each running script holds in memory,
  and `orders`, `responses`, `policy`, `lapsed` for the world. `grants` and
  `minted` are histories, every approval and every ticket ever created: the
  files name them by number.
* `OrderLifecycle` - the abstract promise: a human grants a decision, an intent
  is recorded, the broker may then hold one order, the record moves on evidence,
  a confirmed fill is booked once. No files, tickets, copies or crashes.
* `SubmissionSafety` - the properties, and the refinement mapping to
  `OrderLifecycle`.
* `MCSubmissionPipeline` - the instances TLC checks.
* `SubmissionPipelineProofs` (types, the ledger), `SubmissionSafetyProofs`
  (orders and records, any number of shells), `OneShellProofs` (one script at a
  time, and the refinement) - the theorems.

The scheduled part, everything that happens without the owner:

* `Money` - amounts, `None`, writing one key of a JSON object; used throughout.
* `CapitalGate`, `Notifications`, `ScheduledSafety`, `Reports`, `Promotion` - the
  pure functions of the Python modules of those names (`scheduling.py` for
  `ScheduledSafety`, `reporting.py` for `Reports`): gate outcomes, suppression,
  the write guard and the two digests' comparison, what a digest must hold, what
  may be promoted.
* `ScheduledRun` - composes them: `scheduled_evaluation.sh` and
  `weekly_discovery.sh` with every script they call, any number of runs at once,
  the files they share, and the owner.
* `ScheduledRunSafety`, `MCScheduledRun`, `ScheduledRunProofs`,
  `ScheduledPromiseProofs` - properties, instance, theorems: about the gate's cash
  and the blame first, then about what a run promises the owner.

The month, everything that decides how much may be spent and on what:

* `MarketCalendar` - dates, three clocks, NYSE holidays, a month's last
  opportunity, the counts a decision reports.
* `Guardrails`, `DecisionSchema` - `validate`, check by check, each a set of
  violation codes; and the complete decision a prompt asks for.
* `MonthlyBudget` - the ledger (`state.py`) and `reconcile`.
* `Allocation` - plans, cumulative state, the four-way ceiling, reservations.
* `BudgetMonth` - composes them, with the capital gate: filing plans, approving
  legs, buying, settling and charging, while the clock, the broker, purchases by
  hand and edits of the configuration go on.
* `BudgetMonthSafety`, `MCBudgetMonth`, `BudgetMonthProofs` - properties,
  instance, theorems; `CalendarProofs` - theorems about the calendar alone.
* `Sums`, `SumProofs` - dollars added up over a set, and what that computes; used
  by the ledgers of all three parts.

The three composed modules overlap on purpose: the pipeline has every file write
and crash but one month and constant decisions; the month has what decisions
say and how months meet, with a purchase in one step; the scheduled run has what
precedes approval.

### How actions correspond to code

A step is either the reads a script makes before its first write, or the write
of one file with what the code does around it. So `submit_approved.py` is
`Submit` (load, verify the ticket), `ConsumeTicket` (the `save_tickets` inside
`submit_once`), `WriteIntent` (the fsynced audit entry, and the transition *in
memory*), `HandOff` (`state/pending_submission.json`) and `SaveExecutions` (the
exception handler's save). `approve_decision.py` is `Approve`, the prompt,
`TypePhrase` or `DeclinePhrase`, `SaveExecutions`, `LoadApprovals`,
`SaveApproval`; `prepare_submission.py` is `Prepare`, `LoadTickets`,
`SaveTicket`, `SaveExecutions`;
`reconcile_submission.py` is `Reconcile`, `SaveExecutions`, then `Commit` or
`RefuseCommit`, and `SaveLedger`; `record_submission.py` and
`close_stale_decision.py` are one load and one save. `Crash` may hit any script
at any of these points and clears its `shell`, nothing else: the files are
replaced atomically (`atomic_write_json`).

The copies matter: `approve_decision.py` keeps the records it loaded *before*
the prompt, and saves that copy after it; `submit_approved.py` saves the ticket
map it loaded before verification. `approve_decision.py` reads the approvals
again after its first save, `prepare_submission.py` the tickets after its checks:
those loads are steps of their own, since another script may write between them
and the save. Each copy is in `shell`, and each save replaces the file.

In `ScheduledRun` a step of a run is one script it calls, or the part of a script
another process can get in between: `Start` (preflight and first digest),
`AuthorizationPhase`, `RefreshSnapshot`, `CashPhase`, `MonthEndReminder`,
`EnterModel` (preflight and digest again), `Model` (the external process, with
the documents it leaves and at most one write it should not make), `Postflight`,
`RecordRun` or `RecordDiscovery`, `Gather`, `Promote` (all checks of
`promote_latest_recommendation.py`), `MintLeg` once per leg, and `notify.py` as
`NotifyDecide`, `Deliver`, `SaveLedger`. `runner[r]` is what run `r` holds in its
process (the saved digest, the note, the ledger it loaded). `others` is history:
the runs in whose model window somebody else changed what is compared. A death
ends the process and leaves the files.

In `BudgetMonth` a script is a step, except `reconcile_submission.py --commit`,
which is `Settle` (records moved, ledger loaded) and `FinishCommit` (charged and
saved): the month may turn in between. `Draft` is `validate_plan.py --log`,
`Approve` is `approve_decision.py` with its re-validation, `Buy` is preflight to
order, `Review` is `validate_decision.py` on a decision with two departures from
what was asked, `InitLedger` is `check_status.py --init` with and without
`--force`. `commits` and `forced` are history.

### What is abstracted

In the pipeline:

* A decision is a model value with an amount; it never changes once logged, so
  its payload fingerprint is not a variable.
* A record absent from `executions.json` is `PROPOSED`, which is what every
  reader assumes and no script writes.
* `policy` has the two parts the code tells apart: `armed`, the three switches
  together, and `rules`, everything else `policy_fingerprint` hashes. Both
  change the fingerprint, since config.json is hashed.
* Time is `lapsed`: approvals and tickets past their expiry. An approval's month
  ending is one more way to lapse; the ledger's month does not roll over here.
* Preflight's quote, price, tradability and identity checks can only refuse:
  a refusal is `Prepare` not happening.
* `Submit` takes any fresh ticket of the decision (`--ticket-id`); the code's
  default is the newest.
* An approval may be typed with any policy, switches open or not; guardrail
  checks on a decision's fields hold of every decision in `Decisions`.
* `BUDGET_MISREPORTED` (a decision that quotes the month's figures) is left out:
  decisions here do not quote them.
* Closing a decision needs a ground; human abandonment always is one.
* The broker is external, modelled from what `submission.py` expects of it: one
  order per `ref_id`, echoed in the order lists, which may lag; answers lost or
  refused; full, partial and no fills; cancellation and rejection.

In the scheduled run:

* Time is in half days, the reminder windows' common unit; a snapshot is fresh
  in the half day it was taken. Months do not turn; `MonthEnd` says from when on
  it is near their end.
* The repository outside the runs' scope is one version number, `protected`; the
  files the scripts themselves write are variables of their own.
* A leg carries `sound` for the verdict of `guardrails.validate`, modelled in
  full in `Guardrails`; a sound leg of a plan is one that reports the whole
  remaining authorization (see finding 6).
* The research archive is one note, which is a number of words: `archive_losses`
  judges each note by itself. Reports and digests are the fields the validators
  ask about. Which audit record a digest (`pointer`) or a recommendation
  (`source`) names is text of the model's: its own run's, another's or, for the
  digest, none, and nothing in the code makes it the right one. `run` on the digest
  is history.
* The history of who read a snapshot, and during whose run, is kept in the
  record of the snapshot.

In the month:

* Amounts are whole cents; half of a budget is rounded as the code rounds it. An
  amount finer than a cent is a mark.
* Prose is what a rule reads of it: `marks` (things a rule objects to), `gaps`
  (parts absent or too thin), `garbled` (fields that do not parse). Symbols,
  word lists and the taxonomy are constants.
* What an evaluation files is a constant, `Proposals`: decisions, amounts, the
  one analysis a leg may lack, and the events its legs await.
* Purchases are made one at a time: preflight, ticket, submission and the order
  are `Buy`. That the next may be prepared before the last is listed is the
  pipeline's run `find_authorization`. Reservations are not subtracted there,
  since `prepare_submission.py` passes preflight none.
* An approval that has expired keeps reserving: preflight's `next_state` is not
  saved by any script.
* A trade by hand has an order id of its own (`ByHandIds`) and one of the amounts
  `ByHandUsd`, and is filled at once; cancelled and rejected orders are one
  `dead` state; both order lists are supplied.
* Quotes and cash are not here; they are in `Promotion` and the gate.

`SnapshotCarriesCash` is a constant of the pipeline: `FALSE` is `load_snapshot` as it stands,
which never sets `cash_usd`, so preflight always reports `CASH_UNKNOWN` and
nothing past `Prepare` is reachable. That is the finding of run `find_cash`;
every other run of the pipeline sets it to `TRUE`, the loader the documentation describes, so
that the rest of the pipeline can be examined.

## What the runs check

| Run | Instance | Question |
|---|---|---|
| `one_shell` | 2 decisions of $2 in a $3 month, one script at a time, 2 approvals, 2 tickets, 1 crash, switches toggling | every safety property and the refinement |
| `faults` | 1 decision, 2 approvals, 2 tickets, 1 policy edit, 1 expiry, 1 crash, fairness | stale authority; liveness |
| `two_shells` | 2 decisions, 2 concurrent scripts, 2 approvals, 1 ticket; every write and every load between two writes interleaved | what survives lost updates |
| `scheduled` | 2 runs of either job, 7 outputs of the model, 1 departure from the ordinary, one half day passing | what an unattended run may do to the files, the log, the owner |
| `month` | 2 assets, 4 plans, 4 moments over a month's end, 2 budgets, 2 trades by hand of 2 amounts, 2 inputs, all pairs of some 70 departures | the month's money, plans and verdicts |
| `find_*` | as small as shows the trace | what the documents say and the code does not do |

The pipeline's bounds (`MaxApprovals`, `MaxTickets`, `MaxIntents`, `MaxRules`, `MaxLapses`,
`MaxCrashes`) count things a human or the world does. Two dollars in a
three-dollar month are the smallest amounts for which one decision fits, two do
not, and a fill can be partial. Two approvals and two tickets are enough for
every "old one against new one" case; one crash is enough to lose each in-memory
copy, and the recovery from it is then explored in full. `MaxIntents` is 2, so a
ticket used twice is reachable if the code allows it. Decisions, and
in `two_shells` the shells, are interchangeable in the symmetric runs (no liveness
is checked there).

The scheduled instance has two runs, since every property is about a run and one
other, in turn (half a day apart, so that a reminder window and a snapshot's age
pass) or overlapping. `MaxDisturbances` is 1: one overlap, death, sleep, act of
the owner or spoilt ledger, at any point; two at once multiply the states and
add no new pair of actors. The seven outputs are the smallest set with a
plan that can be promoted under a digest that names no audit record, a plan that
cannot be promoted, a payload announced as another, one without a digest, one
without an audit record that names another run's, a WAIT, no decision, and each
kind of stray write but deleting a note, which the comparison treats as the
gutting that is tried. The month begins
unspent or used up; the owner's spending makes it anything between. Amounts are
one and two dollars, a note has four words, so that a third and a half differ.
Deadlock is off, as it is in the month: jobs end, and the clock is bounded.

The month's moments are 14 November 2025 before noon and in the evening (when
UTC is a day ahead), the last evening of November (UTC is a month ahead) and the
morning after: every disagreement of the three clocks. Budgets are $20 and $15,
the orders $5, $10 and $15, so that two of $10 fit only the larger budget, exactly,
and an amount is on each side of half; trades by hand are of $10 and $7. One
leg awaits earnings in a week, another those after the close of the month's
last session. `MaxInputs` is 2: of plans filed, trades by hand, edits
of the budget and forced ledgers, every pair is tried, in every order, with any
progress of orders, approvals and commits between. Departures are tried in pairs
because the property is about pairs.

Properties of the pipeline, each at its definition in `SubmissionSafety`:

* any number of scripts at once: `OrdersAreApproved`, `RecordsHaveEvidence`,
  `LedgerIsBacked`;
* one script at a time: `TicketUsedOnce`, `ApprovalHasRecord`,
  `DiskFollowsStateMachine`, `HandoffIsCurrent`, `LedgerFollowsRecords`,
  `ImplementsLifecycle`. With two shells TLC finds each of these six
  violated: a stale copy written back undoes a consumed mark or a state. The code
  takes no lock and its documents assume one operator; the three properties above
  say what two shells still guarantee.
* liveness: `UncertainSettles`, `AuthorizedIsTicketed`.

Deadlock is checked by every run of the pipeline and never found: whatever the
bounds have used up, the owner can still open or close the switches.

Properties of the scheduled runs (`ScheduledRunSafety`): a run whose model
altered the protected tree, or deleted or gutted a note, never reports success,
hook or no hook (`CleanExitMeansUntouched`; a snapshot the model forged is compared
too but left out of it, because the refresh of a job beside it may put the file back
before the check), and one that fails its check has a culprit other
than the runner (`BlameHasACause`); the gate decides on cash read during the run
(`CashWasReadDuringTheRun`) and not invented by a model (`CashIsNotForged`); a
plan is promoted whole or not at all (`PlansAreNotSplit`), with the legs the
digest on disk announces and from the newest audit record
(`PromotedAsAnnounced`; a digest that names no record may be an earlier run's),
and each leg within what is left (`PromotedWithinMeans`);
nothing is suppressed that was not shown (`LedgerIsHonest`), and a shortfall, a
refused promotion, a purchase and the month-end reminder reach the owner
(`AlertReachesOwner`). The rest does not, and the property claims nothing of it: a
failed postflight and a failed model process are told by the exit code and the
log only, and an unreadable broker (exit 12) by the log only, with exit code 0
(`scheduled_evaluation.sh:262-264`). That is not what the texts say:
`scheduled_evaluation.sh:192` has "skip, notify", `check_capital_gate.py:24` "skip,
and say so", `capital_gate.py:50` "say so loudly", and `notifications.py:13-15` has
"a failure in the machinery" among what fires. Likewise no property says whose
digest `reports/latest.md` is: `record_scheduled_run.py` derives one only when
there is no file at all (line 102), so a run that writes none leaves the last
run's in place, which lines 16-18 say it never silently is.

Properties of the month (`BudgetMonthSafety`): a purchase fits in the budget
with the orders that UTC dates in the project's month, late fills and trades by
hand included, and with what the ledger was charged this month
(`BuysStayInBudget`; with the orders the project dates in the month it need not,
finding 7); a decision is charged once (`NeverReplayed`) and to the
month the ledger counts it in (`LedgerCountsItsMonth`); a split cannot buy what
one purchase could not (`SplittingBuysNothing`); a plan stays valid for the day
(`StableWithinTheDay`); the gate pays for an evaluation only if something valid
can come of it (`GateAgreesWithValidator`); of two faults neither repairs the other
(`RefusalsCompose`); an event called in time is (`EventVerdictHonest`).

Some of these are stated with exemptions, which are observations about the
code. `BuysStayInBudget` says of an order of the month's last evening, which UTC
dates a month later, only that its charge counts, and of a forced ledger only
that the broker's orders do. `StableWithinTheDay` judges a plan again only while
UTC is in the month it was in when the plan was filed. `JudgedTogether` lists the pairs of fields that one check compares, where a
change of either may put the pair right (a direction and an average cost, a theme
and a subtheme), and those of which one silences the check on the other: leaving
out `current_price_usd` turns the penny-stock, fractional, cost-basis and
pair-minimum checks into warnings, evidence written as prose escapes the count of
primary sources, and a type let through by `Allow` needs no research. The property
supposes that the purchase passes as its template has it, or the second departure
could mend the template. `OnlyUtcIsAMonthAhead` leaves out of
`EventVerdictHonest` the evening on which `guardrails.py:1195` and `1400` use UTC's
month while the rest uses the project's. `forced` leaves out what follows `--init --force`, which
forgets the decisions acted on and is the advice printed when the configured
budget is lowered in mid-month (the ledger then claims more than the budget).

### Fairness

`Fairness` asks for weak fairness of a started script (it runs on, and a prompt
is eventually answered or abandoned), weak fairness of the broker listing an
order and bringing it to an end, and strong fairness of two things the operator
keeps doing as the runbook `docs/FIRST_LIVE_PURCHASE.md` instructs: preparing an
authorized decision and reconciling a handed-off one, with `--commit`. Strong,
because a closing of the switches or a running script may disable them in
between. Nothing is assumed of approvals, of toggling switches, of the broker
call being made or of crashes. That the broker brings every order to an end holds
of equity orders, which are placed good-for-the-day (`gfd`); a crypto order
(`gtc`) may rest open, and its record with it, until somebody cancels it, and
`UncertainSettles` says nothing of that case.

### Findings

Each has a run whose counterexample TLC prints.

1. `find_write_ahead` - `submission.py` says the record is persisted as
   `SUBMISSION_UNCERTAIN` before the call; it is persisted after the handoff, by
   the caller's exception handler. A crash in between leaves an order behind a
   `PRE_EXECUTION_VALIDATED` record. The intent in the audit log and the
   consumed ticket do survive (`OrdersAreApproved`, `TicketUsedOnce` hold).
2. `find_authorization` - the reservation of approved-but-unsubmitted decisions
   the README describes is not passed to preflight by `prepare_submission.py`.
3. `find_commit` - a FILLED record missing from the ledger cannot be committed
   by re-running `reconcile_submission.py --commit`.
4. `find_cash` - the documented path to a ticket is closed by the loader.
5. `find_not_found` - after a call that created no order no new ticket can be
   minted.
6. `find_split_plan` - a valid split plan reports on each leg what the legs ahead
   of it leave; `approve_decision.py` judges the leg alone and refuses all but
   the first with `BUDGET_MISREPORTED`, until the first is filled and committed.
   Promotion judges legs the same way.
7. `find_month_evening` - `reconcile` dates orders by UTC's month where `state.py` and
   `market_calendar.py` say the project's month counts: on a month's last evening a
   purchase is passed without what was bought that evening.

## What is proved

Assumed throughout are only the constants' named assumptions, which TLC
evaluates on every run, and the two hypotheses named below, `OneShell` and
`NoneIsNoList`, which stand in the theorems that need them. The assumptions are:

* what stands for a missing file or field is no number, banner, ledger or id
  (`NoneIsNoNumber`, `NoneIsNoBanner`, `NoneIsNoLedger`, `AnotherIsNotFiled`);
* the constants have their types: `MonthConstants` says a proposal has positive
  dollars and at most the one analysis left out that a leg may lack, a pair's
  minimum is a number, an event a decision may claim has a date or none;
  `OutputsAreDocuments` that a model's recommendation is a list of legs with
  amounts;
* `GateKnowsTheMinimum`: the gate's $1.00 (`capital_gate.py`) is no less than the
  broker's (`models.py`), two constants of the code that nothing ties together;
* `ExampleConstants`: the example of each kind is a real one, as
  `decision_schema.py` says of it: its symbol matches, its theme is the
  taxonomy's, its price no penny stock's, and its 36 months are no fewer than the
  configuration's minimum. The last is a condition on `config.json`
  (`config.example.json` has 24): with a longer minimum the scaffold the prompts
  are given would itself be refused.

**The submission pipeline.** `TypeCorrect`: `Spec => []TypeOK`, for every number
of decisions, shells, amounts and bounds. `TypeOK` is not inductive as it stands:
a working script must hold a decision, and a handoff whose call is still to be made must name one,
since both index the files with it. That is `Working`; the inductive invariant
is `Typed == TypeOK /\ Working`. The lemmas go by kind of step (`StartTyped`,
`FieldsTyped`, `RunTyped`, `BrokerTyped`, `WorldTyped`).

`OrdersApproved` and `RecordsEvidenced` follow from one invariant, `Sound`. What
the disk may say has to hold of every *copy* a script may still write back, so
each file's part is stated as an operator of a copy (`SoundTickets`,
`SoundRecords`) and required of the disk and of every `shell`; a ticket freezes
the policy of the approval it cites (`SoundMint`); a script past each step has
what that step established (`SoundShell`); the broker and the handoff rest on an
announced intent (`SoundBroker`). Old copies stay sound because history only
grows: `Grows` says approvals and tickets are appended, intents are not unsaid,
orders do not disappear and their end is final; `StepGrows` proves it of every
step and `GrowsKeeps` that soundness of a copy survives it. That is why these
two properties hold under lost updates and any number of crashes.

`LedgerBacked` (`LedgerIsBacked`) treats copies as `Sound` does: a ledger is `Backed` when it claims no more
than the fills of the decisions it names and each of these has one, and
`LedgerInv` requires this of the disk and of every script's copy, and of a script
about to commit that its amount is what its order filled for. The sum over a set
of decisions is `SumOver`, below.

`OneShellProofs` proves what holds when the operator runs one script at a time,
as the runbook has him do: its hypothesis is `OneShell` (any two shells are the
same one), decisions, amounts, bounds and crashes stay arbitrary. The inductive
invariant is `Alone`: `Sound`, `DiskAlone` (a ticket is consumed on disk before
its one intent is logged; an approval is filed after its record) and
`ShellAlone`, which says of the running script, at each of its steps, in what its
copies differ from the disk: in its own decision's record by one move of the
state machine (`OneMove`), in its own ticket, in its own charge. From it follow
`TicketsUsedOnce`, `ApprovalsHaveRecords`, `DiskFollows`, `HandoffsAreCurrent`
and `LedgerFollows`, the last three as action properties: a lemma for the steps
that write the file in question, and the others leave it alone. TLC shows each of
them violated with two shells, so `OneShell` cannot be dropped.

`PipelineImplements` is the refinement: the mapping of `SubmissionSafety` takes
initial states to initial states, and under `Alone` the save of an approval maps
to `Grant`, the audit entry to `Intend`, each save of a record to a `Move` on
`Evidence` or a stutter, the broker's steps to `Place` and `End`, the ledger's
save to `Book`, and every other step, crashes included, to a stutter.

**Sums.** `SumOver` (in `Sums`) adds up a function over a finite set. A library
induction theorem takes a predicate as a parameter, which the provers cannot
instantiate; `SumProofs` states induction over *sets* instead (a set of numbers
with a member has a least; a set of sets closed under adding an element holds
every finite set) and derives that a sum is a number, does not depend on the
order, splits off an element, and is monotone. All amounts below rest on it.

**The scheduled runs.** `CashIsCurrent` (`CashWasReadDuringTheRun`) needs that a run in front of the
gate's cash phase finds either no snapshot or one taken during itself
(`CashInv`): the refresh removes what it could not use, and whatever overwrites
the file afterwards is a job running beside it. Steps that hand the gate nothing
are `Plain`; three do not fit and have lemmas of their own.

`BlameJustified` (`BlameHasACause`) needs that while a model runs, and until its
check if it wrote nothing amiss, the saved digest is the digest of what is
there, unless somebody else was seen writing (`Fine`). A process that is not the
actor keeps this because `Witness` records the actor (`BystandersFine`), the
actor because it took the digest itself (`DigestFine`), left it as it was
(`ModelFine`) or is elsewhere (`OnwardFine`); a digest never fails the comparison
with itself (`SameIsSafe`).

Five more invariants are of the disk and of what every process holds, each proved over all interleavings of any number of runs, deaths
and the owner:

* `AlertInv`: a ledger of what was sent, on disk or loaded by a run, is `Honest`,
  and a run past its delivery has its note `Told`, by it or by whoever was shown
  the same words. It gives `LedgerStaysHonest` and `AlertsReachTheOwner`.
* `ForgeInv`: with the hook in force a snapshot is the broker's, so the cash the
  gate believes is (`CashIsTheBrokers`). Without it nothing is promised.
* `CleanInv`: a run whose model strayed has, until its check, the evidence in
  front of it, because the two files the check compares never move back
  (`MovesOn`); after it, it is marked unsafe or dead (`CleanExitsAreClean`).
* `PromoInv`: documents (`Documents`) and books (`Books`) are well formed: a
  recommendation is a list of legs with amounts, a digest announces a list of legs, a
  snapshot's quotes are of its own moment. Nothing is supposed of the audit record
  a document names. It gives `ScheduledTypes` and, with a lemma per action,
  `PromotionsAreAnnounced` (what is taken up to be logged has the tickers and
  amounts of the banner, and names the newest record) and
  `PromotionsAreWithinMeans` (what is approved and unspent is a sum over the log).
* `PlansInv`, on top of it: what waits to be logged is the rest of one
  recommendation and waits for nothing else (`InTurn`); of each run's
  recommendation, what a promoter has logged is in its order, over and over, and
  with what waits adds up to whole rounds, unless the promoter was killed
  (`Whole`). Logging a leg moves one from the waiting to the logged; the
  remainders are counted in `RoundThePlan`. It gives `PlansAreWhole`
  (`PlansAreNotSplit`), which is stated by places in the log because the library
  says nothing of `SelectSeq` that the provers can use.

**The month.** `MonthInv` is `TypeOK` with `Filed` (every plan and approval has
amounts), `Listed` (the broker's list is finite and names what was approved or
bought by hand) and `Charged`: the charges so far are finite, no decision has
two, and the ledger on disk, and the one a script has loaded and will write back,
`Accounts` for all of them, remembering every decision and adding up those of its
own month. It gives

* `MonthTypes`, which is more than shapes: a ledger is never committed past what
  it authorizes, an order never executes past its request;
* `ChargedOnce` and `LedgerCounts`, over rollovers, late fills, edits of the
  budget and clocks that move between a load and its save;
* `PurchasesStayInBudget`: in a month whose reconciliation blocks nothing, the
  broker's orders that UTC dates in it cost at most what reconcile counts as filled,
  pending and partly filled, and the ledger's committed dollars are its charges
  (`Charged`); the ceiling a purchase passed leaves room beside the larger of the two, so
  each of them with the purchase is within the budget (`RoomIsLeft`). Its
  hypothesis `NoneIsNoList` says that the value of a missing order list is not a
  set of orders. There is no end of those for TLC to go through, so it stands in
  the theorem and not among the assumptions;
* `PlansStaySound` (`StableWithinTheDay`): each of the checks of `validate` and
  `validate_plan` only *wanes* from one hour to a later hour of the same day: its
  set of codes at the later one is part of its set at the earlier. The counts of
  days and sessions are the same (`SameCounts`), what awaits an event can only
  come to be over. The purchases and events are those of any `Proposals`;
* `SplitsBuyNothing` (`SplittingBuysNothing`): a leg and its plan's whole
  dollars as one leg differ in the amount, the balance after it and the analysis
  it may lack (`Resized`), so of all checks only those of the dollars can differ
  (`ResizedChecks`, `PurchaseIsJudged`). The last leg was judged against a ledger
  that counts the legs before it (`PrecedingGrows`), which bounds the whole; the
  first leg's place and kind carry over. Any number of legs, of any assets;
* `EventVerdicts` (`EventVerdictHonest`): whatever departures a decision has, its
  events are those of the departures (`DepartKeepsEvents`); one that passes has
  declared of each what the code computes (`ValidDeclares`), and that is whether
  a session is left (`ReachIsTime`), by the search for the month's last session
  (`LastSessionIsLast`);
* `GateAgrees` (`GateAgreesWithValidator`): what the gate calls deployable is
  left of the authorization beside what is reserved (`DeployableIsThere`), what is
  left was not filled and is not pending at the broker either
  (`LedgerCoversOrders`), and the example passes every check at any amount the
  ledger has left (`ExampleIsValid`). It uses `MonthInv` and `Few`, that finitely
  many decisions are approved, so that their dollars have a sum;
* `RefusalsStand` (`RefusalsCompose`): what is reviewed is `Templated`, and of
  two departures in fields that are not judged together the decision with the
  first alone lies `Between` the purchase and the decision with both: each field
  is one's or the other's, two fields that one check compares are both from the
  same side (`SameSide`), and marks, gaps and what does not parse only become
  more. Check by check, what lies between two decisions that pass passes
  (`OwnBetween`, `PlaceBetween`, `PurchaseBetween`, `DollarsBetween`, together
  `BetweenPasses`). Nothing is assumed of the departures, so `JudgedTogether` is
  all there is to exempt; it needs `NoneIsNoList` for an absent list of events.

**The calendar.** `DatesAreInTheirMonths`: for every date, of any year, the
month read off it begins on or before it and ends on or after it. The arithmetic
is done a level at a time: four years, a century, an era of 400 years, then the
months of a year that begins in March. `EveryMonthHasASession`: the Tuesday
of a month's second week and the Wednesday after it are never both closed, because
no holiday but Good Friday's date can fall on such a day, so the searches of `last_trading_day_of_month` end in the
month they began in, for every year.

`UNION` is written with its own parentheses in `MarketCalendar` and `Guardrails`:
TLC and TLAPS group `UNION A \cup B` differently.

Only model-checked, and why:

* liveness, `UncertainSettles` and `AuthorizedIsTicketed`: fairness and `ENABLED`
  are outside what TLAPS decides;
* what the runs that expect a violation refute.

## What is not modelled, and the plan

Not modelled, and staying so: the decision log's redaction, lessons and history
(append-only text), Markdown parsing and note layout, installation under
launchd, the refresh of the crypto universe's cache (a constant here), the
wording of everything.

Partly: preflight's account-identity and tradability lookups (they only
refuse); the timeout of the model process (an exit that is not clean); the days
and sessions a decision reports as text, which the code does not check either.

Left for later, in this order:

1. What loading does to the ledger: a rollover and a save in either order leave
   the same file.
