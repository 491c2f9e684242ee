------------------------- MODULE ScheduledRunSafety -------------------------
(* What the scheduled runs promise the owner of the account. *)
EXTENDS ScheduledRun

Done(r) == At(r, "exit")
Evaluated(r) == Done(r) /\ runner[r].job = "evaluation"

(* Every variable holds a value of the kind the code keeps there. *)
TypeOK ==
  /\ clock \in 0 .. MaxClock
  /\ cash \in Nat /\ remaining \in Nat
  /\ open \subseteq Switches /\ denied \in BOOLEAN /\ handed \in BOOLEAN
  /\ protected \in Nat
  /\ approved \subseteq DOMAIN minted
  /\ \A i \in DOMAIN minted : minted[i].run \in Runners /\ minted[i].by \in Promoters
  /\ DOMAIN runner = Runners /\ DOMAIN todo = Promoters
  /\ \A r \in Runners : runner[r].code \in {None, -1, 0, 1, 2, 3}
  /\ others \subseteq Runners
  /\ disturbances \in 0 .. MaxDisturbances

(* scheduling.py: a run's model may write its three scopes and nothing else,  *)
(* and may not gut the research. If its model altered the protected tree or   *)
(* lost research, the run does not report success, whether or not the hook    *)
(* was in force and whatever ran beside it.                                   *)
CleanExitMeansUntouched ==
  \A r \in Runners :
    Done(r) /\ runner[r].code \in {0, 2, 3} =>
      runner[r].stray \notin {"budget", "deletes", "guts"}

(* scheduled_evaluation.sh: the digest is taken again after the pre-run steps  *)
(* so that what the runner's own shell writes is never blamed on the model. A  *)
(* failed postflight has a culprit: this model, or somebody else who wrote     *)
(* between the model's entry and the check.                                    *)
BlameHasACause ==
  \A r \in Runners : runner[r].unsafe => runner[r].stray # None \/ r \in others

(* The gate spends on the strength of a cash figure: one that this run, or a   *)
(* job overlapping it, obtained from the broker while the run was under way,   *)
(* never one left behind by an earlier run.                                    *)
CashWasReadDuringTheRun ==
  \A r \in Runners : runner[r].belief # None => r \in runner[r].belief.during

(* ... and, while the write guard is in force, never one an evaluation's model *)
(* wrote for itself.                                                           *)
CashIsNotForged ==
  hook => \A r \in Runners : runner[r].belief # None => ~runner[r].belief.forged

(* The decisions a promoter has logged of a run's recommendation, by their     *)
(* place in the decision log, and those ahead of one of them.                   *)
Logged(r, p) == {i \in DOMAIN minted : minted[i].run = r /\ minted[i].by = p}
LoggedBefore(r, p, i) == {j \in Logged(r, p) : j < i}

(* promote_latest_recommendation.py: one bad leg stops the whole plan. What a   *)
(* promoter that ran to its end has logged of a recommendation, which is still  *)
(* on disk, is nothing or the whole plan, in order (a second promotion repeats  *)
(* it); only a crash, or a promotion still under way, leaves a beginning of it. *)
PlansAreNotSplit ==
  \A r \in Runners, p \in Promoters :
    Logged(r, p) # {} =>
      /\ payloads[r] # None
      /\ LET legs == payloads[r].legs
         IN /\ \A i \in Logged(r, p) :
                 minted[i].leg = legs[(Cardinality(LoggedBefore(r, p, i)) % Len(legs)) + 1]
            /\ todo[p] = <<>> /\ (p \in Runners => runner[p].code # -1) =>
                 Cardinality(Logged(r, p)) % Len(legs) = 0

(* The ledger suppresses only what the owner was in fact shown: nothing is      *)
(* recorded as sent that was not delivered first, whichever runs overlap,       *)
(* crash, or save a ledger they loaded before another's save.                   *)
LedgerIsHonest ==
  sent # None =>
    \A kind \in NOTIFICATION_KINDS :
      sent[kind] # None =>
        \E s \in said : s.fingerprint = sent[kind].fingerprint /\ s.at <= sent[kind].at

(* What a run owes the owner: the shortfall its gate found, the failure of a    *)
(* promotion that was refused, else the purchase its audit record declares and   *)
(* its payload spells out.                                                      *)
Buys(r) == /\ reports[r] # None /\ payloads[r] # None
           /\ reports[r].decision \in BuyDecisions /\ payloads[r].legs # <<>>
Owed(r) ==
  IF runner[r].gate # None /\ runner[r].gate.outcome = "FUNDING_REQUIRED"
  THEN FundingRequired(runner[r].gate, 0)
  ELSE IF runner[r].refused THEN Failure("PROMOTION_FAILED", "refused")
  ELSE IF Buys(r) THEN ActionableBuy(reports[r].decision, payloads[r].legs) ELSE None

(* A run that ends on its own has told the owner, now or in the same words by an *)
(* earlier run, what it owes him and whatever else it set out to say, such as    *)
(* the month-end reminder. Only a refusal of the desktop to show it, or the end  *)
(* of the run's process, keeps it from him. Of a failed postflight, a failed     *)
(* model process and a broker that could not be read no note is ever made, so    *)
(* nothing is claimed of them. (Of the last, scheduled_evaluation.sh:192 and     *)
(* check_capital_gate.py:24 say that it is told; lines 262 to 264 do not.)       *)
AlertReachesOwner ==
  \A r \in Runners :
    Done(r) /\ runner[r].code # -1 /\ ~runner[r].undelivered =>
      \A note \in {runner[r].note, Owed(r)} \ {None} :
        \E s \in said : s.fingerprint = note.fingerprint

(* What becomes a pending decision was, whole and in order, the ACTION line of  *)
(* reports/latest.md: a step that sets out to promote a recommendation does so  *)
(* while the digest on disk announces exactly its legs, the recommendation names *)
(* the newest audit record, and a digest that names one names the same. (A      *)
(* digest that names none may be an earlier run's.)                             *)
PromotedAsAnnounced ==
  [][\A p \in Promoters :
       todo[p] = <<>> /\ todo'[p] # <<>> =>
         /\ digest # None /\ digest.headline = "BUY"
         /\ Headline(digest.legs) = Headline([i \in DOMAIN todo'[p] |-> todo'[p][i].leg])
         /\ LET source == payloads[todo'[p][1].run].source
            IN /\ digest.pointer # None => digest.pointer = source
               /\ NewestReport # None => source = NewestReport]_vars

(* Authorization is not handed out twice: setting out to promote, every leg     *)
(* fits what the month has left after everything approved and not yet spent,    *)
(* and the settled cash of a snapshot no older than a quote may be.             *)
PromotedWithinMeans ==
  [][\A p \in Promoters :
       todo[p] = <<>> /\ todo'[p] # <<>> =>
         \A i \in DOMAIN todo'[p] :
           /\ todo'[p][i].leg.usd + Reserved <= remaining
           /\ gathered # None /\ todo'[p][i].leg.usd <= gathered.cash
           /\ clock - gathered.asOf \in 0 .. MaxQuoteAge]_vars
=============================================================================
