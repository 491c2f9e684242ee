------------------------------ MODULE Reports ------------------------------
(* src/reporting.py and the checks of scripts/record_scheduled_run.py: the    *)
(* audit record of a run, the daily digest reports/latest.md, its ACTION      *)
(* banner, and the discovery report. A document is what the checks read in    *)
(* it: its decision, its headline, the required elements it states, its size, *)
(* and the audit record its text points at, if it points at one at all.       *)
EXTENDS Money, Sequences

Decisions == {"WAIT", "SINGLE_BUY", "SPLIT_BUY_PLAN"}
MinPlanLegs == 2
MaxPlanLegs == 5

(* What a digest must state whatever its length. *)
DigestElements ==
  {"sections", "remaining", "switches", "five_way", "allocation", "confidence",
   "watching", "triggers", "research_pointer", "banner_fields"}
WordFloor == 250
WordCeiling == 1500
MaxTableRows == 40

(* The absence of a banner is not the word NONE.                              *)
ASSUME NoneIsNoBanner == None \notin {"BUY", "NONE"}

(* parse_action_banner: an ACTION line is a BUY with legs, NONE, or neither.  *)
BannerKind(digest) ==
  IF digest.headline = "BUY" /\ digest.legs # <<>> THEN "BUY"
  ELSE IF digest.headline = "NONE" THEN "NONE" ELSE None

LegCountFits(decision, legs) ==
  CASE decision = "SINGLE_BUY" -> Len(legs) = 1
    [] decision = "SPLIT_BUY_PLAN" -> Len(legs) \in MinPlanLegs .. MaxPlanLegs
    [] OTHER -> TRUE

(* check_action_banner: the headline answers, agrees with the decision, and   *)
(* never claims an approval or a submission.                                  *)
BannerValid(digest) ==
  /\ BannerKind(digest) # None
  /\ digest.decision = "WAIT" => BannerKind(digest) = "NONE"
  /\ digest.decision \in Decisions \ {"WAIT"} =>
       BannerKind(digest) = "BUY" /\ LegCountFits(digest.decision, digest.legs)
  /\ ~digest.overstated

DigestValid(digest) ==
  /\ BannerValid(digest)
  /\ digest.decision # None
  /\ DigestElements \subseteq digest.states
  /\ digest.pointer # None
  /\ digest.words \in WordFloor .. WordCeiling
  /\ digest.rows <= MaxTableRows

(* derive_digest: the extract made when reports/latest.md does not exist. It  *)
(* announces no purchase; for a BUY the headline says to review instead. It   *)
(* restates the authorization only when the audit record stated it.           *)
DerivedDigest(report, run) ==
  [run |-> run, pointer |-> run,
   decision |-> IF report.decision = None THEN "WAIT" ELSE report.decision,
   headline |-> IF report.decision \in {None, "WAIT"} THEN "NONE" ELSE "REVIEW",
   legs |-> <<>>,
   states |-> IF report.whole THEN DigestElements ELSE DigestElements \ {"remaining"},
   words |-> WordFloor, rows |-> 0, overstated |-> FALSE]

(* check_detail_report *)
ReportValid(report) == report # None /\ report.decision # None /\ report.whole

(* check_recommendation, before the payload's own shape: a BUY leaves a       *)
(* payload, anything else leaves none.                                        *)
PayloadExpected(decision, payload) ==
  (decision \in Decisions \ {"WAIT"}) <=> (payload # None)

(* validate_discovery_report: it covers its sections and proposes nothing. *)
DiscoveryValid(report) == report # None /\ report.whole /\ report.decision = None
=============================================================================
