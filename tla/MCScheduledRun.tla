-------------------------- MODULE MCScheduledRun ---------------------------
EXTENDS ScheduledRunSafety

MCRunners == {1, 2}

(* Windows in half days: 12 h, 72 h, 20 days, 6 h (rounded up). *)
MCReminderWindow ==
  [kind \in NOTIFICATION_KINDS |->
     CASE kind = "FUNDING_REQUIRED" -> 6
       [] kind = "MONTH_END_FUNDING" -> 40
       [] OTHER -> 1]

Leg(ticker) ==
  [ticker |-> ticker, usd |-> IF ticker = "B" THEN 2 ELSE 1,
   verbs |-> {"BUY"}, keys |-> {}, price |-> 10, sound |-> TRUE]
Unsound(ticker) == [Leg(ticker) EXCEPT !.sound = FALSE]

Digest(decision, legs) ==
  [decision |-> decision, headline |-> IF legs = <<>> THEN "NONE" ELSE "BUY",
   legs |-> legs, pointer |-> "own", states |-> DigestElements, words |-> WordFloor,
   rows |-> 0, overstated |-> FALSE]
Unpointed(digest_) == [digest_ EXCEPT !.pointer = None]
Report(decision) == [decision |-> decision, whole |-> TRUE]
Payload(plan, legs) == [planType |-> plan, legs |-> legs, source |-> "own"]
Output(report, digest_, payload, stray) ==
  [report |-> report, digest |-> digest_, payload |-> payload, stray |-> stray,
   ok |-> payload = None \/ digest_ # None]

A == <<Leg("A")>>
B == <<Leg("B")>>
AB == <<Leg("A"), Leg("B")>>
AC == <<Leg("A"), Unsound("C")>>

(* A plan whose digest points at no audit record; a plan whose second leg the *)
(* guardrails refuse, with a write to the ledger; a purchase announced as     *)
(* another, with a forged snapshot; a purchase without a digest, and one with *)
(* no audit record either, which names another run's, by processes that then  *)
(* fail; a WAIT that shortens a note; a report without a decision, that guts  *)
(* one.                                                                       *)
MCOutputs ==
  { Output(Report("SPLIT_BUY_PLAN"), Unpointed(Digest("SPLIT_BUY_PLAN", AB)),
           Payload("SPLIT_BUY_PLAN", AB), None),
    Output(Report("SPLIT_BUY_PLAN"), Digest("SPLIT_BUY_PLAN", AC),
           Payload("SPLIT_BUY_PLAN", AC), "budget"),
    Output(Report("SINGLE_BUY"), Digest("SINGLE_BUY", A), Payload("SINGLE_BUY", B), "cash"),
    Output(Report("SINGLE_BUY"), None, Payload("SINGLE_BUY", A), None),
    Output(None, None, [Payload("SINGLE_BUY", A) EXCEPT !.source = "another"], None),
    Output(Report("WAIT"), Digest("WAIT", <<>>), None, "trims"),
    Output(Report(None), None, None, "guts") }
=============================================================================
