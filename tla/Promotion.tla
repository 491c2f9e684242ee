----------------------------- MODULE Promotion -----------------------------
(* src/promotion.py and the checks of scripts/promote_latest_recommendation.  *)
(* py: when a scheduled run's recommendation may become PROPOSED decisions. A *)
(* leg is [ticker, usd, verbs, keys, price, sound], sound standing for        *)
(* guardrails.validate; a payload is [planType, at, source, legs].            *)
EXTENDS Money, Sequences, FiniteSets, Reports

CONSTANTS
  MaxRecommendationAge,   \* MAX_RECOMMENDATION_AGE_HOURS, in the clock's unit
  MaxGatherAge,           \* MAX_PROMOTION_SNAPSHOT_AGE_SECONDS
  MaxQuoteAge,            \* MAX_EQUITY_QUOTE_AGE_SECONDS
  PriceTolerance          \* MAX_EQUITY_SLIPPAGE_PCT, in percent

ASSUME PromotionConstants ==
  {MaxRecommendationAge, MaxGatherAge, MaxQuoteAge, PriceTolerance} \subseteq Nat

SwitchCode ==
  [execution_mode |-> "EXECUTION_MODE_DRY_RUN", agent_enabled |-> "AGENT_DISABLED",
   live_trading |-> "LIVE_TRADING_DISABLED"]
RequiredGateCodes == {SwitchCode[s] : s \in DOMAIN SwitchCode}
ExpectedAtPromotion == RequiredGateCodes \cup {"NOT_APPROVED"}

ForbiddenKeys ==
  {"decision_id", "approved", "approval", "approved_by", "user_approved",
   "execution_state", "fingerprint"}

(* Every verb field the leg sets says BUY, and it sets one. *)
UnambiguousBuy(leg) == leg.verbs = {"BUY"}

ValidRecommendation(payload) ==
  /\ payload.planType \in Decisions \ {"WAIT"}
  /\ payload.at # None /\ payload.source # None
  /\ payload.legs # <<>>
  /\ LegCountFits(payload.planType, payload.legs)
  /\ \A i \in DOMAIN payload.legs :
       LET leg == payload.legs[i]
       IN /\ leg.keys \cap ForbiddenKeys = {}
          /\ UnambiguousBuy(leg)
          /\ leg.usd > 0

(* Mutant: what the digest points at is not looked at. *)
FreshSansPointer(payload, newest, pointer, now) ==
  /\ now - payload.at \in 0 .. MaxRecommendationAge
  /\ newest # None => payload.source = newest

(* Recent, naming the newest audit record, and the one the digest points at:  *)
(* a digest that points at none, as any text may, is not compared.            *)
Fresh(payload, newest, pointer, now) ==
  /\ now - payload.at \in 0 .. MaxRecommendationAge
  /\ newest # None => payload.source = newest
  /\ pointer # None => payload.source = pointer

(* The headline a human read is the thing being promoted. *)
BannerAgrees(digest, payload) ==
  /\ Len(digest.legs) = Len(payload.legs)
  /\ \A i \in DOMAIN payload.legs :
       /\ digest.legs[i].ticker = payload.legs[i].ticker
       /\ digest.legs[i].usd = payload.legs[i].usd

(* A promotion snapshot carries the account's orders and a block per asset,   *)
(* quotes[ticker] = [price, at]; the capital gate's carries neither.          *)
IsPromotionSnapshot(snapshot) == snapshot.orders /\ DOMAIN snapshot.quotes # {}

(* backfill_quote_timestamps: an undated quote is dated by the gather's start. *)
Backfilled(snapshot, started) ==
  [snapshot EXCEPT !.quotes =
     [t \in DOMAIN @ |-> IF @[t].price # None /\ @[t].at = None
                         THEN [@[t] EXCEPT !.at = started] ELSE @[t]]]

(* promotion_refresh_problems finds nothing wrong. *)
GatherUsable(snapshot, written, tickers, now) ==
  /\ snapshot # None
  /\ written
  /\ now - snapshot.asOf \in 0 .. MaxGatherAge
  /\ snapshot.agentic
  /\ snapshot.cash # None
  /\ IsPromotionSnapshot(snapshot)
  /\ \A t \in tickers :
       /\ t \in DOMAIN snapshot.quotes
       /\ snapshot.quotes[t].price # None
       /\ snapshot.quotes[t].at # None

PriceMoved(was, now) ==
  LET move == IF now < was THEN was - now ELSE now - was
  IN 100 * move > PriceTolerance * was

(* preflight with no approval, the decision still PROPOSED: the blocker codes *)
(* for one leg. available is the authorization less what approved siblings    *)
(* reserve; legs of the same plan are not in it.                              *)
(* Mutant: the month is not looked at. *)
MoneyCodesSansMonth(leg, available, snapshot) ==
  IF leg.usd > snapshot.cash THEN {"INSUFFICIENT_SETTLED_CASH"} ELSE {}
MoneyCodes(leg, available, snapshot) ==
  (IF leg.usd > available THEN {"EXCEEDS_RECONCILED_AUTHORIZATION"} ELSE {})
  \cup (IF leg.usd > snapshot.cash THEN {"INSUFFICIENT_SETTLED_CASH"} ELSE {})

QuoteCodes(leg, snapshot, now) ==
  IF leg.ticker \notin DOMAIN snapshot.quotes THEN {"STALE_QUOTE"}
  ELSE LET quote == snapshot.quotes[leg.ticker]
       IN (IF now - quote.at > MaxQuoteAge THEN {"STALE_QUOTE"} ELSE {})
          \cup (IF PriceMoved(leg.price, quote.price)
                THEN {"PRICE_MOVED_BEYOND_TOLERANCE"} ELSE {})

PreflightCodes(leg, open, available, snapshot, now) ==
  {SwitchCode[s] : s \in DOMAIN SwitchCode \ open}
  \cup {"NOT_APPROVED"}
  \cup (IF leg.sound THEN {} ELSE {"REVALIDATION_FAILED"})
  \cup (IF snapshot = None THEN {"BROKER_UNREADABLE"}
        ELSE MoneyCodes(leg, available, snapshot) \cup QuoteCodes(leg, snapshot, now))

(* classify_preflight: the closed switches and the missing approval are       *)
(* expected; a switch's code that is missing means it is open, which blocks.  *)
PromotionBlockers(codes) ==
  (codes \ ExpectedAtPromotion)
  \cup (IF RequiredGateCodes \subseteq codes THEN {} ELSE {"EXECUTION_ENABLED"})

LegPromotable(leg, open, available, snapshot, now) ==
  /\ leg.sound
  /\ PromotionBlockers(PreflightCodes(leg, open, available, snapshot, now)) = {}
=============================================================================
