----------------------------- MODULE Guardrails -----------------------------
(* src/guardrails.py: the deterministic rules every decision passes before it *)
(* is logged, and again before a human may approve it. Each check yields the  *)
(* set of violation codes it raises; a decision is valid when there is none.  *)
(*                                                                            *)
(* A decision's prose is kept only as far as a rule reads it: `marks` are the *)
(* things it carries that a rule objects to, `gaps` the parts that are absent *)
(* or too thin, `garbled` the fields that do not parse. What it states is a   *)
(* field of its own, None when it is absent.                                  *)
EXTENDS MarketCalendar, Money

CONSTANTS
  MinEquityOrder,      \* MIN_EQUITY_ORDER_USD, and the penny-stock floor
  MinHorizon,          \* config.json min_investment_horizon_months
  Allow,               \* the allow_* switches of config.json that are on
  EquityTickers, PairSymbols,    \* what the two symbol patterns match
  ThemeOf,             \* THEME_TAXONOMY: subtheme -> broad theme
  Mandatory, Waivable  \* components of a research package, by asset type

ASSUME GuardrailConstants ==
  /\ MinEquityOrder \in Nat \ {0} /\ MinHorizon \in Nat \ {0}
  /\ Allow \subseteq {"selling", "options", "margin", "shorting", "crypto",
                      "leveraged", "inverse", "transfers"}
  /\ EquityTickers \cap PairSymbols = {}

When(bad, code) == IF bad THEN {code} ELSE {}
Stated(d, part) == part \notin d.gaps
HalfOf(n) == IF n % 2 = 0 THEN n \div 2 ELSE (n \div 2) + ((n \div 2) % 2)

AllowedTypes == {"us_common_stock", "us_etf", "crypto"}
ClassForType == [us_common_stock |-> "EQUITY", us_etf |-> "ETF", crypto |-> "CRYPTO"]
ForbiddenTypes ==
  [option |-> "OPTIONS_FORBIDDEN", future |-> "FUTURES_FORBIDDEN",
   leveraged_etf |-> "LEVERAGED_PRODUCT_FORBIDDEN",
   inverse_etf |-> "INVERSE_PRODUCT_FORBIDDEN", otc_stock |-> "OTC_FORBIDDEN"]
ForbiddenSides ==
  [sell |-> "SELL_FORBIDDEN", short |-> "SHORT_FORBIDDEN", buy_to_cover |-> "SHORT_FORBIDDEN"]
ForbiddenActions ==
  [sell |-> "SELL_FORBIDDEN", transfer |-> "TRANSFER_FORBIDDEN",
   account_upgrade |-> "SETTINGS_CHANGE_FORBIDDEN"]
MajorExchanges == {"NYSE", "NASDAQ", "NYSEARCA"}
BuyableClassifications == {"PROMISING", "ADD_CANDIDATE"}
ValidClassifications == BuyableClassifications \cup {"WATCH", "RESEARCH_INCOMPLETE"}
WaitBuckets == {"existing_equity", "new_equity", "existing_crypto", "new_crypto"}
CryptoBuckets == {"existing_crypto", "new_crypto"}
ValidWaitBases == {"VALUATION", "RESEARCH_INCOMPLETE", "AWAITING_INFORMATION"}
MinPrimarySources == 2
MidMonthDay == 15

(* --- normalization -------------------------------------------------------- *)

(* What does not parse is replaced by what its absence would mean, and noted. *)
(* A version 1 is_crypto flag sets a class that was not stated.               *)
Normalized(raw) ==
  LET legacy == "is_crypto" \in raw.marks /\ raw.assetClass = None
      Unread(field, absent) == IF field \in raw.garbled THEN absent ELSE raw[field]
  IN [raw EXCEPT !.assetClass = IF legacy THEN "CRYPTO" ELSE @,
                 !.assetType = IF legacy /\ @ = None THEN "crypto" ELSE @,
                 !.amount = Unread("amount", 0),
                 !.price = Unread("price", None),
                 !.horizon = Unread("horizon", None)]

(* Mutant: what does not parse is taken as absent, silently. *)
ParseSilently(raw) == {}
ParseViolations(raw) ==
  When("horizon" \in raw.garbled \/ "price" \in raw.garbled, "MALFORMED_NUMBER")
    \cup When("amount" \in raw.garbled, "MALFORMED_AMOUNT")
    \cup When("flag" \in raw.garbled, "MALFORMED_FLAG")

IsCrypto(d) == d.assetClass = "CRYPTO" \/ d.assetType = "crypto"

(* --- prohibitions that apply to every decision ---------------------------- *)

CheckProhibited(d) ==
  LET Has(marks) == d.marks \cap marks # {}
      described == IF IsCrypto(d) THEN {} ELSE d.marks
      Looks(marks) == described \cap marks # {}
      Tabled(table, key) == IF key \in DOMAIN table THEN {table[key]} ELSE {}
      exempt == When("options" \in Allow, "OPTIONS_FORBIDDEN")
                  \cup When("leveraged" \in Allow, "LEVERAGED_PRODUCT_FORBIDDEN")
                  \cup When("inverse" \in Allow, "INVERSE_PRODUCT_FORBIDDEN")
  IN UNION {
       Tabled(ForbiddenActions, d.action),
       Tabled(ForbiddenSides, d.side),
       When("selling" \notin Allow /\ (d.decision = "SELL" \/ Has({"is_sell"})),
            "SELL_FORBIDDEN"),
       When("options" \notin Allow /\ (Has({"uses_options"}) \/ Looks({"option_words"})),
            "OPTIONS_FORBIDDEN"),
       When(Has({"strike_price"}), "OPTIONS_FORBIDDEN"),
       When("margin" \notin Allow /\ Has({"uses_margin"}), "MARGIN_FORBIDDEN"),
       When(Has({"account_usage"}), "MARGIN_FORBIDDEN"),
       When("shorting" \notin Allow /\ Has({"is_short"}), "SHORT_FORBIDDEN"),
       When("transfers" \notin Allow /\ Has({"is_transfer"}), "TRANSFER_FORBIDDEN"),
       When("leveraged" \notin Allow
              /\ (Has({"is_leveraged"}) \/ Looks({"known_leveraged", "leverage_words"})),
            "LEVERAGED_PRODUCT_FORBIDDEN"),
       When("inverse" \notin Allow /\ (Has({"is_inverse"}) \/ Looks({"inverse_words"})),
            "INVERSE_PRODUCT_FORBIDDEN"),
       When(Has({"is_otc"}), "OTC_FORBIDDEN"),
       Tabled(ForbiddenTypes, d.assetType) \ exempt}

(* Nothing may approve itself, and a lesson may authorise nothing.            *)
CheckSelfApproval(d) == When("approved" \in d.marks, "SELF_APPROVAL_ATTEMPTED")
CheckLessons(d) ==
  When(d.marks \cap {"lesson_field", "overreach"} # {}, "LESSON_MISUSED_AS_AUTHORIZATION")
    \cup When(Stated(d, "research_package")
                /\ \E key \in DOMAIN d.research : d.research[key] = "lesson",
              "LESSON_CANNOT_SATISFY_RESEARCH")

(* --- rules of the asset class --------------------------------------------- *)

CheckEquity(d) ==
  UNION {
    When(d.ticker = None, "MISSING_TICKER"),
    When(d.ticker # None /\ d.ticker \notin EquityTickers, "MALFORMED_TICKER"),
    When(d.exchange # None /\ d.exchange \notin MajorExchanges, "OTC_FORBIDDEN"),
    IF d.price = None THEN {}
    ELSE When(d.price <= 0, "MALFORMED_NUMBER")
           \cup When(d.price \in 1 .. MinEquityOrder - 1, "PENNY_STOCK_FORBIDDEN")
           \cup When(d.price > 0 /\ d.amount \in 1 .. d.price - 1 /\ d.fractional = FALSE,
                     "FRACTIONAL_NOT_ELIGIBLE")}

(* The universe is None when its snapshot cannot be loaded. A pair's record   *)
(* is [tradable, individual, displayOnly, halted, minSize]; units bought are  *)
(* amount / price. The first four failures end the check.                     *)
PairRules(d, pair) ==
  UNION {
    When(~pair.tradable \/ ~pair.individual \/ pair.displayOnly, "CRYPTO_PAIR_NOT_TRADABLE"),
    When(pair.halted, "CRYPTO_PAIR_HALTED"),
    IF d.price = None THEN {}
    ELSE When(d.price <= 0, "MALFORMED_NUMBER")
           \cup When(d.price > 0 /\ pair.minSize # None /\ d.amount > 0
                       /\ d.amount < pair.minSize * d.price,
                     "CRYPTO_BELOW_MIN_ORDER_SIZE"),
    When(d.exchange # None, "CRYPTO_FIELD_MISMATCH")}

CheckCrypto(d, universe) ==
  CASE "crypto" \notin Allow -> {"CRYPTO_FORBIDDEN"}
    [] "crypto" \in Allow /\ d.ticker = None -> {"MISSING_TICKER"}
    [] "crypto" \in Allow /\ d.ticker # None ->
         IF d.ticker \notin PairSymbols THEN {"MALFORMED_CRYPTO_PAIR"}
         ELSE IF universe = None THEN {"CRYPTO_UNIVERSE_UNAVAILABLE"}
         ELSE IF d.ticker \notin DOMAIN universe THEN {"CRYPTO_PAIR_NOT_SUPPORTED"}
         ELSE PairRules(d, universe[d.ticker])

(* --- rules common to every purchase --------------------------------------- *)

Remaining(ledger) == ledger.authorized - ledger.committed

CheckReportedBudget(d, ledger) ==
  IF "before" \in d.garbled THEN {"MALFORMED_NUMBER"}
  ELSE When(d.before # None /\ d.before # Remaining(ledger), "BUDGET_MISREPORTED")
         \cup IF "after" \in d.garbled THEN {"MALFORMED_NUMBER"}
              ELSE IF d.after = None THEN {}
              ELSE When(d.after # Remaining(ledger) - d.amount, "BUDGET_MISREPORTED")
                     \cup When(d.after < 0, "EXCEEDS_REMAINING_BUDGET")

CheckAmount(d, budget, ledger) ==
  UNION {
    When(d.amount = 0, "ZERO_AMOUNT"),
    When(d.amount < 0, "NEGATIVE_AMOUNT"),
    When("sub_cent" \in d.marks, "SUB_CENT_AMOUNT"),
    When(d.amount > 0 /\ d.amount > budget, "EXCEEDS_MONTHLY_BUDGET"),
    When(d.amount > 0 /\ d.amount > Remaining(ledger), "EXCEEDS_REMAINING_BUDGET"),
    When(d.amount > 0 /\ ledger.committed + d.amount > ledger.authorized,
         "EXCEEDS_CUMULATIVE_MONTHLY_BUDGET"),
    When(d.amount \in 1 .. MinEquityOrder - 1 /\ ~IsCrypto(d), "BELOW_BROKER_MINIMUM")}

CheckAsset(d) ==
  UNION {
    When(d.assetType = None, "MISSING_ASSET_TYPE"),
    When(d.assetType \notin AllowedTypes \cup {None} \cup DOMAIN ForbiddenTypes,
         "ASSET_TYPE_NOT_ALLOWED"),
    When(d.assetClass = None, "MISSING_ASSET_CLASS"),
    When(d.assetClass \notin {"EQUITY", "ETF", "CRYPTO", None}, "INVALID_ASSET_CLASS"),
    When(d.assetClass \in {"EQUITY", "ETF", "CRYPTO"} /\ d.assetType \in AllowedTypes
           /\ d.assetClass # ClassForType[d.assetType], "ASSET_CLASS_MISMATCH")}

(* Spending today forfeits acting later in the month: the count of days and   *)
(* sessions reported must be right, and going past half the authorization     *)
(* before mid-month needs its own analysis. Mid-month is judged on UTC's day. *)
CheckOptionality(d, ledger, now) ==
  When(~Stated(d, "optionality"), "MISSING_OPTIONALITY_ANALYSIS")
    \cup When(/\ Stated(d, "optionality")
              /\ \/ d.days # None /\ d.days # DaysRemainingInMonth(now)
                 \/ d.sessions # None /\ d.sessions # TradableSessionsRemaining(now),
              "OPTIONALITY_MISREPORTED")
    \cup When(/\ d.amount > 0
              /\ ledger.committed + d.amount > HalfOf(ledger.authorized)
              /\ DayOf(UtcDate(now)) < MidMonthDay
              /\ ~Stated(d, "optionality_analysis"),
              "MISSING_OPTIONALITY_ANALYSIS")

(* A position addresses a subtheme, and says what it leaves out.              *)
CheckTheme(d) ==
  IF ~Stated(d, "theme") THEN {"MISSING_REQUIRED_FIELD"}
  ELSE IF d.subtheme # None /\ d.subtheme \notin DOMAIN ThemeOf
  THEN {"INVALID_THEME"}
         \cup When(d.theme = None \/ ~Stated(d, "scope_caveat"), "MISSING_REQUIRED_FIELD")
  ELSE When(d.subtheme = None \/ d.theme = None \/ ~Stated(d, "scope_caveat"),
            "MISSING_REQUIRED_FIELD")
         \cup When(d.subtheme # None /\ d.theme # None /\ d.theme # ThemeOf[d.subtheme],
                   "THEME_MISMATCH")

(* --- adding to a holding, and opening a new one --------------------------- *)

(* Which way a purchase moves the average cost is arithmetic, not opinion.    *)
CheckCostBasis(d) ==
  IF ~Stated(d, "cost_basis") THEN {"MISSING_COST_BASIS_ANALYSIS"}
  ELSE When(d.average = None \/ d.direction = None, "MISSING_COST_BASIS_ANALYSIS")
    \cup IF d.direction \notin {"RAISES", "LOWERS", "NEUTRAL", None}
         THEN {"INVALID_COST_BASIS_DIRECTION"}
         ELSE IF d.average = None \/ d.price = None THEN {}
         ELSE IF "average" \in d.garbled \/ d.average <= 0 THEN {"MALFORMED_NUMBER"}
         ELSE LET expected == IF d.price > d.average THEN "RAISES"
                              ELSE IF d.price < d.average THEN "LOWERS" ELSE "NEUTRAL"
              IN When(d.direction \notin {expected, None}, "COST_BASIS_DIRECTION_WRONG")

(* It must name a holding, other than itself, that it was compared with.      *)
CheckNewPosition(d) ==
  When(~Stated(d, "hurdle") \/ d.alternative \in {None, d.ticker},
       "MISSING_NEW_POSITION_JUSTIFICATION")

(* A research package maps components to "found", "unavailable" with a real   *)
(* reason, "scope_excuse", the broker not publishing it, or "lesson"; silence *)
(* is absence from the domain.                                                *)
CheckResearch(d) ==
  IF d.assetType \notin AllowedTypes THEN {}
  ELSE IF ~Stated(d, "research_package") THEN {"RESEARCH_INCOMPLETE_FOR_NEW_POSITION"}
  ELSE LET components == Mandatory[d.assetType] \cup Waivable[d.assetType]
           answered == components \cap DOMAIN d.research
           waived == {c \in answered : d.research[c] \in {"unavailable", "scope_excuse"}}
       IN When(answered # components \/ waived \cap Mandatory[d.assetType] # {},
               "RESEARCH_INCOMPLETE_FOR_NEW_POSITION")
            \cup When(IsCrypto(d) /\ \E c \in waived : d.research[c] = "scope_excuse",
                      "RESEARCH_GAP_NOT_JUSTIFIED")

(* Only a list of evidence is counted; prose in its place is not examined.    *)
CheckPrimarySources(d) ==
  When("evidence_list" \notin d.gaps /\ d.sources < MinPrimarySources,
       "INSUFFICIENT_PRIMARY_SOURCES")

CheckBuyCommon(d, budget, ledger, now) ==
  UNION {
    When(d.side # "buy" \/ d.action \notin {"buy", None}, "NOT_EXPLICIT_BUY"),
    CheckAmount(d, budget, ledger),
    CheckAsset(d),
    When(d.position = None, "MISSING_POSITION_TYPE"),
    When(d.position \notin {"EXISTING_POSITION", "NEW_POSITION", None},
         "INVALID_POSITION_TYPE"),
    When(d.horizon = None \/ d.classification = None \/ ~Stated(d, "narrative"),
         "MISSING_REQUIRED_FIELD"),
    IF d.horizon = None THEN {} ELSE When(d.horizon < MinHorizon, "HORIZON_TOO_SHORT"),
    When(d.classification \notin ValidClassifications \cup {None}, "INVALID_CLASSIFICATION"),
    When(d.classification \in ValidClassifications \ BuyableClassifications,
         "CLASSIFICATION_CONTRADICTS_BUY"),
    CheckReportedBudget(d, ledger),
    CheckOptionality(d, ledger, now),
    When(~Stated(d, "sprawl"), "MISSING_SPRAWL_ASSESSMENT"),
    CheckTheme(d),
    IF d.position = "EXISTING_POSITION" THEN CheckCostBasis(d) ELSE {},
    IF d.position = "NEW_POSITION"
    THEN CheckNewPosition(d) \cup CheckResearch(d) \cup CheckPrimarySources(d) ELSE {}}

(* --- the month's boundary ------------------------------------------------- *)

(* An event is [date, class, afterClose, declared]; it is judged against the  *)
(* month of UTC's date.                                                       *)
JudgedEvent(e) == e.date # None /\ e.class \in {"EQUITY", "ETF", "CRYPTO"}
InReach(e, now) == ActionableThisMonth(e.date, e.class, e.afterClose, UtcDate(now))
EventViolations(e, now) ==
  UNION {
    When(e.date = None \/ e.declared = None, "MISSING_EVENT_ACTIONABILITY"),
    When(e.date = None, "MALFORMED_EVENT_DATE"),
    When(e.date # None /\ ~JudgedEvent(e), "INVALID_EVENT_ASSET_CLASS"),
    IF JudgedEvent(e) /\ e.declared # None
    THEN When(e.declared # InReach(e, now), "EVENT_ACTIONABILITY_MISREPORTED") ELSE {}}

(* A list that is none ("event_list") is not read further; of one with an     *)
(* entry that is no event ("event") the rest is.                              *)
CheckEvents(d, now) ==
  When(d.garbled \cap {"event_list", "event"} # {}, "MALFORMED_EVENT_LIST")
    \cup IF "event_list" \in d.garbled THEN {}
         ELSE IF d.events = None
         THEN When(d.decision = "WAIT" /\ "AWAITING_INFORMATION" \in d.bases,
                   "MISSING_EVENT_ACTIONABILITY")
         ELSE (UNION {EventViolations(e, now) : e \in d.events})
                \cup When(/\ \E e \in d.events : JudgedEvent(e) /\ ~InReach(e, now)
                          /\ ~Stated(d, "expiry_acknowledged"),
                          "UNACKNOWLEDGED_AUTHORIZATION_EXPIRY")

(* --- waiting -------------------------------------------------------------- *)

(* A bucket holds a "candidate" and why not, a "bare_candidate" without, is   *)
(* "not_applicable" with a reason or "bare_not_applicable" without, or is     *)
(* written off on what the broker publishes: "scope_excuse".                  *)
CheckWait(d, ledger) ==
  UNION {
    When(d.amount # 0, "WAIT_WITH_AMOUNT"),
    When(d.bases = {} \/ ~Stated(d, "narrative"), "MISSING_REQUIRED_FIELD"),
    When(~(d.bases \subseteq ValidWaitBases), "INVALID_WAIT_BASIS"),
    When(\/ WaitBuckets \ DOMAIN d.buckets # {}
         \/ \E b \in WaitBuckets \cap DOMAIN d.buckets :
              d.buckets[b] \in {"bare_candidate", "bare_not_applicable"},
         "MISSING_CAPITAL_USE_COMPARISON"),
    When(\E b \in CryptoBuckets \cap DOMAIN d.buckets : d.buckets[b] = "scope_excuse",
         "RESEARCH_GAP_NOT_JUSTIFIED"),
    LET reported == IF d.remaining # None THEN d.remaining ELSE d.before
    IN IF "remaining" \in d.garbled THEN {"MALFORMED_NUMBER"}
       ELSE IF reported = None THEN {"MISSING_REQUIRED_FIELD"}
       ELSE When(reported # Remaining(ledger), "BUDGET_MISREPORTED")}

(* --- the entry point ------------------------------------------------------ *)

Validate(raw, budget, ledger, universe, now) ==
  LET d == Normalized(raw)
  IN UNION {
       ParseViolations(raw), CheckSelfApproval(d), CheckProhibited(d), CheckLessons(d),
       CheckEvents(d, now),
       When(d.id = None, "MISSING_DECISION_ID"),
       When(d.id \in ledger.acted, "DUPLICATE_DECISION_ID"),
       When(d.decision \notin {"BUY", "WAIT"}, "INVALID_DECISION"),
       When(d.confidence \notin {"LOW", "MEDIUM", "HIGH", None}, "INVALID_CONFIDENCE"),
       CASE d.decision = "BUY" ->
              CheckBuyCommon(d, budget, ledger, now)
                \cup (CASE IsCrypto(d) -> CheckCrypto(d, universe)
                        [] ~IsCrypto(d) /\ (d.assetType \in {"us_common_stock", "us_etf"}
                                              \/ d.assetClass \in {"EQUITY", "ETF"}) ->
                             CheckEquity(d)
                        [] OTHER -> When(d.ticker = None, "MISSING_TICKER"))
         [] d.decision = "WAIT" -> CheckWait(d, ledger)
         [] OTHER -> {}}

Valid(raw, budget, ledger, universe, now) ==
  Validate(raw, budget, ledger, universe, now) = {}
=============================================================================
