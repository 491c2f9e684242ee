--------------------------- MODULE DecisionSchema ---------------------------
(* src/decision_schema.py: the payload a prompt asks an evaluation to file,   *)
(* complete and truthful. Whatever else the model writes departs from it.     *)
EXTENDS Guardrails

(* One real asset of each kind; a crypto leg carries no exchange. *)
Specifics ==
  [equity |-> [type |-> "us_common_stock", class |-> "EQUITY", ticker |-> "SNDK",
               exchange |-> "NASDAQ", price |-> 160919, alternative |-> "MU",
               theme |-> "storage_memory", subtheme |-> "nand_flash_storage", average |-> 92656],
   etf |-> [type |-> "us_etf", class |-> "ETF", ticker |-> "VTI",
            exchange |-> "NYSEARCA", price |-> 30000, alternative |-> "VOO",
            theme |-> "diversified_index", subtheme |-> "broad_us_equity", average |-> 24000],
   crypto |-> [type |-> "crypto", class |-> "CRYPTO", ticker |-> "BTC-USD",
               exchange |-> None, price |-> 400, alternative |-> "ETH-USD",
               theme |-> "crypto", subtheme |-> "store_of_value_crypto", average |-> 300]]

(* What makes them valid rather than plausible: a real ticker, no penny stock, *)
(* a theme of the taxonomy; and 36 months are enough for the configuration.   *)
ASSUME ExampleConstants ==
  /\ MinHorizon <= 36
  /\ \A kind \in DOMAIN Specifics :
       LET s == Specifics[kind]
       IN /\ s.ticker \in IF s.class = "CRYPTO" THEN PairSymbols ELSE EquityTickers
          /\ s.subtheme \in DOMAIN ThemeOf /\ ThemeOf[s.subtheme] = s.theme
          /\ s.class # "CRYPTO" => MinEquityOrder <= s.price
          /\ None \notin {s.type, s.class, s.ticker, s.theme, s.subtheme}
  /\ None \notin {"PROMISING", "EXISTING_POSITION", "NEW_POSITION", "RAISES"}

ResearchPackage(type) == [c \in Mandatory[type] \cup Waivable[type] |-> "found"]

Unfiled ==
  [id |-> None, decision |-> None, action |-> None, side |-> "buy", assetClass |-> None,
   assetType |-> None, position |-> None, classification |-> None, ticker |-> None,
   exchange |-> None, confidence |-> "MEDIUM", horizon |-> None, amount |-> 0, price |-> None,
   fractional |-> None, before |-> None, after |-> None, remaining |-> None, days |-> None,
   sessions |-> None, average |-> None, direction |-> None, theme |-> None, subtheme |-> None,
   alternative |-> None, research |-> <<>>, sources |-> 0, events |-> None, bases |-> {},
   buckets |-> <<>>, marks |-> {}, gaps |-> {}, garbled |-> {}]

(* A purchase of `usd`, reporting the budget as `ledger` has it and the two   *)
(* counts emit_buy_scaffold.py prints. Only a large early one needs `thin` to *)
(* be empty: the template has no analysis of the month's optionality.         *)
BuyLeg(kind, position, id, usd, ledger, now, thin) ==
  LET s == Specifics[kind]
      new == position = "NEW_POSITION"
  IN [Unfiled EXCEPT
       !.id = id, !.decision = "BUY", !.action = "buy", !.assetClass = s.class,
       !.assetType = s.type, !.position = position, !.classification = "PROMISING",
       !.ticker = s.ticker, !.exchange = s.exchange, !.horizon = 36, !.amount = usd,
       !.price = s.price, !.fractional = TRUE, !.before = Remaining(ledger),
       !.after = Remaining(ledger) - usd, !.days = DaysRemainingInMonth(now),
       !.sessions = TradableSessionsRemaining(now),
       !.average = IF new THEN None ELSE s.average,
       !.direction = IF new THEN None ELSE "RAISES",
       !.theme = s.theme, !.subtheme = s.subtheme,
       !.alternative = IF new THEN s.alternative ELSE None,
       !.research = IF new THEN ResearchPackage(s.type) ELSE <<>>,
       !.sources = MinPrimarySources,
       !.events = {},
       !.gaps = thin \cup IF new THEN {"cost_basis"} ELSE {"hurdle", "research_package"}]

WaitDecision(id, ledger) ==
  [Unfiled EXCEPT !.id = id, !.decision = "WAIT", !.bases = {"VALUATION"},
                  !.buckets = [b \in WaitBuckets |-> "candidate"],
                  !.remaining = Remaining(ledger)]
=============================================================================
