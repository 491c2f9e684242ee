--------------------------- MODULE MCBudgetMonth ---------------------------
EXTENDS BudgetMonthSafety, TLC

MCIds == {"d1", "d2"}
MCAsset ==
  [d1 |-> [kind |-> "equity", position |-> "EXISTING_POSITION"],
   d2 |-> [kind |-> "crypto", position |-> "NEW_POSITION"]]

(* Together with each other they exceed a budget of 2000; a thin one lacks    *)
(* the analysis that spending past half of it before mid-month needs. *)
Buys(id, usd, thin, events) == [id |-> id, usd |-> usd, thin |-> thin, events |-> events]
Thin == {"optionality_analysis"}

(* Earnings a week away, and those after the close of the month's last        *)
(* session, too late for it.                                                  *)
Earnings(day, late) ==
  {[date |-> Date(2025, 11, day), class |-> "EQUITY", afterClose |-> late, declared |-> ~late]}
MCProposals ==
  { << Buys("d2", 1500, {}, {}) >>,
    << Buys("d1", 500, {}, Earnings(28, TRUE)) >>,
    << Buys("d1", 1000, {}, Earnings(20, FALSE)), Buys("d2", 1000, {}, {}) >>,
    << Buys("d1", 1000, Thin, {}), Buys("d2", 1000, Thin, {}) >> }

(* 14 November 2025, before noon and in the evening (UTC is a day ahead); the *)
(* month's last evening, when UTC is a month ahead; the next morning. *)
MCMoments ==
  << 24 * Date(2025, 11, 14) + 16, 24 * Date(2025, 11, 15) + 1,
     24 * Date(2025, 12, 1) + 1, 24 * Date(2025, 12, 1) + 15 >>

MCThemeOf ==
  [nand_flash_storage |-> "storage_memory", broad_us_equity |-> "diversified_index",
   store_of_value_crypto |-> "crypto"]
MCMandatory ==
  [us_common_stock |-> {"filings", "price_history"}, us_etf |-> {"holdings"},
   crypto |-> {"protocol", "liquidity"}]
MCWaivable ==
  [us_common_stock |-> {"guidance"}, us_etf |-> {"overlap"}, crypto |-> {"regulation"}]

Pair ==
  [tradable |-> TRUE, individual |-> TRUE, displayOnly |-> FALSE, halted |-> FALSE,
   minSize |-> 1]
MCUniverse ==
  ("BTC-USD" :> Pair) @@ ("ETH-USD" :> [Pair EXCEPT !.tradable = FALSE])
    @@ ("DOGE-USD" :> [Pair EXCEPT !.halted = TRUE])

(* An event on the last session, after its close, or on the Sunday after it.  *)
Boundary ==
  [date : {Date(2025, 11, 28), Date(2025, 11, 30), Date(2025, 12, 1)},
   class : {"EQUITY", "CRYPTO"}, afterClose : BOOLEAN, declared : BOOLEAN]
MCEventFaults ==
  {<<"events", {e}>> : e \in Boundary} \cup {<<"gaps", "expiry_acknowledged">>}
MCFaults ==
  {<<"marks", m>> : m \in {"approved", "is_sell", "uses_options", "option_words",
     "strike_price", "uses_margin", "is_leveraged", "leverage_words", "known_leveraged",
     "inverse_words", "is_otc", "lesson_field", "sub_cent", "is_crypto"}}
  \cup {<<"gaps", g>> : g \in {"theme", "scope_caveat", "optionality", "narrative", "sprawl",
     "cost_basis", "hurdle", "research_package", "evidence_list", "optionality_analysis"}}
  \cup {<<"garbled", f>> : f \in {"amount", "price", "horizon", "before", "after", "flag",
     "event_list", "event"}}
  \cup {<<"amount", n>> : n \in {0, 50, 300, 2600}}
  \cup {<<"price", n>> : n \in {None, 0, 50}}
  \cup {<<"before", 2400>>, <<"after", 2400>>, <<"days", 3>>, <<"sessions", 3>>,
        <<"horizon", 12>>, <<"horizon", None>>, <<"side", "sell">>, <<"action", "transfer">>,
        <<"decision", "SELL">>, <<"decision", "WAIT">>, <<"confidence", "CERTAIN">>, <<"id", None>>,
        <<"classification", "WATCH">>, <<"position", None>>,
        <<"assetClass", None>>, <<"assetClass", "CRYPTO">>, <<"assetClass", "ETF">>,
        <<"assetType", None>>, <<"assetType", "option">>, <<"assetType", "us_etf">>,
        <<"ticker", None>>, <<"ticker", "ETH-USD">>, <<"ticker", "sndk">>,
        <<"exchange", "OTC">>, <<"exchange", None>>, <<"fractional", FALSE>>,
        <<"direction", "LOWERS">>, <<"average", None>>, <<"average", 200000>>,
        <<"garbled", "average">>, <<"alternative", None>>, <<"alternative", "SNDK">>,
        <<"subtheme", "unheard_of">>, <<"subtheme", "broad_us_equity">>,
        <<"theme", "diversified_index">>, <<"sources", 1>>,
        <<"research", <<>>>>}
=============================================================================
