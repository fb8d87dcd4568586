---------------------------- MODULE MCPriceCache ----------------------------
(* A TLC instance of PriceCache.                                           *)
EXTENDS PriceCache

CONSTANTS p1, p2

Swap == Permutations(Caller)

NoKeys == [p \in Keyed |-> "none"]
OneKey == ResolveKeys(TRUE, NoKeys, [p \in Keyed |-> p = "tiingo"])
Yahoo == [deterministic |-> FALSE, snapshot |-> TRUE, frozenTo |-> 1, dates |-> FALSE,
          key |-> NoKeys, aggregated |-> FALSE, provider |-> "yahoo", alpaca |-> FALSE,
          crypto |-> FALSE, zone |-> 1]     \* a share of New York
Frankfurt == [Yahoo EXCEPT !.zone = -1]
Aggregated == [Yahoo EXCEPT !.aggregated = TRUE, !.key = OneKey]
Golden == [Yahoo EXCEPT !.deterministic = TRUE]
AlphaVantage == [Yahoo EXCEPT !.provider = "alphavantage", !.dates = TRUE,
                              !.key = ResolveKeys(FALSE, NoKeys, [p \in Keyed |-> TRUE])]
AllSettings == {Yahoo, Frankfurt, Aggregated, Golden, AlphaVantage}

SomeWindows == {<<1, 2>>, <<4, 4>>, <<2, NoDay>>, <<NoDay, NoDay>>}
=============================================================================
