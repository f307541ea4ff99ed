---------------------------- MODULE MCOrderStore ----------------------------
(* Instances of OrderStore for TLC. *)
EXTENDS OrderStore, TLC

Ask(symbol, side, price, qty, key) ==
  [symbol |-> symbol, side |-> side, price |-> price, qty |-> qty, key |-> key]

Keyed == Ask("BTC", "BUY", 1, 2, "k")
Unkeyed == Ask("BTC", "BUY", 1, 2, NoKey)

\* Whitespace-only symbol: validated, stored, refused by the outbox event.
Blank == Ask(" ", "SELL", 1, 2, "k")

\* The sides of an unspecified enum value, a zero price and a zero quantity.
Invalid == {Ask("BTC", "", 1, 2, NoKey), Ask("BTC", "BUY", 0, 2, NoKey),
            Ask("BTC", "BUY", 1, 0, NoKey), Ask("", "BUY", 1, 2, NoKey)}

OneKey == {Keyed}
RaceTerms == {Keyed, Unkeyed, Blank}
RetryTerms == {Keyed, Unkeyed, Blank, Ask("ETH", "SELL", 1, 1, "k"),
                Ask("ETH", "SELL", 1, 1, NoKey),
                Ask("BTC", "BUY", 1, 2, "k2")} \union Invalid
FillTerms == {Ask("BTC", "BUY", 1, 3, NoKey), Blank}

Symmetry == Permutations(Creators) \union Permutations(Cancelers)
              \union Permutations(Fillers)
=============================================================================
