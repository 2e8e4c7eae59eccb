--------------------------- MODULE MCLedgerConvert ---------------------------
(* Ledgers and command lines for the TLC run of LedgerConvert.             *)
EXTENDS LedgerConvert

CONSTANTS transfer, call, Fee, Log,   \* Log: what an operation or the host logs
          Odd,                        \* an event that does not marshal
          genesis, first, second      \* hashes of ledgers

HashesMC == {transfer, call}
EventMC == {Fee, Log, Odd}
OpaqueMC == {Odd}
IdsMC == {genesis, first, second}

\* Two operations, none with events of its own.
Payment(h) ==
  [hash |-> h, ok |-> TRUE, metrics |-> FALSE, diagnostic |-> <<>>, fees |-> <<Fee>>,
   operations |-> <<<<>>, <<>>>>, readable |-> TRUE, broken |-> FALSE]

\* A contract call, which failed.
Call(h) ==
  [Payment(h) EXCEPT !.ok = FALSE, !.metrics = TRUE, !.diagnostic = <<Log, Odd>>,
                     !.operations = <<Nil, <<Odd, Log>>, <<Odd>>>>]

Unreadable(h) == [Call(h) EXCEPT !.readable = FALSE]
Broken(h) == [Payment(h) EXCEPT !.broken = TRUE]

\* An empty ledger, and one of at most two transactions.
ChainsMC ==
  {<<[hash |-> first, previous |-> genesis, closeTime |-> 5, txs |-> <<>>],
     [hash |-> second, previous |-> first, closeTime |-> 10, txs |-> s]>> :
     s \in {<<>>, <<Call(transfer)>>}
             \union {<<a, b>> : a \in {Payment(transfer), Unreadable(transfer)},
                                b \in {Call(call), Broken(call)}}}

Given(name, phrase) == [named |-> TRUE, network |-> name, override |-> phrase]

OptionsMC ==
  {Given("mainnet", Unset), Given("testnet", Unset), Given("custom", Public),
   Given("mainnet", Private), [Given("mainnet", Unset) EXCEPT !.named = FALSE]}
=============================================================================
