-------------------------- MODULE MCCompareFetcher --------------------------
(* Blocks for the TLC run of CompareFetcher.                               *)
EXTENDS CompareFetcher

CONSTANTS transfer, call, Fee, Log

HashesMC == {transfer, call}
ListsMC == {Empty, Fee, Log}

Tx(h, order, core, groups) ==
  [hash |-> h, order |-> order, core |-> core,
   events |-> [diagnostic |-> Empty, fees |-> Fee, groups |-> groups]]

Diagnosed(tx) == [tx EXCEPT !.events.diagnostic = Log]

Made(head, txs) == [head |-> head, aside |-> 0, txs |-> txs]

Pay(i) == Tx(transfer, i, 1, <<Empty>>)
Invoke(i) == Tx(call, i, 1, <<Log>>)

Nothing == Made(1, <<>>)
Both == Made(1, <<Pay(1), Invoke(2)>>)
BothClean == Made(1, <<Tx(transfer, 1, 1, <<>>), Invoke(2)>>)
Swapped == Made(1, <<Invoke(1), Pay(2)>>)
OneOnly == Made(1, <<Invoke(1)>>)
Measured == Made(1, <<Diagnosed(Pay(1)), Diagnosed(Invoke(2))>>)
Silent == Made(1, <<[Pay(1) EXCEPT !.events = NoEvents], Invoke(2)>>)
OtherHead == Made(2, <<Pay(1), Invoke(2)>>)
OtherLib == [Both EXCEPT !.aside = 1]
Failed == Made(1, <<Tx(transfer, 1, 2, <<>>), Invoke(2)>>)

RpcBodiesMC == {Nothing, Both, BothClean, Swapped, OneOnly}
StoredBodiesMC == {Nothing, Both, Measured, Swapped, OneOnly, Silent, OtherHead, OtherLib, Failed}
=============================================================================
