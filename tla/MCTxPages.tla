------------------------------ MODULE MCTxPages ------------------------------
(* Endpoints and ledgers for the TLC run of RpcFetch and TxPages.          *)
EXTENDS TxPages

CONSTANTS e1, e2

TwoEndpoints == {e1, e2}

\* Failing calls alternate between the endpoints.
Alternate == [e \in TwoEndpoints |-> IF e = e1 THEN e2 ELSE e1]

\* Ledger 1 has two transactions, a full page, and ledger 2 has three.
BeforeMC == <<0, 2, 5>>
=============================================================================
