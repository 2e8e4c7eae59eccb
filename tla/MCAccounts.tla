----------------------------- MODULE MCAccounts -----------------------------
(* Command lines for the TLC runs of Accounts.                             *)
EXTENDS Accounts

CONSTANTS alice, bob, dan, issuer   \* bob and dan do not exist yet

AccountsMC == {alice, bob, dan, issuer}
FundedMC == {alice, issuer}

\* An asset is issued to bob, and sent to him, while he is funded and its
\* issuer pays alice; a test expects that the issuer cannot pay bob; an
\* account is made for dan.
ToolsMC == {"fund", "issue", "pay", "asset", "ops", "expect", "create"}
KindMC == [t \in ToolsMC |-> IF t = "pay" THEN "payment" ELSE t]
SourceMC == [t \in ToolsMC |-> issuer]
DestMC == [t \in ToolsMC |->
            CASE t \in {"pay", "ops"} -> alice [] t = "create" -> dan [] OTHER -> bob]
DoubleMC == [t \in ToolsMC |-> t \in {"pay", "asset"}]

\* A test that expects a failure, and one that uses the same account.
TestTools == {"ops", "expect", "create"}
TestKind == [t \in TestTools |-> t]
TestSource == [t \in TestTools |-> alice]
TestDest == [t \in TestTools |-> IF t = "create" THEN bob ELSE issuer]
TestDouble == [t \in TestTools |-> FALSE]
=============================================================================
