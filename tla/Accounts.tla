------------------------------ MODULE Accounts ------------------------------
(***************************************************************************)
(* The tools that change the Stellar network: the commands                 *)
(* tool-send-payment, tool-send-payment-asset, tool-issue-asset and        *)
(* tool-create-account, and the battlefield client's SubmitOps,            *)
(* SubmitOpsExpectFail and FundAccount (test/lib/stellar/client.go).  Each *)
(* reads the sequence numbers of accounts, and later submits transactions  *)
(* made with them; several run at a time, and a tool that failed is run    *)
(* again.                                                                  *)
(*                                                                         *)
(* A step of a tool is one exchange with Horizon or friendbot.  These and  *)
(* the network are external, modelled from how the tools use them: a       *)
(* transaction is accepted when its sequence number is the next one of its *)
(* source, applied later, and told apart by its content: submitting the    *)
(* same one twice is submitting it once.                                   *)
(***************************************************************************)
EXTENDS Integers, Sequences, FiniteSets

CONSTANTS
  Tools,        \* command lines that are run
  Kind,         \* Kind[t]: what t runs
  Source,       \* Source[t]: the source account, or the issuer
  Dest,         \* Dest[t]: the destination, the distributor, or whom to fund
  Double,       \* Double[t]: --double-send
  Accounts,
  Funded,       \* accounts that exist in the beginning
  maxAttempts,  \* of FundAccount, 15 in the code
  MaxRuns       \* bound: runs of all of them

Kinds == {"payment", "asset", "issue", "ops", "expect", "fund", "create"}

ASSUME ToolsAssumption ==
  /\ Kind \in [Tools -> Kinds] /\ Double \in [Tools -> BOOLEAN]
  /\ Source \in [Tools -> Accounts] /\ Dest \in [Tools -> Accounts]
  /\ Funded \subseteq Accounts
  /\ maxAttempts \in Nat \ {0} /\ MaxRuns \in Nat

VARIABLES
  exists,     \* the network: the accounts,
  seq,        \* their sequence numbers,
  trust,      \* who trusts which issuer's asset,
  pool,       \* transactions accepted
  succeeded,  \* and applied
  runs,       \* a tool: how often it was run,
  outcome,    \* how the last run ended,
  pc,         \* the step it is at,
  waits,      \* Horizon has the step's transaction
  loaded,     \* the sequence numbers it has read
  attempt,    \* of FundAccount
  sent        \* history: the transactions of this run

network == <<exists, seq, trust, pool, succeeded>>
vars == <<network, runs, outcome, pc, waits, loaded, attempt, sent>>

----------------------------------------------------------------------------
(* What the tools do.                                                      *)

\* Accounts read, in this order, and transactions submitted.
PaymentSteps == <<"dest", "source", "pay">>
AssetSteps == <<"dest", "source", "asset">>
IssueSteps == <<"source", "dest", "trust", "asset">>
OpsSteps == <<"source", "pay">>

Steps(t) ==
  CASE Kind[t] = "payment" -> PaymentSteps
    [] Kind[t] = "asset" -> AssetSteps
    [] Kind[t] = "issue" -> IssueSteps
    [] Kind[t] \in {"ops", "expect"} -> OpsSteps
    [] Kind[t] = "fund" -> <<"fund">>
    [] Kind[t] = "create" -> <<"create">>

At(t, steps) == outcome[t] = "runs" /\ ~waits[t] /\ Steps(t)[pc[t]] \in steps

\* The native payment, twice in one transaction if asked for.
PaymentTx(t) ==
  [source |-> Source[t], seq |-> loaded[t].source + 1, op |-> "pay", to |-> Dest[t],
   of |-> Source[t], times |-> IF Kind[t] = "payment" /\ Double[t] THEN 2 ELSE 1]

\* The payment in the issuer's asset; --double-send is not looked at.
AssetTx(t) ==
  [source |-> Source[t], seq |-> loaded[t].source + 1, op |-> "asset", to |-> Dest[t],
   of |-> Source[t], times |-> 1]

\* The distributor trusts the issuer's asset.
TrustTx(t) ==
  [source |-> Dest[t], seq |-> loaded[t].dest + 1, op |-> "trust", to |-> Dest[t],
   of |-> Source[t], times |-> 1]

TxOf(t) ==
  CASE Steps(t)[pc[t]] = "pay" -> PaymentTx(t)
    [] Steps(t)[pc[t]] = "asset" -> AssetTx(t)
    [] Steps(t)[pc[t]] = "trust" -> TrustTx(t)

----------------------------------------------------------------------------
(* How a run goes on and ends.                                             *)

Nothing == [source |-> 0, dest |-> 0]

End(t, how) ==
  /\ outcome' = [outcome EXCEPT ![t] = how]
  /\ waits' = [waits EXCEPT ![t] = FALSE]
  /\ loaded' = [loaded EXCEPT ![t] = Nothing]
  /\ UNCHANGED <<runs, pc, attempt, sent>>

\* SubmitOpsExpectFail: nil if there is an error of Horizon's in the chain of
\* wrapped errors.
ExpectFail(t, horizon) == End(t, IF horizon THEN "ok" ELSE "failed")

\* An exchange fails; horizon: it is Horizon that says so.
Fails(t, horizon) ==
  IF Kind[t] = "expect" THEN ExpectFail(t, horizon) ELSE End(t, "failed")

Advance(t) ==
  IF pc[t] = Len(Steps(t))
  THEN End(t, IF Kind[t] = "expect" THEN "failed" ELSE "ok")
  ELSE /\ pc' = [pc EXCEPT ![t] = @ + 1]
       /\ waits' = [waits EXCEPT ![t] = FALSE]
       /\ UNCHANGED <<runs, outcome, loaded, attempt, sent>>

RunsOf(tools) == Cardinality(UNION {{t} \X (1..runs[t]) : t \in tools})

\* A command line is run, for the first time or after a run has ended.
Launch(t) ==
  /\ outcome[t] # "runs" /\ RunsOf(Tools) < MaxRuns
  /\ runs' = [runs EXCEPT ![t] = @ + 1]
  /\ outcome' = [outcome EXCEPT ![t] = "runs"]
  /\ pc' = [pc EXCEPT ![t] = 1]
  /\ attempt' = [attempt EXCEPT ![t] = 1]
  /\ sent' = [sent EXCEPT ![t] = {}]
  /\ UNCHANGED <<network, waits, loaded>>

----------------------------------------------------------------------------
(* Reading an account.                                                     *)

Who(t) == IF Steps(t)[pc[t]] = "source" THEN Source[t] ELSE Dest[t]

LoadAccount(t) ==
  /\ At(t, {"source", "dest"})
  /\ Who(t) \in exists
  /\ loaded' = [loaded EXCEPT ![t] = [@ EXCEPT ![Steps(t)[pc[t]]] = seq[Who(t)]]]
  /\ pc' = [pc EXCEPT ![t] = @ + 1]
  /\ UNCHANGED <<network, runs, outcome, waits, attempt, sent>>

\* There is no such account, Horizon is out of order or cannot be reached.
LoadFails(t) ==
  /\ At(t, {"source", "dest"})
  /\ \E horizon \in BOOLEAN : Fails(t, horizon)
  /\ UNCHANGED network

----------------------------------------------------------------------------
(* Submitting a transaction.                                               *)

\* The source exists, and the sequence number that was read is still its own.
Accepted(tx) ==
  tx \in pool \union succeeded \/ (tx.source \in exists /\ tx.seq = seq[tx.source] + 1)

Submit(t) ==
  /\ At(t, {"pay", "asset", "trust"})
  /\ Accepted(TxOf(t))
  /\ pool' = IF TxOf(t) \in succeeded THEN pool ELSE pool \union {TxOf(t)}
  /\ sent' = [sent EXCEPT ![t] = @ \union {TxOf(t)}]
  /\ waits' = [waits EXCEPT ![t] = TRUE]
  /\ UNCHANGED <<exists, seq, trust, succeeded, runs, outcome, pc, loaded, attempt>>

\* Horizon refuses it, for its sequence number or for its own reasons, or
\* cannot be reached.
SubmitFails(t) ==
  /\ At(t, {"pay", "asset", "trust"})
  /\ \E horizon \in BOOLEAN : Fails(t, horizon)
  /\ UNCHANGED network

\* Horizon's answer, once the transaction is in a ledger.
SubmitSucceeds(t) ==
  /\ waits[t] /\ TxOf(t) \in succeeded
  /\ Advance(t)
  /\ UNCHANGED network

\* Mutant: an error of the first transaction does not end the command.
TxFailsGoOn(t) ==
  /\ waits[t] /\ TxOf(t) \notin pool \union succeeded
  /\ IF Steps(t)[pc[t]] = "trust" THEN Advance(t) ELSE Fails(t, TRUE)
  /\ UNCHANGED network

\* It has failed in the ledger, or was dropped.
TxFails(t) ==
  /\ waits[t] /\ TxOf(t) \notin pool \union succeeded
  /\ Fails(t, TRUE)
  /\ UNCHANGED network

\* Mutant: the payment is made anew.
TimesOutRetry(t) ==
  /\ waits[t]
  /\ pc' = [pc EXCEPT ![t] = 1]
  /\ waits' = [waits EXCEPT ![t] = FALSE]
  /\ UNCHANGED <<network, runs, outcome, loaded, attempt, sent>>

\* Horizon or the client gives up waiting; the transaction may yet be applied.
TimesOut(t) ==
  /\ waits[t]
  /\ \E horizon \in BOOLEAN : Fails(t, horizon)
  /\ UNCHANGED network

----------------------------------------------------------------------------
(* Friendbot.                                                              *)

\* What it answers: a status below 400, one below 500 because the account
\* exists, one from 500 on, or nothing; it may have funded the account.
Friendbot(t, answer) ==
  /\ exists' \in {exists, exists \union {Dest[t]}}
  /\ answer = "ok" => Dest[t] \in exists'
  /\ answer = "refused" => Dest[t] \in exists
  /\ UNCHANGED <<seq, trust, pool, succeeded>>

\* Mutant: one attempt too many.
LastAttemptLate(t) == attempt[t] > maxAttempts

LastAttempt(t) == attempt[t] = maxAttempts

\* Mutant: any status from 400 on is permanent.
TryAgainNever(t, answer) == answer = "lost" /\ ~LastAttempt(t)

\* A transient failure, and attempts left.
TryAgain(t, answer) == answer \in {"unavailable", "lost"} /\ ~LastAttempt(t)

\* FundAccount, one attempt.
FundAccount(t) ==
  /\ At(t, {"fund"})
  /\ \E answer \in {"ok", "refused", "unavailable", "lost"} :
       /\ Friendbot(t, answer)
       /\ IF TryAgain(t, answer)
          THEN /\ attempt' = [attempt EXCEPT ![t] = @ + 1]
               /\ UNCHANGED <<runs, outcome, pc, waits, loaded, sent>>
          ELSE End(t, IF answer = "ok" THEN "ok" ELSE "failed")

\* tool-create-account: any answer is a success.
CreateAccount(t) ==
  /\ At(t, {"create"})
  /\ \E answer \in {"ok", "refused", "unavailable", "lost"} :
       Friendbot(t, answer) /\ End(t, IF answer = "lost" THEN "failed" ELSE "ok")

----------------------------------------------------------------------------
(* The network.                                                            *)

\* Whether the transaction's operations succeed.
Works(tx) ==
  /\ tx.to \in exists
  /\ tx.op = "asset" => <<tx.to, tx.of>> \in trust

\* A transaction is applied: its sequence number is used, and all its
\* operations are applied, or none.
Apply(tx) ==
  /\ tx.seq = seq[tx.source] + 1
  /\ seq' = [seq EXCEPT ![tx.source] = @ + 1]
  /\ succeeded' = IF Works(tx) THEN succeeded \union {tx} ELSE succeeded
  /\ trust' = IF Works(tx) /\ tx.op = "trust" THEN trust \union {<<tx.to, tx.of>>} ELSE trust
  /\ pool' = pool \ {tx}
  /\ UNCHANGED <<exists, runs, outcome, pc, waits, loaded, attempt, sent>>

\* The network forgets a transaction, at the latest when its number is used.
Drop(tx) ==
  /\ pool' = pool \ {tx}
  /\ UNCHANGED <<exists, seq, trust, succeeded>>
  /\ UNCHANGED <<runs, outcome, pc, waits, loaded, attempt, sent>>

Init ==
  /\ exists = Funded
  /\ seq = [a \in Accounts |-> 0]
  /\ trust = {} /\ pool = {} /\ succeeded = {}
  /\ runs = [t \in Tools |-> 0]
  /\ outcome = [t \in Tools |-> "new"]
  /\ pc = [t \in Tools |-> 1]
  /\ waits = [t \in Tools |-> FALSE]
  /\ loaded = [t \in Tools |-> Nothing]
  /\ attempt = [t \in Tools |-> 1]
  /\ sent = [t \in Tools |-> {}]

\* What a running tool does, and is told.
Step(t) ==
  \/ LoadAccount(t) \/ LoadFails(t) \/ Submit(t) \/ SubmitFails(t)
  \/ SubmitSucceeds(t) \/ TxFails(t) \/ TimesOut(t)
  \/ FundAccount(t) \/ CreateAccount(t)

Next ==
  \/ \E t \in Tools : Launch(t) \/ Step(t)
  \/ \E tx \in pool : Apply(tx) \/ Drop(tx)

Spec == Init /\ [][Next]_vars

----------------------------------------------------------------------------
(* Properties.                                                             *)

Transactions ==
  [source: Accounts, seq: Nat \ {0}, op: {"pay", "asset", "trust"}, to: Accounts,
   of: Accounts, times: {1, 2}]

\* Every variable has its type; FundAccount stops at its last attempt.
TypeOK ==
  /\ exists \subseteq Accounts
  /\ seq \in [Accounts -> Nat]
  /\ trust \subseteq Accounts \X Accounts
  /\ pool \union succeeded \subseteq Transactions
  /\ runs \in [Tools -> Nat]
  /\ outcome \in [Tools -> {"new", "runs", "ok", "failed"}]
  /\ pc \in [Tools -> Nat] /\ \A t \in Tools : pc[t] \in 1..Len(Steps(t))
  /\ waits \in [Tools -> BOOLEAN]
  /\ loaded \in [Tools -> [source: Nat, dest: Nat]]
  /\ attempt \in [Tools -> 1..maxAttempts]
  /\ sent \in [Tools -> SUBSET Transactions]

Submitting == {"payment", "asset", "issue", "ops"}

\* A tool that reports success has had every one of its transactions applied,
\* although it made the last one with a sequence number it read before it
\* waited for others, and although other tools use the accounts meanwhile.
SuccessApplied ==
  \A t \in Tools :
    outcome[t] = "ok" /\ Kind[t] \in Submitting =>
      /\ sent[t] \subseteq succeeded
      /\ {tx.op : tx \in sent[t]} = {Steps(t)[i] : i \in 1..Len(Steps(t))} \ {"source", "dest"}

Paying == {t \in Tools : Kind[t] \in Submitting \union {"expect"}}

\* No run pays more than once, whatever times out and is applied later: all
\* payments there are were asked for by as many runs.
PaidAtMostRuns ==
  Cardinality({tx \in succeeded : tx.op # "trust"})
    <= RunsOf(Paying)

\* FundAccount says so when the account has been funded, and only reports an
\* account that does not exist after all attempts.
FundTold ==
  \A t \in Tools :
    Kind[t] = "fund" /\ Dest[t] \notin exists =>
      /\ outcome[t] # "ok"
      /\ outcome[t] = "failed" => LastAttempt(t)

\* "It returns nil only when horizon itself rejects the transaction"
\* (test/lib/stellar/client.go): SubmitOpsExpectFail succeeds only when the
\* transaction was submitted, and is not applied.
ExpectedFailureReal ==
  \A t \in Tools :
    Kind[t] = "expect" /\ outcome[t] = "ok" =>
      /\ Steps(t)[pc[t]] = "pay"
      /\ sent[t] \intersect (pool \union succeeded) = {}
=============================================================================
