--------------------------- MODULE AccountsProofs ---------------------------
(***************************************************************************)
(* Whatever tools run and however often, over any accounts: the types of   *)
(* Accounts, that a success means what was submitted is applied, what      *)
(* FundAccount says of the account, and that no run pays twice.  One       *)
(* tool's part of the invariant is preserved by what the tool does, and by *)
(* everything else because the network only gains accounts and applied     *)
(* transactions.                                                           *)
(***************************************************************************)
EXTENDS Accounts, FiniteSetTheorems, TLAPS

Submissions == {"pay", "asset", "trust"}

\* A command that reads an account goes on with it, and submits or asks
\* friendbot last.
LEMMA StepsShape ==
  ASSUME NEW t \in Tools
  PROVE  /\ Len(Steps(t)) \in Nat \ {0}
         /\ \A i \in 1..Len(Steps(t)) :
              Steps(t)[i] \in {"source", "dest"} => i + 1 \in 1..Len(Steps(t))
         /\ Kind[t] = "fund" => Len(Steps(t)) = 1 /\ Steps(t)[1] = "fund"
         /\ Kind[t] \in Submitting =>
              \A i \in 1..Len(Steps(t)) : Steps(t)[i] \in Submissions \union {"source", "dest"}
<1> Kind[t] \in Kinds
  BY ToolsAssumption
<1>1. CASE Kind[t] \in {"payment", "asset"}
  BY <1>1 DEF Steps, PaymentSteps, AssetSteps, Submitting, Submissions
<1>2. CASE Kind[t] = "issue"
  BY <1>2 DEF Steps, IssueSteps, Submitting, Submissions
<1>3. CASE Kind[t] \in {"ops", "expect"}
  BY <1>3 DEF Steps, OpsSteps, Submitting, Submissions
<1>4. CASE Kind[t] \in {"fund", "create"}
  BY <1>4 DEF Steps, Submitting, Submissions
<1>5. QED
  BY <1>1, <1>2, <1>3, <1>4 DEF Kinds

\* What a step submits is a transaction, of the step's operation.
LEMMA TxType ==
  ASSUME TypeOK, NEW t \in Tools, Steps(t)[pc[t]] \in Submissions
  PROVE  TxOf(t) \in Transactions /\ TxOf(t).op = Steps(t)[pc[t]]
<1>1. /\ loaded[t].source \in Nat /\ loaded[t].dest \in Nat
      /\ Source[t] \in Accounts /\ Dest[t] \in Accounts
  BY ToolsAssumption DEF TypeOK
<1>2. CASE Steps(t)[pc[t]] = "pay"
  BY <1>1, <1>2 DEF TxOf, PaymentTx, Transactions
<1>3. CASE Steps(t)[pc[t]] = "asset"
  BY <1>1, <1>3 DEF TxOf, AssetTx, Transactions
<1>4. CASE Steps(t)[pc[t]] = "trust"
  BY <1>1, <1>4 DEF TxOf, TrustTx, Transactions
<1>5. QED
  BY <1>2, <1>3, <1>4 DEF Submissions

----------------------------------------------------------------------------
(* Types.                                                                  *)

PcType == pc \in [Tools -> Nat] /\ \A t \in Tools : pc[t] \in 1..Len(Steps(t))

LEMMA PcMoves ==
  ASSUME PcType, NEW t \in Tools, NEW p \in 1..Len(Steps(t)), pc' = [pc EXCEPT ![t] = p]
  PROVE  PcType'
<1>1. p \in Nat
  BY StepsShape
<1>2. pc' \in [Tools -> Nat]
  BY <1>1 DEF PcType
<1>3. ASSUME NEW u \in Tools
      PROVE  pc'[u] \in 1..Len(Steps(u))
  <2>1. CASE u = t
    BY <2>1 DEF PcType
  <2>2. CASE u # t
    BY <2>2 DEF PcType
  <2>3. QED
    BY <2>1, <2>2
<1>4. QED
  BY <1>2, <1>3 DEF PcType

LEMMA EndTypes ==
  ASSUME TypeOK, NEW t \in Tools, NEW how \in {"ok", "failed"}, End(t, how)
  PROVE  /\ outcome' \in [Tools -> {"new", "runs", "ok", "failed"}]
         /\ waits' \in [Tools -> BOOLEAN]
         /\ loaded' \in [Tools -> [source: Nat, dest: Nat]]
         /\ UNCHANGED <<runs, pc, attempt, sent>>
BY DEF TypeOK, End, Nothing

\* A run that fails, or goes wrong where a failure is expected, ends.
LEMMA FailsEnds ==
  ASSUME NEW t \in Tools, NEW horizon \in BOOLEAN, Fails(t, horizon)
  PROVE  /\ End(t, "ok") \/ End(t, "failed")
         /\ Kind[t] # "expect" => End(t, "failed")
BY DEF Fails, ExpectFail

LEMMA TypeStep ==
  ASSUME TypeOK, [Next]_vars
  PROVE  TypeOK'
<1>f. ASSUME NEW t \in Tools, \E horizon \in BOOLEAN : Fails(t, horizon), UNCHANGED network
      PROVE  TypeOK'
  <2>1. End(t, "ok") \/ End(t, "failed")
    BY <1>f, FailsEnds
  <2>2. QED
    BY <1>f, <2>1, EndTypes DEF TypeOK, network
<1>1. ASSUME NEW t \in Tools, Launch(t)
      PROVE  TypeOK'
  <2>1. 1 \in 1..Len(Steps(t)) /\ 1 \in 1..maxAttempts
    BY StepsShape, ToolsAssumption
  <2>2. PcType'
    BY <1>1, <2>1, PcMoves DEF Launch, TypeOK, PcType
  <2>3. attempt' \in [Tools -> 1..maxAttempts] /\ runs' \in [Tools -> Nat]
    BY <1>1, <2>1 DEF Launch, TypeOK
  <2>4. QED
    BY <1>1, <2>2, <2>3 DEF TypeOK, PcType, Launch, network
<1>2. ASSUME NEW t \in Tools, LoadAccount(t)
      PROVE  TypeOK'
  <2>1. pc[t] + 1 \in 1..Len(Steps(t))
    BY <1>2, StepsShape DEF LoadAccount, At, TypeOK
  <2>2. Steps(t)[pc[t]] \in {"source", "dest"} /\ Who(t) \in Accounts
    BY <1>2, ToolsAssumption DEF LoadAccount, At, Who
  <2>3. loaded' \in [Tools -> [source: Nat, dest: Nat]]
    BY <1>2, <2>2 DEF LoadAccount, TypeOK
  <2>4. PcType'
    BY <1>2, <2>1, PcMoves DEF LoadAccount, TypeOK, PcType
  <2>5. QED
    BY <1>2, <2>3, <2>4 DEF LoadAccount, TypeOK, PcType, network
<1>3. ASSUME NEW t \in Tools, Submit(t)
      PROVE  TypeOK'
  <2>1. TxOf(t) \in Transactions
    BY <1>3, TxType DEF Submit, At, Submissions
  <2>2. QED
    BY <1>3, <2>1 DEF Submit, TypeOK
<1>4. ASSUME NEW t \in Tools, SubmitSucceeds(t)
      PROVE  TypeOK'
  <2>1. CASE pc[t] = Len(Steps(t))
    <3>1. End(t, "ok") \/ End(t, "failed")
      BY <1>4, <2>1 DEF SubmitSucceeds, Advance
    <3>2. QED
      BY <1>4, <3>1, EndTypes DEF SubmitSucceeds, TypeOK, network
  <2>2. CASE pc[t] # Len(Steps(t))
    <3>1. pc[t] + 1 \in 1..Len(Steps(t))
      BY <2>2, StepsShape DEF TypeOK
    <3>2. PcType'
      BY <1>4, <2>2, <3>1, PcMoves DEF SubmitSucceeds, Advance, TypeOK, PcType
    <3>3. QED
      BY <1>4, <2>2, <3>2 DEF SubmitSucceeds, Advance, TypeOK, PcType, network
  <2>3. QED
    BY <2>1, <2>2
<1>5. ASSUME NEW t \in Tools, LoadFails(t) \/ SubmitFails(t) \/ TxFails(t) \/ TimesOut(t)
      PROVE  TypeOK'
  BY <1>5, <1>f DEF LoadFails, SubmitFails, TxFails, TimesOut
<1>6. ASSUME NEW t \in Tools, FundAccount(t)
      PROVE  TypeOK'
  <2>1. PICK answer \in {"ok", "refused", "unavailable", "lost"} :
          /\ Friendbot(t, answer)
          /\ IF TryAgain(t, answer)
             THEN /\ attempt' = [attempt EXCEPT ![t] = @ + 1]
                  /\ UNCHANGED <<runs, outcome, pc, waits, loaded, sent>>
             ELSE End(t, IF answer = "ok" THEN "ok" ELSE "failed")
    BY <1>6 DEF FundAccount
  <2>2. exists' \subseteq Accounts /\ UNCHANGED <<seq, trust, pool, succeeded>>
    BY <2>1, ToolsAssumption DEF Friendbot, TypeOK
  <2>3. CASE TryAgain(t, answer)
    <3>0. attempt[t] \in 1..maxAttempts /\ attempt[t] # maxAttempts /\ maxAttempts \in Nat
      BY <2>3, ToolsAssumption DEF TryAgain, LastAttempt, TypeOK
    <3>1. attempt' \in [Tools -> 1..maxAttempts]
      <4>1. attempt[t] + 1 \in 1..maxAttempts
        BY <3>0
      <4>2. QED
        BY <2>1, <2>3, <4>1 DEF TypeOK
    <3>2. QED
      BY <2>1, <2>2, <2>3, <3>1 DEF TypeOK
  <2>4. CASE ~TryAgain(t, answer)
    <3>1. End(t, "ok") \/ End(t, "failed")
      BY <2>1, <2>4
    <3>2. QED
      BY <2>2, <3>1, EndTypes DEF TypeOK
  <2>5. QED
    BY <2>3, <2>4
<1>7. ASSUME NEW t \in Tools, CreateAccount(t)
      PROVE  TypeOK'
  <2>1. End(t, "ok") \/ End(t, "failed")
    BY <1>7 DEF CreateAccount
  <2>2. exists' \subseteq Accounts /\ UNCHANGED <<seq, trust, pool, succeeded>>
    BY <1>7, ToolsAssumption DEF CreateAccount, Friendbot, TypeOK
  <2>3. QED
    BY <2>1, <2>2, EndTypes DEF TypeOK
<1>8. ASSUME NEW tx \in pool, Apply(tx) \/ Drop(tx)
      PROVE  TypeOK'
  <2>1. tx \in Transactions /\ tx.source \in Accounts /\ tx.to \in Accounts /\ tx.of \in Accounts
    BY DEF TypeOK, Transactions
  <2>2. seq' \in [Accounts -> Nat]
    <3>1. seq[tx.source] + 1 \in Nat
      BY <2>1 DEF TypeOK
    <3>2. seq' = seq \/ seq' = [seq EXCEPT ![tx.source] = seq[tx.source] + 1]
      BY <1>8 DEF Apply, Drop
    <3>3. QED
      BY <2>1, <3>1, <3>2 DEF TypeOK
  <2>3. trust' \subseteq Accounts \X Accounts
    BY <1>8, <2>1 DEF Apply, Drop, TypeOK
  <2>4. (pool \union succeeded)' \subseteq Transactions
    BY <1>8, <2>1 DEF Apply, Drop, TypeOK
  <2>5. UNCHANGED <<exists, runs, outcome, pc, waits, loaded, attempt, sent>>
    BY <1>8 DEF Apply, Drop
  <2>6. QED
    BY <2>2, <2>3, <2>4, <2>5 DEF TypeOK
<1>9. CASE UNCHANGED vars
  BY <1>9 DEF TypeOK, vars, network
<1>10. QED
  BY <1>1, <1>2, <1>3, <1>4, <1>5, <1>6, <1>7, <1>8, <1>9 DEF Next, Step

LEMMA TypeInit == Init => TypeOK
BY StepsShape, ToolsAssumption DEF Init, TypeOK, Nothing

\* Every variable has its type, and FundAccount stops at its last attempt.
THEOREM TypeCorrect == Spec => []TypeOK
<1>1. TypeOK /\ [Next]_vars => TypeOK'
  BY TypeStep
<1>2. QED
  BY <1>1, TypeInit, PTL DEF Spec

----------------------------------------------------------------------------
(* What one tool knows.                                                    *)

\* A tool waits only for what it submits.
Waiting(t) ==
  waits[t] => outcome[t] = "runs" /\ Steps(t)[pc[t]] \in Submissions

\* The submissions of the steps a run has behind it.
Behind(t) ==
  {Steps(t)[i] : i \in {j \in 1..Len(Steps(t)) : j < pc[t] \/ (j = pc[t] /\ waits[t])}}
    \ {"source", "dest"}

\* All it has sent is applied, but for the transaction it waits for.
Progress(t) ==
  Kind[t] \in Submitting /\ outcome[t] = "runs" =>
    /\ {tx.op : tx \in sent[t]} = Behind(t)
    /\ \A tx \in sent[t] : tx \in succeeded \/ (waits[t] /\ tx = TxOf(t))

Succeeded(t) ==
  Kind[t] \in Submitting /\ outcome[t] = "ok" =>
    /\ sent[t] \subseteq succeeded
    /\ {tx.op : tx \in sent[t]} = {Steps(t)[i] : i \in 1..Len(Steps(t))} \ {"source", "dest"}

Told(t) ==
  Kind[t] = "fund" /\ Dest[t] \notin exists =>
    /\ outcome[t] # "ok"
    /\ outcome[t] = "failed" => LastAttempt(t)

ToolInv(t) == Waiting(t) /\ Progress(t) /\ Succeeded(t) /\ Told(t)

AccountsInv == TypeOK /\ \A t \in Tools : ToolInv(t)

\* What a tool knows stays true while others act.
Frame(t) ==
  /\ outcome'[t] = outcome[t] /\ pc'[t] = pc[t] /\ waits'[t] = waits[t]
  /\ loaded'[t] = loaded[t] /\ attempt'[t] = attempt[t] /\ sent'[t] = sent[t]
  /\ succeeded \subseteq succeeded' /\ exists \subseteq exists'

LEMMA FrameKeeps ==
  ASSUME NEW t \in Tools, ToolInv(t), Frame(t)
  PROVE  ToolInv(t)'
<1>1. TxOf(t)' = TxOf(t)
  BY DEF Frame, TxOf, PaymentTx, AssetTx, TrustTx
<1>2. Behind(t)' = Behind(t)
  BY DEF Frame, Behind
<1>3. Waiting(t)'
  BY DEF ToolInv, Waiting, Frame
<1>4. Progress(t)'
  BY <1>1, <1>2 DEF ToolInv, Progress, Frame
<1>5. Succeeded(t)'
  BY DEF ToolInv, Succeeded, Frame
<1>6. Told(t)'
  BY DEF ToolInv, Told, LastAttempt, Frame
<1>7. QED
  BY <1>3, <1>4, <1>5, <1>6 DEF ToolInv

\* A failed run claims nothing but that an account could not be funded.
LEMMA EndFailed ==
  ASSUME TypeOK, NEW t \in Tools, End(t, "failed"), Kind[t] # "fund"
  PROVE  ToolInv(t)'
BY DEF TypeOK, End, ToolInv, Waiting, Progress, Succeeded, Told

LEMMA FailsKeeps ==
  ASSUME TypeOK, NEW t \in Tools, \E horizon \in BOOLEAN : Fails(t, horizon), Kind[t] # "fund"
  PROVE  ToolInv(t)'
<1>1. End(t, "failed") \/ (Kind[t] = "expect" /\ End(t, "ok"))
  BY FailsEnds DEF Fails, ExpectFail
<1>2. CASE Kind[t] = "expect" /\ End(t, "ok")
  BY <1>2 DEF TypeOK, End, ToolInv, Waiting, Progress, Succeeded, Told, Submitting
<1>3. QED
  BY <1>1, <1>2, EndFailed

\* A fund command has one step, and it is no exchange with Horizon.
LEMMA FundOnlyFunds ==
  ASSUME TypeOK, NEW t \in Tools, ToolInv(t), Kind[t] = "fund"
  PROVE  Steps(t)[pc[t]] = "fund" /\ ~waits[t]
<1>1. pc[t] = 1
  <2>1. Len(Steps(t)) = 1 /\ pc[t] \in 1..Len(Steps(t))
    BY StepsShape DEF TypeOK
  <2>2. QED
    BY <2>1
<1>2. QED
  BY <1>1, StepsShape DEF ToolInv, Waiting, Submissions

\* The tool that acts keeps its own part.
LEMMA ToolStep ==
  ASSUME TypeOK, TypeOK', NEW t \in Tools, ToolInv(t), Launch(t) \/ Step(t)
  PROVE  ToolInv(t)'
<1>s. Len(Steps(t)) \in Nat \ {0} /\ pc[t] \in 1..Len(Steps(t))
  BY StepsShape DEF TypeOK
<1>1. CASE Launch(t)
  <2>1. outcome'[t] = "runs" /\ pc'[t] = 1 /\ sent'[t] = {} /\ waits' = waits
    BY <1>1 DEF Launch, TypeOK
  <2>2. ~waits'[t]
    BY <1>1, <2>1 DEF Launch, ToolInv, Waiting
  <2>3. Behind(t)' = {}
    BY <1>s, <2>1, <2>2 DEF Behind
  <2>4. QED
    BY <2>1, <2>2, <2>3 DEF ToolInv, Waiting, Progress, Succeeded, Told
<1>2. CASE LoadAccount(t)
  <2>1. /\ outcome[t] = "runs" /\ ~waits[t] /\ Steps(t)[pc[t]] \in {"source", "dest"}
        /\ outcome' = outcome /\ waits' = waits /\ sent' = sent
        /\ pc'[t] = pc[t] + 1 /\ succeeded' = succeeded
    BY <1>2 DEF LoadAccount, At, TypeOK, network
  <2>2. Behind(t)' = Behind(t)
    BY <1>s, <2>1 DEF Behind
  <2>3. QED
    BY <2>1, <2>2 DEF ToolInv, Waiting, Progress, Succeeded, Told
<1>3. CASE Submit(t)
  <2>1. /\ outcome[t] = "runs" /\ ~waits[t] /\ Steps(t)[pc[t]] \in Submissions
        /\ outcome' = outcome /\ waits'[t] /\ pc' = pc /\ loaded' = loaded
        /\ sent'[t] = sent[t] \union {TxOf(t)} /\ succeeded' = succeeded
    BY <1>3 DEF Submit, At, TypeOK, Submissions
  <2>2. TxOf(t).op = Steps(t)[pc[t]] /\ TxOf(t)' = TxOf(t)
    BY <2>1, TxType DEF TxOf, PaymentTx, AssetTx, TrustTx
  <2>3. Behind(t)' = Behind(t) \union {Steps(t)[pc[t]]}
    BY <1>s, <2>1 DEF Behind, Submissions
  <2>4. {tx.op : tx \in sent'[t]} = {tx.op : tx \in sent[t]} \union {Steps(t)[pc[t]]}
    BY <2>1, <2>2
  <2>5. Progress(t)'
    BY <2>1, <2>2, <2>3, <2>4 DEF ToolInv, Progress
  <2>6. QED
    BY <2>1, <2>5 DEF ToolInv, Waiting, Succeeded, Told
<1>4. CASE SubmitSucceeds(t)
  <2>1. waits[t] /\ outcome[t] = "runs" /\ Kind[t] # "fund" /\ TxOf(t) \in succeeded
        /\ succeeded' = succeeded
    BY <1>4, FundOnlyFunds DEF SubmitSucceeds, ToolInv, Waiting, network
  <2>2. Kind[t] \in Submitting =>
          sent[t] \subseteq succeeded /\ {tx.op : tx \in sent[t]} = Behind(t)
    BY <2>1 DEF ToolInv, Progress
  <2>3. CASE pc[t] = Len(Steps(t))
    <3>1. End(t, IF Kind[t] = "expect" THEN "failed" ELSE "ok")
      BY <1>4, <2>3 DEF SubmitSucceeds, Advance
    <3>2. Behind(t) = {Steps(t)[i] : i \in 1..Len(Steps(t))} \ {"source", "dest"}
      BY <1>s, <2>1, <2>3 DEF Behind
    <3>3. outcome'[t] # "runs" /\ ~waits'[t] /\ sent' = sent
      BY <3>1 DEF End, TypeOK
    <3>4. QED
      BY <2>1, <2>2, <3>2, <3>3 DEF ToolInv, Waiting, Progress, Succeeded, Told
  <2>4. CASE pc[t] # Len(Steps(t))
    <3>1. pc'[t] = pc[t] + 1 /\ ~waits'[t] /\ outcome' = outcome /\ sent' = sent
      BY <1>4, <2>4 DEF SubmitSucceeds, Advance, TypeOK
    <3>2. Behind(t)' = Behind(t)
      BY <1>s, <2>1, <3>1 DEF Behind
    <3>3. QED
      BY <2>1, <2>2, <3>1, <3>2 DEF ToolInv, Waiting, Progress, Succeeded, Told
  <2>5. QED
    BY <2>3, <2>4
<1>5. CASE LoadFails(t) \/ SubmitFails(t) \/ TxFails(t) \/ TimesOut(t)
  <2>1. \E horizon \in BOOLEAN : Fails(t, horizon)
    BY <1>5 DEF LoadFails, SubmitFails, TxFails, TimesOut
  <2>2. Kind[t] # "fund"
    BY <1>5, FundOnlyFunds DEF LoadFails, SubmitFails, TxFails, TimesOut, At
  <2>3. QED
    BY <2>1, <2>2, FailsKeeps
<1>6. CASE FundAccount(t)
  <2>1. PICK answer \in {"ok", "refused", "unavailable", "lost"} :
          /\ Friendbot(t, answer)
          /\ IF TryAgain(t, answer)
             THEN /\ attempt' = [attempt EXCEPT ![t] = @ + 1]
                  /\ UNCHANGED <<runs, outcome, pc, waits, loaded, sent>>
             ELSE End(t, IF answer = "ok" THEN "ok" ELSE "failed")
    BY <1>6 DEF FundAccount
  <2>2. outcome[t] = "runs" /\ ~waits[t] /\ Steps(t)[pc[t]] = "fund" /\ Kind[t] \notin Submitting
    BY <1>6, <1>s, StepsShape DEF FundAccount, At, Submissions
  <2>3. CASE TryAgain(t, answer)
    BY <2>1, <2>2, <2>3 DEF ToolInv, Waiting, Progress, Succeeded, Told
  <2>4. CASE ~TryAgain(t, answer)
    <3>1. /\ ~waits'[t] /\ outcome'[t] = (IF answer = "ok" THEN "ok" ELSE "failed")
          /\ attempt' = attempt
      BY <2>1, <2>4 DEF End, TypeOK
    <3>2. answer \notin {"ok", "refused"} => LastAttempt(t)'
      BY <2>4, <3>1 DEF TryAgain, LastAttempt
    <3>3. answer \in {"ok", "refused"} => Dest[t] \in exists'
      BY <2>1 DEF Friendbot
    <3>4. Told(t)'
      BY <3>1, <3>2, <3>3 DEF Told
    <3>5. QED
      BY <2>2, <3>1, <3>4 DEF ToolInv, Waiting, Progress, Succeeded
  <2>5. QED
    BY <2>3, <2>4
<1>7. CASE CreateAccount(t)
  <2>1. Steps(t)[pc[t]] = "create" /\ (End(t, "ok") \/ End(t, "failed"))
    BY <1>7 DEF CreateAccount, At
  <2>2. Kind[t] # "fund" /\ Kind[t] \notin Submitting
    BY <1>s, <2>1, FundOnlyFunds, StepsShape DEF Submissions
  <2>3. QED
    BY <2>1, <2>2 DEF End, TypeOK, ToolInv, Waiting, Progress, Succeeded, Told
<1>8. QED
  BY <1>1, <1>2, <1>3, <1>4, <1>5, <1>6, <1>7 DEF Step

\* Only the tool that acts changes what is its own, and nothing takes an
\* account or an applied transaction from the network.
LEMMA OneTool ==
  ASSUME TypeOK, NEW t \in Tools, Launch(t) \/ Step(t), NEW u \in Tools, u # t
  PROVE  Frame(u)
<1>e. ASSUME End(t, "ok") \/ End(t, "failed"), succeeded' = succeeded, exists \subseteq exists'
      PROVE  Frame(u)
  BY <1>e DEF End, Frame, TypeOK
<1>f. ASSUME \E horizon \in BOOLEAN : Fails(t, horizon), UNCHANGED network
      PROVE  Frame(u)
  BY <1>e, <1>f, FailsEnds DEF network
<1>1. CASE Launch(t)
  BY <1>1 DEF Launch, Frame, network, TypeOK
<1>2. CASE LoadAccount(t)
  BY <1>2 DEF LoadAccount, Frame, network, TypeOK
<1>3. CASE Submit(t)
  BY <1>3 DEF Submit, Frame, TypeOK
<1>4. CASE SubmitSucceeds(t)
  <2>1. CASE pc[t] = Len(Steps(t))
    BY <1>4, <1>e, <2>1 DEF SubmitSucceeds, Advance, network
  <2>2. CASE pc[t] # Len(Steps(t))
    BY <1>4, <2>2 DEF SubmitSucceeds, Advance, Frame, network, TypeOK
  <2>3. QED
    BY <2>1, <2>2
<1>5. CASE LoadFails(t) \/ SubmitFails(t) \/ TxFails(t) \/ TimesOut(t)
  BY <1>5, <1>f DEF LoadFails, SubmitFails, TxFails, TimesOut
<1>6. CASE FundAccount(t)
  <2>1. PICK answer \in {"ok", "refused", "unavailable", "lost"} :
          /\ Friendbot(t, answer)
          /\ IF TryAgain(t, answer)
             THEN /\ attempt' = [attempt EXCEPT ![t] = @ + 1]
                  /\ UNCHANGED <<runs, outcome, pc, waits, loaded, sent>>
             ELSE End(t, IF answer = "ok" THEN "ok" ELSE "failed")
    BY <1>6 DEF FundAccount
  <2>2. succeeded' = succeeded /\ exists \subseteq exists'
    BY <2>1 DEF Friendbot
  <2>3. CASE TryAgain(t, answer)
    BY <2>1, <2>2, <2>3 DEF Frame, TypeOK
  <2>4. CASE ~TryAgain(t, answer)
    BY <1>e, <2>1, <2>2, <2>4
  <2>5. QED
    BY <2>3, <2>4
<1>7. CASE CreateAccount(t)
  BY <1>7, <1>e DEF CreateAccount, Friendbot
<1>8. QED
  BY <1>1, <1>2, <1>3, <1>4, <1>5, <1>6, <1>7 DEF Step

\* AccountsInv is inductive.
LEMMA AccountsStep ==
  ASSUME AccountsInv, [Next]_vars
  PROVE  AccountsInv'
<1>0. TypeOK /\ TypeOK'
  BY TypeStep DEF AccountsInv
<1>1. ASSUME NEW t \in Tools, Launch(t) \/ Step(t), NEW u \in Tools
      PROVE  ToolInv(u)'
  <2>1. CASE u = t
    BY <1>0, <1>1, <2>1, ToolStep DEF AccountsInv
  <2>2. CASE u # t
    BY <1>0, <1>1, <2>2, OneTool, FrameKeeps DEF AccountsInv
  <2>3. QED
    BY <2>1, <2>2
<1>2. ASSUME NEW tx \in pool, Apply(tx) \/ Drop(tx), NEW u \in Tools
      PROVE  ToolInv(u)'
  <2>1. Frame(u)
    BY <1>2 DEF Apply, Drop, Frame
  <2>2. QED
    BY <2>1, FrameKeeps DEF AccountsInv
<1>3. ASSUME UNCHANGED vars, NEW u \in Tools
      PROVE  ToolInv(u)'
  <2>1. Frame(u)
    BY <1>3 DEF vars, network, Frame
  <2>2. QED
    BY <2>1, FrameKeeps DEF AccountsInv
<1>4. QED
  BY <1>0, <1>1, <1>2, <1>3 DEF Next, AccountsInv

LEMMA AccountsAlways == Spec => []AccountsInv
<1>1. Init => AccountsInv
  BY TypeInit DEF Init, AccountsInv, ToolInv, Waiting, Progress, Succeeded, Told
<1>2. AccountsInv /\ [Next]_vars => AccountsInv'
  BY AccountsStep
<1>3. QED
  BY <1>1, <1>2, PTL DEF Spec

\* A tool that reports success has had all it had to submit applied, whatever
\* others did to the accounts meanwhile.
THEOREM SuccessCorrect == Spec => []SuccessApplied
<1>1. AccountsInv => SuccessApplied
  BY DEF AccountsInv, ToolInv, Succeeded, SuccessApplied
<1>2. QED
  BY <1>1, AccountsAlways, PTL

\* FundAccount reports success only of an account that exists, and failure of
\* one that does not only after all its attempts.
THEOREM FundCorrect == Spec => []FundTold
<1>1. AccountsInv => FundTold
  BY DEF AccountsInv, ToolInv, Told, FundTold
<1>2. QED
  BY <1>1, AccountsAlways, PTL

----------------------------------------------------------------------------
(* No run pays more than once.  The payments there are, accepted or        *)
(* applied, are charged to different runs: there is an injection of them   *)
(* into the runs, which avoids every run that has not paid yet.  A run     *)
(* that submits a new payment is charged with it; a payment that is        *)
(* dropped frees its run, which is over or waits in vain.                  *)

Payments == {tx \in pool \union succeeded : tx.op # "trust"}

\* The runs of the tools that pay.
PaySlots == UNION {{t} \X (1..runs[t]) : t \in Paying}

\* The run that goes on has not submitted its payment.
Unpaid(t) ==
  outcome[t] = "runs" /\ ~(waits[t] /\ Steps(t)[pc[t]] \in {"pay", "asset"})

\* The payments are charged to different runs, of those that have paid.
Charged ==
  \E f \in Injection(Payments, PaySlots) :
    \A t \in Paying, tx \in Payments : Unpaid(t) => f[tx] # <<t, runs[t]>>

\* What makes that an invariant: there are finitely many runs to charge, and
\* a tool's run begins before it ends.
PayInv ==
  /\ IsFiniteSet(PaySlots)
  /\ \A t \in Tools : outcome[t] = "runs" => runs[t] # 0
  /\ Charged

\* A payment is the last thing a run asks for.
LEMMA PaymentLast ==
  ASSUME NEW t \in Tools, NEW i \in 1..Len(Steps(t)), Steps(t)[i] \in {"pay", "asset"}
  PROVE  i = Len(Steps(t)) /\ t \in Paying
<1> Kind[t] \in Kinds
  BY ToolsAssumption
<1>1. CASE Kind[t] \in {"payment", "asset"}
  BY <1>1 DEF Steps, PaymentSteps, AssetSteps, Paying, Submitting
<1>2. CASE Kind[t] = "issue"
  BY <1>2 DEF Steps, IssueSteps, Paying, Submitting
<1>3. CASE Kind[t] \in {"ops", "expect"}
  BY <1>3 DEF Steps, OpsSteps, Paying, Submitting
<1>4. CASE Kind[t] \in {"fund", "create"}
  BY <1>4 DEF Steps
<1>5. QED
  BY <1>1, <1>2, <1>3, <1>4 DEF Kinds

LEMMA SlotOf ==
  ASSUME NEW s
  PROVE  s \in PaySlots <=> \E t \in Paying : \E i \in 1..runs[t] : s = <<t, i>>
BY DEF PaySlots

\* Payments only go, and no run becomes one that has not paid.
LEMMA PaymentsGo ==
  ASSUME PayInv, runs' = runs, Payments' \subseteq Payments,
         \A t \in Paying : Unpaid(t)' => Unpaid(t),
         \A t \in Tools : outcome'[t] = "runs" => outcome[t] = "runs"
  PROVE  PayInv'
<1>1. PICK f \in Injection(Payments, PaySlots) :
        \A u \in Paying, tx \in Payments : Unpaid(u) => f[tx] # <<u, runs[u]>>
  BY DEF PayInv, Charged
<1> DEFINE g == [tx \in Payments' |-> f[tx]]
<1>2. PaySlots' = PaySlots /\ Paying' = Paying
  BY DEF PaySlots, Paying
<1>3. g \in Injection(Payments', PaySlots')
  BY <1>1, <1>2 DEF Injection, IsInjective
<1>4. \A t \in Paying, tx \in Payments' : Unpaid(t)' => g[tx] # <<t, runs'[t]>>
  BY <1>1
<1>5. Charged'
  <2> HIDE DEF g
  <2> QED  BY <1>2, <1>3, <1>4 DEF Charged
<1>6. QED
  BY <1>2, <1>3, <1>5 DEF PayInv

LEMMA PayLaunch ==
  ASSUME TypeOK, PayInv, NEW t \in Tools, Launch(t)
  PROVE  PayInv'
<1>1. /\ runs' = [runs EXCEPT ![t] = runs[t] + 1] /\ runs[t] \in Nat
      /\ outcome' = [outcome EXCEPT ![t] = "runs"] /\ waits' = waits
      /\ pool' = pool /\ succeeded' = succeeded
      /\ \A u \in Tools : u # t => pc'[u] = pc[u]
  BY DEF Launch, network, TypeOK
<1>2. Paying \subseteq Tools /\ Paying' = Paying /\ Payments' = Payments
  BY <1>1 DEF Paying, Payments
<1>3. \A u \in Tools : outcome'[u] = "runs" => runs'[u] # 0
  BY <1>1 DEF PayInv, TypeOK
<1>4. \A u \in Tools : runs[u] \in Nat /\ (u # t => runs'[u] = runs[u]) /\ (u = t => runs'[u] = runs[u] + 1)
  BY <1>1 DEF TypeOK
<1>5. PaySlots' = IF t \in Paying THEN PaySlots \union {<<t, runs[t] + 1>>} ELSE PaySlots
  <2>1. ASSUME NEW s
        PROVE  s \in PaySlots' <=> s \in PaySlots \/ (t \in Paying /\ s = <<t, runs[t] + 1>>)
    <3>1. s \in PaySlots' <=> \E u \in Paying : \E i \in 1..runs'[u] : s = <<u, i>>
      BY <1>2 DEF PaySlots
    <3>2. \A u \in Paying : u # t => 1..runs'[u] = 1..runs[u]
      BY <1>2, <1>4
    <3>3. t \in Paying => 1..runs'[t] = (1..runs[t]) \union {runs[t] + 1}
      BY <1>2, <1>4
    <3>4. QED
      BY <3>1, <3>2, <3>3, SlotOf
  <2>2. QED
    BY <2>1
<1>6. IsFiniteSet(PaySlots')
  BY <1>5, FS_AddElement DEF PayInv
<1>7. PICK f \in Injection(Payments, PaySlots) :
        \A u \in Paying, tx \in Payments : Unpaid(u) => f[tx] # <<u, runs[u]>>
  BY DEF PayInv, Charged
<1>8. f \in Injection(Payments', PaySlots')
  BY <1>2, <1>5, <1>7 DEF Injection, IsInjective
<1>9. ASSUME NEW u \in Paying, NEW tx \in Payments, Unpaid(u)'
      PROVE  f[tx] # <<u, runs'[u]>>
  <2>1. CASE u = t
    <3>1. f[tx] \in PaySlots
      BY <1>7 DEF Injection, IsInjective
    <3>2. PICK v \in Paying : \E i \in 1..runs[v] : f[tx] = <<v, i>>
      BY <3>1, SlotOf
    <3>3. QED
      BY <1>2, <1>4, <2>1, <3>2
  <2>2. CASE u # t
    <3>1. Unpaid(u) /\ runs'[u] = runs[u]
      BY <1>1, <1>2, <1>4, <1>9, <2>2 DEF Unpaid, TypeOK
    <3>2. QED
      BY <1>7, <3>1
  <2>3. QED
    BY <2>1, <2>2
<1>10. Charged'
  BY <1>2, <1>8, <1>9 DEF Charged
<1>11. QED
  BY <1>3, <1>6, <1>8, <1>10 DEF PayInv

LEMMA PaySubmit ==
  ASSUME TypeOK, PayInv, NEW t \in Tools, Submit(t)
  PROVE  PayInv'
<1>1. /\ outcome[t] = "runs" /\ ~waits[t] /\ Steps(t)[pc[t]] \in Submissions
      /\ pc' = pc /\ outcome' = outcome /\ runs' = runs /\ succeeded' = succeeded
      /\ waits' = [waits EXCEPT ![t] = TRUE]
      /\ pool' = IF TxOf(t) \in succeeded THEN pool ELSE pool \union {TxOf(t)}
  BY DEF Submit, At, Submissions
<1>2. TxOf(t).op = Steps(t)[pc[t]]
  BY <1>1, TxType
<1>3. \A u \in Tools : Unpaid(u)' => Unpaid(u)
  BY <1>1 DEF Unpaid, TypeOK
<1>4. Paying \subseteq Tools /\ Paying' = Paying /\ PaySlots' = PaySlots
  BY <1>1 DEF Paying, PaySlots
<1>5. CASE TxOf(t).op = "trust" \/ TxOf(t) \in Payments
  <2>1. Payments' \subseteq Payments
    BY <1>1, <1>5 DEF Payments
  <2>2. QED
    BY <1>1, <1>3, <1>4, <2>1, PaymentsGo
<1>6. CASE TxOf(t).op # "trust" /\ TxOf(t) \notin Payments
  <2>1. Payments' = Payments \union {TxOf(t)}
    BY <1>1, <1>6 DEF Payments
  <2>2. t \in Paying /\ Steps(t)[pc[t]] \in {"pay", "asset"}
    BY <1>1, <1>2, <1>6, PaymentLast DEF Submissions, TypeOK
  <2>3. Unpaid(t) /\ ~Unpaid(t)'
    BY <1>1, <2>2 DEF Unpaid, TypeOK
  <2>4. PICK f \in Injection(Payments, PaySlots) :
          \A u \in Paying, tx \in Payments : Unpaid(u) => f[tx] # <<u, runs[u]>>
    BY DEF PayInv, Charged
  <2> DEFINE g == [tx \in Payments' |-> IF tx \in Payments THEN f[tx] ELSE <<t, runs[t]>>]
  <2>5. <<t, runs[t]>> \in PaySlots
    <3>1. runs[t] \in 1..runs[t]
      BY <1>1 DEF PayInv, TypeOK
    <3>2. QED
      BY <2>2, <3>1, SlotOf
  <2>6. g \in [Payments' -> PaySlots]
    BY <2>4, <2>5 DEF Injection, IsInjective
  <2>7. ASSUME NEW a \in Payments', NEW b \in Payments', g[a] = g[b]
        PROVE  a = b
    <3>1. \A tx \in Payments : f[tx] # <<t, runs[t]>>
      BY <2>2, <2>3, <2>4
    <3>2. CASE a \in Payments /\ b \in Payments
      BY <2>4, <2>7, <3>2 DEF Injection, IsInjective
    <3>3. CASE a \notin Payments \/ b \notin Payments
      BY <2>1, <2>7, <3>1, <3>3
    <3>4. QED
      BY <3>2, <3>3
  <2>8. g \in Injection(Payments', PaySlots')
    BY <1>4, <2>6, <2>7 DEF Injection, IsInjective
  <2>9. ASSUME NEW u \in Paying, NEW tx \in Payments', Unpaid(u)'
        PROVE  g[tx] # <<u, runs'[u]>>
    <3>1. u # t /\ Unpaid(u) /\ u \in Tools
      BY <1>3, <1>4, <2>3, <2>9
    <3>2. QED
      BY <1>1, <2>4, <3>1
  <2>10. Charged'
    <3> HIDE DEF g
    <3> QED  BY <1>4, <2>8, <2>9 DEF Charged
  <2>11. QED
    BY <1>1, <1>4, <2>8, <2>10 DEF PayInv
<1>7. QED
  BY <1>5, <1>6

\* What a tool does besides keeps the charges: it ends its run, or goes on
\* to a step before the payment.
LEMMA PayStep ==
  ASSUME AccountsInv, PayInv, NEW t \in Tools, Step(t), ~Submit(t)
  PROVE  PayInv'
<1>0. TypeOK /\ Waiting(t) /\ Len(Steps(t)) \in Nat \ {0} /\ pc[t] \in 1..Len(Steps(t))
  BY StepsShape DEF AccountsInv, ToolInv, TypeOK
<1>1. ASSUME runs' = runs, pool' = pool, succeeded' = succeeded,
             \A u \in Tools : u # t => outcome'[u] = outcome[u] /\ pc'[u] = pc[u] /\ waits'[u] = waits[u],
             outcome'[t] = "runs" => outcome[t] = "runs" /\ Unpaid(t)
      PROVE  PayInv'
  <2>1. Payments' = Payments
    BY <1>1 DEF Payments
  <2>2. ASSUME NEW u \in Paying, Unpaid(u)'
        PROVE  Unpaid(u)
    BY <1>1, <2>2 DEF Unpaid, Paying
  <2>3. \A u \in Tools : outcome'[u] = "runs" => outcome[u] = "runs"
    BY <1>1
  <2>4. QED
    BY <1>1, <2>1, <2>2, <2>3, PaymentsGo
<1>2. ASSUME End(t, "ok") \/ End(t, "failed"), pool' = pool, succeeded' = succeeded
      PROVE  PayInv'
  BY <1>0, <1>1, <1>2 DEF End, TypeOK
<1>3. CASE LoadAccount(t)
  BY <1>0, <1>1, <1>3 DEF LoadAccount, At, TypeOK, Unpaid, network
<1>4. CASE SubmitSucceeds(t)
  <2>1. CASE pc[t] = Len(Steps(t))
    <3>1. End(t, "ok") \/ End(t, "failed")
      BY <1>4, <2>1 DEF SubmitSucceeds, Advance
    <3>2. QED
      BY <1>2, <1>4, <3>1 DEF SubmitSucceeds, network
  <2>2. CASE pc[t] # Len(Steps(t))
    <3>1. Unpaid(t)
      BY <1>0, <1>4, <2>2, PaymentLast DEF SubmitSucceeds, Waiting, Unpaid
    <3>2. QED
      BY <1>0, <1>1, <1>4, <2>2, <3>1 DEF SubmitSucceeds, Advance, TypeOK, Unpaid, network
  <2>3. QED
    BY <2>1, <2>2
<1>5. CASE LoadFails(t) \/ SubmitFails(t) \/ TxFails(t) \/ TimesOut(t)
  <2>1. End(t, "ok") \/ End(t, "failed")
    BY <1>5, FailsEnds DEF LoadFails, SubmitFails, TxFails, TimesOut
  <2>2. QED
    BY <1>2, <1>5, <2>1 DEF LoadFails, SubmitFails, TxFails, TimesOut, network
<1>6. CASE FundAccount(t)
  <2>1. PICK answer \in {"ok", "refused", "unavailable", "lost"} :
          /\ Friendbot(t, answer)
          /\ IF TryAgain(t, answer)
             THEN /\ attempt' = [attempt EXCEPT ![t] = @ + 1]
                  /\ UNCHANGED <<runs, outcome, pc, waits, loaded, sent>>
             ELSE End(t, IF answer = "ok" THEN "ok" ELSE "failed")
    BY <1>6 DEF FundAccount
  <2>2. pool' = pool /\ succeeded' = succeeded /\ Unpaid(t)
    BY <1>6, <2>1 DEF Friendbot, FundAccount, At, Unpaid
  <2>3. CASE TryAgain(t, answer)
    BY <1>1, <2>1, <2>2, <2>3 DEF Unpaid
  <2>4. CASE ~TryAgain(t, answer)
    BY <1>2, <2>1, <2>2, <2>4
  <2>5. QED
    BY <2>3, <2>4
<1>7. CASE CreateAccount(t)
  BY <1>2, <1>7 DEF CreateAccount, Friendbot
<1>8. QED
  BY <1>3, <1>4, <1>5, <1>6, <1>7 DEF Step

LEMMA PayNext ==
  ASSUME AccountsInv, PayInv, [Next]_vars
  PROVE  PayInv'
<1>1. ASSUME NEW tx \in pool, Apply(tx) \/ Drop(tx)
      PROVE  PayInv'
  <2>1. runs' = runs /\ outcome' = outcome /\ pc' = pc /\ waits' = waits
    BY <1>1 DEF Apply, Drop
  <2>2. Payments' \subseteq Payments
    BY <1>1 DEF Apply, Drop, Payments
  <2>3. QED
    BY <2>1, <2>2, PaymentsGo DEF Unpaid
<1>2. CASE UNCHANGED vars
  <2>1. Payments' = Payments
    BY <1>2 DEF vars, network, Payments
  <2>2. QED
    BY <1>2, <2>1, PaymentsGo DEF vars, Unpaid
<1>3. QED
  BY <1>1, <1>2, PayLaunch, PaySubmit, PayStep DEF Next, AccountsInv, Step

LEMMA PayInit == Init => PayInv
<1> SUFFICES ASSUME Init
             PROVE  PayInv
  OBVIOUS
<1>1. \A t \in Tools : runs[t] = 0 /\ outcome[t] = "new"
  BY DEF Init
<1>2. Payments = {}
  BY DEF Init, Payments
<1>3. PaySlots = {}
  BY <1>1 DEF PaySlots, Paying
<1> DEFINE f == [tx \in {} |-> 0]
<1>4. f \in Injection(Payments, PaySlots)
  BY <1>2, <1>3 DEF Injection, IsInjective
<1>5. Charged
  BY <1>2, <1>4 DEF Charged
<1>6. QED
  BY <1>1, <1>3, <1>5, FS_EmptySet DEF PayInv

\* There are no more payments than runs that pay: neither a time-out, nor a
\* run again after a failure, nor the network pays twice for one run.
THEOREM PaidCorrect == Spec => []PaidAtMostRuns
<1>1. PayInv => PaidAtMostRuns
  <2> SUFFICES ASSUME PayInv
               PROVE  PaidAtMostRuns
    OBVIOUS
  <2> DEFINE paid == {tx \in succeeded : tx.op # "trust"}
  <2>1. PICK f \in Injection(Payments, PaySlots) : TRUE
    BY DEF PayInv, Charged
  <2>2. IsFiniteSet(Payments) /\ Cardinality(Payments) <= Cardinality(PaySlots)
    BY <2>1, FS_Injection DEF PayInv
  <2>3. paid \subseteq Payments
    BY DEF Payments
  <2>4. Cardinality(paid) <= Cardinality(Payments) /\ Cardinality(paid) \in Nat
    BY <2>2, <2>3, FS_Subset, FS_CardinalityType
  <2>5. Cardinality(PaySlots) \in Nat /\ Cardinality(Payments) \in Nat
    BY <2>2, FS_CardinalityType DEF PayInv
  <2>6. QED
    BY <2>2, <2>4, <2>5 DEF PaidAtMostRuns, RunsOf, PaySlots
<1>2. PayInv /\ AccountsInv /\ [Next]_vars => PayInv'
  BY PayNext
<1>3. QED
  BY <1>1, <1>2, PayInit, AccountsAlways, PTL DEF Spec
=============================================================================
