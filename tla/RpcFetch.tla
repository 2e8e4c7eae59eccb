------------------------------ MODULE RpcFetch ------------------------------
(***************************************************************************)
(* rpc.Fetcher.Fetch (rpc/fetcher.go) run by several workers at once, as   *)
(* `firestellar fetch rpc` does when --block-fetch-batch-size is above 1:  *)
(* the workers call different endpoints and share one lastBlockInfo, which *)
(* nothing protects.  Each endpoint is at its own ledger.  The poller that *)
(* hands out block numbers and tries a failed fetch again at the next      *)
(* endpoint is firehose-core's, modelled as fetcher.go:74-93 uses it.      *)
(*                                                                         *)
(* A step is one read or write of lastBlockInfo.blockNum, or one exchange  *)
(* with the endpoint; the request to getLatestLedger and the assignment of *)
(* its answer are two steps, since answers of two workers may cross.       *)
(***************************************************************************)
EXTENDS Integers, FiniteSets

CONSTANTS
  Workers,      \* concurrent calls of Fetch
  Endpoints,    \* the --endpoints
  Rolled,       \* the endpoint the poller turns to after one that failed
  MaxLedger,    \* bound: ledgers the network closes
  MaxFailures   \* bound: exchanges that fail or time out

ASSUME RollAssumption == Rolled \in [Endpoints -> Endpoints]
ASSUME EndpointAssumption == Endpoints # {}
ASSUME NumberAssumption == MaxLedger \in Nat \ {0} /\ MaxFailures \in Nat

VARIABLES
  latest,       \* lastBlockInfo.blockNum, shared by the workers
  pc,           \* what each worker does next
  request,      \* requestBlockNum of each worker's call
  endpoint,     \* the endpoint each worker talks to
  answer,       \* getLatestLedger's answer on its way to each worker
  tip,          \* the last ledger each endpoint has
  nextBlock,    \* the block number the poller hands out next
  fetched,      \* blocks whose Fetch returned
  failures      \* history: exchanges that failed, endpoint and ledger aside

pollerVars == <<nextBlock, fetched>>
vars == <<latest, pc, request, endpoint, answer, tip, pollerVars, failures>>

States == {"idle", "gate", "latest", "assign", "test", "ledger"}

Goto(w, s) == pc' = [pc EXCEPT ![w] = s]

\* The poller starts a Fetch of the next block number on an idle worker.
Begin(w) ==
  /\ pc[w] = "idle"
  /\ nextBlock <= MaxLedger
  /\ request' = [request EXCEPT ![w] = nextBlock]
  /\ nextBlock' = nextBlock + 1
  /\ Goto(w, "gate")
  /\ UNCHANGED <<latest, endpoint, answer, tip, fetched, failures>>

\* Mutants: the loop asks for more, or is content with less, than the ledger.
KnownStrictly(w) == latest > request[w]
KnownNearly(w) == latest + 1 >= request[w]

\* The condition of the waiting loop.
Known(w) == latest >= request[w]

\* Either the ledger is known to exist or the latest one is asked for, after
\* a pause.
Gate(w) ==
  /\ pc[w] = "gate"
  /\ Goto(w, IF Known(w) THEN "ledger" ELSE "latest")
  /\ UNCHANGED <<latest, request, endpoint, answer, tip, pollerVars, failures>>

\* The endpoint answers getLatestLedger.
AnswerLatest(w) ==
  /\ pc[w] = "latest"
  /\ answer' = [answer EXCEPT ![w] = tip[endpoint[w]]]
  /\ Goto(w, "assign")
  /\ UNCHANGED <<latest, request, endpoint, tip, pollerVars, failures>>

\* Mutant: a margin is kept that underflows on a young network.
AssignWithMargin(w) ==
  /\ pc[w] = "assign"
  /\ latest' = answer[w] - 2
  /\ answer' = [answer EXCEPT ![w] = 0]
  /\ Goto(w, "test")
  /\ UNCHANGED <<request, endpoint, tip, pollerVars, failures>>

\* The answer is assigned, whether or not it is above what others assigned.
AssignLatest(w) ==
  /\ pc[w] = "assign"
  /\ latest' = answer[w]
  /\ answer' = [answer EXCEPT ![w] = 0]
  /\ Goto(w, "test")
  /\ UNCHANGED <<request, endpoint, tip, pollerVars, failures>>

\* The shared number is read again, not the answer.
TestLatest(w) ==
  /\ pc[w] = "test"
  /\ Goto(w, IF Known(w) THEN "ledger" ELSE "gate")
  /\ UNCHANGED <<latest, request, endpoint, answer, tip, pollerVars, failures>>

\* The endpoint has the ledger: it is converted and returned.
FetchLedger(w) ==
  /\ pc[w] = "ledger"
  /\ request[w] <= tip[endpoint[w]]
  /\ fetched' = fetched \union {request[w]}
  /\ Goto(w, "idle")
  /\ UNCHANGED <<latest, request, endpoint, answer, tip, nextBlock, failures>>

\* Fetch returns an error and the poller calls it again, for the same block,
\* at the next endpoint.
FailFetch(w) ==
  /\ endpoint' = [endpoint EXCEPT ![w] = Rolled[endpoint[w]]]
  /\ answer' = [answer EXCEPT ![w] = 0]
  /\ Goto(w, "gate")
  /\ UNCHANGED <<latest, request, tip, pollerVars>>

\* The endpoint does not have the ledger ("ledger not found").
LedgerNotFound(w) ==
  /\ pc[w] = "ledger"
  /\ request[w] > tip[endpoint[w]]
  /\ FailFetch(w)
  /\ UNCHANGED failures

\* An exchange fails, runs into --max-block-fetch-duration, or returns
\* something that cannot be decoded.
ExchangeFails(w) ==
  /\ failures < MaxFailures
  /\ pc[w] \in {"latest", "assign", "ledger"}
  /\ FailFetch(w)
  /\ failures' = failures + 1

\* The HTTP status is not looked at and getLatestLedger's decoder allows any
\* fields: an error page in JSON reads as ledger 0.
AnswerNothing(w) ==
  /\ failures < MaxFailures
  /\ pc[w] = "latest"
  /\ answer' = [answer EXCEPT ![w] = 0]
  /\ failures' = failures + 1
  /\ Goto(w, "assign")
  /\ UNCHANGED <<latest, request, endpoint, tip, pollerVars>>

\* An endpoint ingests another ledger.
Ingest(e) ==
  /\ tip[e] < MaxLedger
  /\ tip' = [tip EXCEPT ![e] = @ + 1]
  /\ UNCHANGED <<latest, pc, request, endpoint, answer, pollerVars, failures>>

Init ==
  /\ latest = 0
  /\ pc = [w \in Workers |-> "idle"]
  /\ request = [w \in Workers |-> 0]
  /\ endpoint \in [Workers -> Endpoints]
  /\ answer = [w \in Workers |-> 0]
  /\ tip = [e \in Endpoints |-> 1]
  /\ nextBlock = 1
  /\ fetched = {}
  /\ failures = 0

Step(w) ==
  \/ Begin(w)
  \/ Gate(w)
  \/ AnswerLatest(w) \/ AssignLatest(w) \/ TestLatest(w)
  \/ FetchLedger(w) \/ LedgerNotFound(w)

Next ==
  \/ \E w \in Workers : Step(w) \/ ExchangeFails(w) \/ AnswerNothing(w)
  \/ \E e \in Endpoints : Ingest(e)

Spec == Init /\ [][Next]_vars

\* Every worker keeps running and every endpoint follows the network; no
\* exchange is obliged to fail.
FairSpec ==
  /\ Spec
  /\ \A w \in Workers : WF_vars(Step(w))
  /\ \A e \in Endpoints : WF_vars(Ingest(e))

----------------------------------------------------------------------------
(* Properties.                                                             *)

\* Every variable has its type.
TypeOK ==
  /\ latest \in Nat
  /\ pc \in [Workers -> States]
  /\ request \in [Workers -> Nat]
  /\ endpoint \in [Workers -> Endpoints]
  /\ answer \in [Workers -> Nat]
  /\ tip \in [Endpoints -> Nat]
  /\ nextBlock \in Nat
  /\ fetched \subseteq Nat
  /\ failures \in Nat

\* Some endpoint has the ledger.
Exists(n) == \E e \in Endpoints : n <= tip[e]

\* Whatever the workers overwrite in lastBlockInfo, none of them asks for a
\* ledger no endpoint has yet.
AsksOnlyForClosed == \A w \in Workers : pc[w] = "ledger" => Exists(request[w])

\* Every block the network closes is fetched, although the shared number can
\* go down under a worker that has just raised it and a lagging endpoint can
\* refuse a ledger another endpoint announced.
EveryBlockFetched == \A n \in 1..MaxLedger : <>(n \in fetched)
=============================================================================
