------------------------------- MODULE TxPages -------------------------------
(***************************************************************************)
(* Client.GetTransactions (rpc/client.go): the transactions of one ledger, *)
(* asked for page by page from an endpoint that goes on ingesting ledgers, *)
(* and that the fetchers of RpcFetch use at the same time.                 *)
(*                                                                         *)
(* The transactions of the network are numbered from 1 through all         *)
(* ledgers; a cursor is the number of a transaction, as a TOID is, and 0   *)
(* stands for the empty string.  A step is one exchange, with the loop     *)
(* over the page it answers.                                               *)
(***************************************************************************)
EXTENDS RpcFetch, Sequences

CONSTANTS
  Client,       \* the endpoint of the client
  Cursors,      \* bound: what callers pass as lastCursor
  Limit,        \* the page size the caller asks for
  Before        \* the number of transactions before each ledger

ASSUME ClientAssumption == Client \in Endpoints /\ Cursors \subseteq Nat
ASSUME LimitAssumption == Limit \in Nat \ {0}
ASSUME BeforeAssumption ==
  /\ Before \in [1..(MaxLedger + 1) -> Nat]
  /\ \A l, m \in 1..(MaxLedger + 1) : l <= m => Before[l] <= Before[m]

VARIABLES
  stage,        \* of the call: "idle", "request", "done" or "failed"
  ledgerNum,    \* the ledger asked for
  start,        \* the lastCursor of the caller
  lastCursor,
  transactions, \* what was collected, in order
  omits,        \* the endpoint may leave out the cursor of its last transaction
  closed,       \* history: the endpoint had the ledger when it was called
  hollow        \* history: a reply without a result ended the call

call == <<ledgerNum, start, omits, closed>>
pageVars == <<stage, call, lastCursor, transactions, hollow>>

Min2(a, b) == IF a < b THEN a ELSE b

Held == Before[tip[Client] + 1]   \* the endpoint's last transaction

----------------------------------------------------------------------------

Call ==
  /\ stage = "idle"
  /\ ledgerNum' \in 1..MaxLedger
  /\ start' \in Cursors /\ start' <= Held
  /\ omits' \in BOOLEAN
  /\ closed' = (ledgerNum' <= tip[Client])
  /\ lastCursor' = start'
  /\ transactions' = <<>>
  /\ hollow' = FALSE
  /\ stage' = "request"
  /\ UNCHANGED vars

\* NewParams: the ledger is only sent without a cursor.  The page holds the
\* transactions after this one.
BeginsAfter == IF lastCursor = 0 THEN Before[ledgerNum] ELSE lastCursor

\* The last transaction of the page.
PageEnd == Min2(BeginsAfter + Limit, Held)

InLedger(t) == Before[ledgerNum] < t /\ t <= Before[ledgerNum + 1]

\* Mutant: foreign transactions are not looked for.
TakenPage == PageEnd - BeginsAfter

\* How many transactions are taken: those before the first foreign one.
Taken ==
  IF ~InLedger(BeginsAfter + 1) THEN 0
  ELSE Min2(PageEnd, Before[ledgerNum + 1]) - BeginsAfter

\* Mutant: an empty page does not end the loop.
FetchedAllForeign(cursor) ==
  \/ cursor = 0
  \/ BeginsAfter + Taken < PageEnd

\* An empty page, no cursor, or a foreign transaction.
FetchedAll(cursor) ==
  \/ PageEnd = BeginsAfter
  \/ cursor = 0
  \/ BeginsAfter + Taken < PageEnd

\* The endpoint answers a page.
ReadPage ==
  /\ stage = "request"
  /\ lastCursor # 0 \/ ledgerNum <= tip[Client]
  /\ transactions' = transactions \o [i \in 1..Taken |-> BeginsAfter + i]
  /\ \E cursor \in {PageEnd} \union (IF omits /\ PageEnd = Held THEN {0} ELSE {}) :
       IF FetchedAll(cursor)
       THEN stage' = "done" /\ UNCHANGED lastCursor
       ELSE lastCursor' = cursor /\ UNCHANGED stage
  /\ UNCHANGED <<vars, call, hollow>>

\* The HTTP status is not looked at, and a body with neither a result nor an
\* error decodes to no transactions and an empty cursor: the loop ends, with
\* success and what the pages before have brought.
ReadNoResult ==
  /\ stage = "request"
  /\ hollow' = TRUE
  /\ stage' = "done"
  /\ UNCHANGED <<vars, call, lastCursor, transactions>>

\* The endpoint refuses a ledger it does not have, or the exchange fails.
PageFails ==
  /\ stage = "request"
  /\ stage' = "failed"
  /\ UNCHANGED <<vars, call, lastCursor, transactions, hollow>>

PagesInit ==
  /\ stage = "idle"
  /\ ledgerNum = 1 /\ start = 0 /\ lastCursor = 0
  /\ transactions = <<>>
  /\ omits = FALSE /\ closed = FALSE /\ hollow = FALSE

----------------------------------------------------------------------------
(* The reader and the fetchers together.                                   *)

RefusesLedger == lastCursor = 0 /\ ledgerNum > tip[Client] /\ PageFails

SystemInit == Init /\ PagesInit

SystemNext ==
  \/ Next /\ UNCHANGED pageVars
  \/ Call \/ ReadPage \/ ReadNoResult \/ PageFails

SystemSpec == SystemInit /\ [][SystemNext]_<<vars, pageVars>>

\* The fetchers' fairness, and a reader whose calls are answered or refused.
FairSystem ==
  /\ SystemSpec
  /\ \A w \in Workers : WF_vars(Step(w) /\ UNCHANGED pageVars)
  /\ \A e \in Endpoints : WF_vars(Ingest(e) /\ UNCHANGED pageVars)
  /\ WF_pageVars(ReadPage \/ RefusesLedger)

----------------------------------------------------------------------------
(* Properties.                                                             *)

\* Where a caller may resume: at the ledger, or after a transaction of it or
\* the last one before it, once the ledger is closed.
ResumesInside ==
  start = 0 \/ (closed /\ Before[ledgerNum] <= start /\ start <= Before[ledgerNum + 1])

From == IF start = 0 THEN Before[ledgerNum] ELSE start

\* A successful call returns every transaction of the ledger after the cursor,
\* once and in order, whatever the page size, wherever pages end, and although
\* ledgers arrive between pages; or, only where a reply without a result ended
\* it, the first of them, none left out and none twice.
PagesExact ==
  stage = "done" /\ ResumesInside =>
    LET all == Before[ledgerNum + 1] - From
    IN \E n \in IF hollow THEN 0..all ELSE {all} :
         transactions = [i \in 1..n |-> From + i]

\* A call ends, also when every page it gets is full.
PagesEnd == (stage = "request") ~> (stage \in {"done", "failed"})
=============================================================================
