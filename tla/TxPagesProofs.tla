---------------------------- MODULE TxPagesProofs ----------------------------
(***************************************************************************)
(* Theorems on RpcFetch and on TxPages.  For any number of workers,        *)
(* endpoints, ledgers and failures no worker asks for a ledger too soon,   *)
(* and no block is lost between them; the fetchers beside the reader are   *)
(* those of RpcFetch; and the reader returns the ledger, for any page size *)
(* and any number of transactions, and gets on with every page.            *)
(***************************************************************************)
EXTENDS TxPages, SequenceTheorems, TLAPS

----------------------------------------------------------------------------
(* The fetchers.                                                           *)

USE RollAssumption, EndpointAssumption, NumberAssumption

\* Every step keeps the type of every variable.
LEMMA TypeStep ==
  ASSUME TypeOK, [Next]_vars
  PROVE  TypeOK'
<1> USE DEF TypeOK, States, Goto, pollerVars
<1>1. ASSUME NEW w \in Workers, Begin(w)
      PROVE  TypeOK'
  BY <1>1 DEF Begin
<1>2. ASSUME NEW w \in Workers, Gate(w) \/ TestLatest(w)
      PROVE  TypeOK'
  BY <1>2 DEF Gate, TestLatest
<1>3. ASSUME NEW w \in Workers, AnswerLatest(w)
      PROVE  TypeOK'
  BY <1>3 DEF AnswerLatest
<1>a. ASSUME NEW w \in Workers, AnswerNothing(w)
      PROVE  TypeOK'
  BY <1>a DEF AnswerNothing
<1>4. ASSUME NEW w \in Workers, AssignLatest(w)
      PROVE  TypeOK'
  BY <1>4 DEF AssignLatest
<1>5. ASSUME NEW w \in Workers, FetchLedger(w)
      PROVE  TypeOK'
  BY <1>5 DEF FetchLedger
<1>6. ASSUME NEW w \in Workers, LedgerNotFound(w) \/ ExchangeFails(w)
      PROVE  TypeOK'
  <2>1. Rolled[endpoint[w]] \in Endpoints
    OBVIOUS
  <2>2. FailFetch(w) /\ failures' \in Nat
    BY <1>6 DEF LedgerNotFound, ExchangeFails
  <2>3. QED
    BY <2>1, <2>2 DEF FailFetch
<1>7. ASSUME NEW e \in Endpoints, Ingest(e)
      PROVE  TypeOK'
  BY <1>7 DEF Ingest
<1>8. CASE UNCHANGED vars
  BY <1>8 DEF vars
<1>9. QED
  BY <1>1, <1>2, <1>3, <1>a, <1>4, <1>5, <1>6, <1>7, <1>8 DEF Next, Step

\* Every variable keeps its type.
THEOREM TypeCorrect == Spec => []TypeOK
<1>1. Init => TypeOK
  BY DEF Init, TypeOK, States
<1>2. QED
  BY <1>1, TypeStep, PTL DEF Spec

----------------------------------------------------------------------------
(* No worker asks for a ledger that does not exist.                        *)

\* What the workers know of the tip, and what is on its way to them, was true
\* of some endpoint once and stays true.
KnowledgeInv ==
  /\ TypeOK
  /\ Exists(latest)
  /\ \A w \in Workers : Exists(answer[w])
  /\ AsksOnlyForClosed

\* A ledger some endpoint has is not taken away.
LEMMA ExistsStable ==
  ASSUME TypeOK, [Next]_vars, NEW n \in Nat, Exists(n)
  PROVE  Exists(n)'
<1>1. CASE UNCHANGED tip
  BY <1>1 DEF Exists
<1>2. ASSUME NEW e \in Endpoints, Ingest(e)
      PROVE  Exists(n)'
  BY <1>2 DEF Exists, Ingest, TypeOK
<1>3. ASSUME Next, \A e \in Endpoints : ~Ingest(e)
      PROVE  UNCHANGED tip
  BY <1>3 DEF Next, Step, Begin, Gate, AnswerLatest, AnswerNothing, AssignLatest, TestLatest,
     FetchLedger, LedgerNotFound, ExchangeFails, FailFetch
<1>4. QED
  BY <1>1, <1>2, <1>3 DEF vars

\* Ledger 0, the initial knowledge, counts as existing.
LEMMA ZeroExists == TypeOK => Exists(0)
BY DEF TypeOK, Exists

\* KnowledgeInv is inductive.
LEMMA KnowledgeStep ==
  ASSUME KnowledgeInv, [Next]_vars
  PROVE  KnowledgeInv'
<1> USE DEF KnowledgeInv
<1>0. TypeOK' /\ Exists(0)'
  BY TypeStep, ZeroExists, ExistsStable
<1>a. \A n \in Nat : Exists(n) => Exists(n)'
  BY ExistsStable
<1>b. \A n, m \in Nat : n <= m /\ Exists(m)' => Exists(n)'
  BY <1>0 DEF Exists, TypeOK
<1>n. latest \in Nat /\ \A w \in Workers : answer[w] \in Nat /\ request[w] \in Nat
  BY DEF TypeOK
<1>1. Exists(latest)'
  <2>1. latest' = latest \/ \E w \in Workers : latest' = answer[w]
    BY DEF Next, Step, Begin, Gate, AnswerLatest, AnswerNothing, AssignLatest, TestLatest,
       FetchLedger, LedgerNotFound, ExchangeFails, FailFetch, Ingest, vars
  <2>2. \E n \in Nat : latest' = n /\ Exists(n)'
    BY <2>1, <1>a, <1>n
  <2>3. QED
    BY <2>2 DEF Exists
<1>2. ASSUME NEW w \in Workers
      PROVE  Exists(answer[w])'
  <2>1. \/ answer'[w] = answer[w]
        \/ answer'[w] = 0
        \/ answer'[w] = tip[endpoint[w]] /\ tip' = tip
    BY DEF Next, Step, Begin, Gate, AnswerLatest, AnswerNothing, AssignLatest, TestLatest,
       FetchLedger, LedgerNotFound, ExchangeFails, FailFetch, Ingest, vars, TypeOK
  <2>2. CASE answer'[w] = answer[w]
    <3>1. Exists(answer[w]) /\ answer[w] \in Nat
      BY <1>n
    <3>2. \E e \in Endpoints : answer[w] <= tip'[e]
      BY <3>1, <1>a DEF Exists
    <3>3. QED
      BY <2>2, <3>2 DEF Exists
  <2>3. CASE answer'[w] = 0
    BY <2>3, <1>0 DEF Exists
  <2>4. CASE answer'[w] = tip[endpoint[w]] /\ tip' = tip
    BY <2>4 DEF Exists, TypeOK
  <2>5. QED
    BY <2>1, <2>2, <2>3, <2>4
<1>3. ASSUME NEW w \in Workers, pc'[w] = "ledger"
      PROVE  Exists(request[w])'
  <2>1. /\ request'[w] = request[w]
        /\ pc[w] = "ledger" \/ Known(w)
    BY <1>3 DEF Next, Step, Begin, Gate, AnswerLatest, AnswerNothing, AssignLatest, TestLatest,
       FetchLedger, LedgerNotFound, ExchangeFails, FailFetch, Ingest, Goto, vars, TypeOK
  <2>2. Exists(request[w])
    BY <2>1, <1>n DEF AsksOnlyForClosed, Known, Exists, TypeOK
  <2>3. \E e \in Endpoints : request[w] <= tip'[e]
    BY <2>2, <1>a, <1>n DEF Exists
  <2>4. QED
    BY <2>1, <2>3 DEF Exists
<1>4. QED
  BY <1>0, <1>1, <1>2, <1>3 DEF AsksOnlyForClosed

\* However the answers of the endpoints cross, and whatever one worker
\* overwrites under another, no ledger is asked for before it is closed.
THEOREM AsksCorrect == Spec => []AsksOnlyForClosed
<1>1. Init => KnowledgeInv
  BY DEF Init, KnowledgeInv, TypeOK, States, Exists, AsksOnlyForClosed
<1>2. KnowledgeInv /\ [Next]_vars => KnowledgeInv'
  BY KnowledgeStep
<1>3. KnowledgeInv => AsksOnlyForClosed
  BY DEF KnowledgeInv
<1>4. QED
  BY <1>1, <1>2, <1>3, PTL DEF Spec

----------------------------------------------------------------------------
(* No block is lost between the workers, and none is fetched twice.        *)

\* Every number that was handed out has been fetched, or one worker, and no
\* other, has it, however often it has failed; what was fetched exists.
NothingLost ==
  /\ fetched \subseteq 1..(nextBlock - 1)
  /\ \A n \in fetched : Exists(n)
  /\ \A n \in 1..(nextBlock - 1) :
       n \in fetched \/ \E w \in Workers : pc[w] # "idle" /\ request[w] = n
  /\ \A w \in Workers : pc[w] # "idle" => request[w] \in (1..(nextBlock - 1)) \ fetched
  /\ \A v, w \in Workers :
       v # w /\ pc[v] # "idle" /\ pc[w] # "idle" => request[v] # request[w]

WorkInv == TypeOK /\ nextBlock >= 1 /\ NothingLost

LEMMA WorkStep ==
  ASSUME WorkInv, [Next]_vars
  PROVE  WorkInv'
<1>1. TypeOK /\ TypeOK'
  BY TypeStep DEF WorkInv
<1>2. /\ pc \in [Workers -> States] /\ request \in [Workers -> Nat] /\ nextBlock \in Nat
      /\ fetched \subseteq Nat /\ tip \in [Endpoints -> Nat] /\ endpoint \in [Workers -> Endpoints]
  BY <1>1 DEF TypeOK
<1>3. (\A n : Exists(n) => Exists(n)') \/ ~(tip' = tip)
  BY DEF Exists
\* A worker goes on, or begins again, with the same block.
<1>4. ASSUME NEW w \in Workers, pc[w] # "idle", NEW s \in States \ {"idle"}, Goto(w, s),
             UNCHANGED <<request, tip, nextBlock, fetched>>
      PROVE  WorkInv'
  <2>1. \A v \in Workers : pc'[v] # "idle" <=> pc[v] # "idle"
    BY <1>2, <1>4 DEF Goto
  <2>2. QED
    BY <1>1, <1>3, <1>4, <2>1 DEF WorkInv, NothingLost
<1>5. ASSUME NEW w \in Workers, Begin(w)
      PROVE  WorkInv'
  <2>1. /\ pc[w] = "idle" /\ pc' = [pc EXCEPT ![w] = "gate"]
        /\ request' = [request EXCEPT ![w] = nextBlock]
        /\ nextBlock' = nextBlock + 1 /\ fetched' = fetched /\ tip' = tip
    BY <1>5 DEF Begin, Goto
  <2>2. /\ pc'[w] = "gate" /\ request'[w] = nextBlock
        /\ \A v \in Workers : v # w => pc'[v] = pc[v] /\ request'[v] = request[v]
    BY <1>2, <2>1
  <2>3. 1..(nextBlock' - 1) = (1..(nextBlock - 1)) \union {nextBlock} /\ nextBlock' >= 1
    BY <1>2, <2>1 DEF WorkInv
  <2>4. nextBlock \notin 1..(nextBlock - 1)
    BY <1>2
  <2>5. /\ fetched' \subseteq 1..(nextBlock' - 1)
        /\ \A n \in fetched' : Exists(n)'
    BY <1>3, <2>1, <2>3 DEF WorkInv, NothingLost
  <2>6. \A n \in 1..(nextBlock' - 1) :
          n \in fetched' \/ \E v \in Workers : pc'[v] # "idle" /\ request'[v] = n
    <3> SUFFICES ASSUME NEW n \in 1..(nextBlock' - 1), n \notin fetched'
                 PROVE  \E v \in Workers : pc'[v] # "idle" /\ request'[v] = n
      OBVIOUS
    <3>1. CASE n = nextBlock
      BY <2>2, <3>1
    <3>2. CASE n # nextBlock
      <4>1. PICK v \in Workers : pc[v] # "idle" /\ request[v] = n
        BY <2>1, <2>3, <3>2 DEF WorkInv, NothingLost
      <4>2. QED
        BY <2>1, <2>2, <4>1
    <3>3. QED
      BY <3>1, <3>2
  <2>7. \A v \in Workers : pc'[v] # "idle" => request'[v] \in (1..(nextBlock' - 1)) \ fetched'
    BY <2>1, <2>2, <2>3, <2>4 DEF WorkInv, NothingLost
  <2>8. \A u, v \in Workers :
          u # v /\ pc'[u] # "idle" /\ pc'[v] # "idle" => request'[u] # request'[v]
    BY <2>1, <2>2, <2>4 DEF WorkInv, NothingLost
  <2>9. QED
    BY <1>1, <2>3, <2>5, <2>6, <2>7, <2>8 DEF WorkInv, NothingLost
<1>6. ASSUME NEW w \in Workers, FetchLedger(w)
      PROVE  WorkInv'
  <2>1. /\ pc[w] = "ledger" /\ pc' = [pc EXCEPT ![w] = "idle"]
        /\ fetched' = fetched \union {request[w]}
        /\ request' = request /\ nextBlock' = nextBlock /\ tip' = tip
        /\ request[w] <= tip[endpoint[w]]
    BY <1>6 DEF FetchLedger, Goto
  <2>2. pc'[w] = "idle" /\ \A v \in Workers : v # w => pc'[v] = pc[v]
    BY <1>2, <2>1
  <2>3. request[w] \in (1..(nextBlock - 1)) \ fetched
    BY <2>1 DEF WorkInv, NothingLost
  <2>4. Exists(request[w])
    BY <1>2, <2>1 DEF Exists
  <2>5. fetched' \subseteq 1..(nextBlock' - 1) /\ \A n \in fetched' : Exists(n)'
    BY <1>3, <2>1, <2>3, <2>4 DEF WorkInv, NothingLost
  <2>6. \A n \in 1..(nextBlock' - 1) :
          n \in fetched' \/ \E v \in Workers : pc'[v] # "idle" /\ request'[v] = n
    <3> SUFFICES ASSUME NEW n \in 1..(nextBlock' - 1), n \notin fetched'
                 PROVE  \E v \in Workers : pc'[v] # "idle" /\ request'[v] = n
      OBVIOUS
    <3>1. PICK v \in Workers : pc[v] # "idle" /\ request[v] = n
      BY <2>1 DEF WorkInv, NothingLost
    <3>2. v # w
      BY <2>1, <3>1
    <3>3. QED
      BY <2>1, <2>2, <3>1, <3>2
  <2>7. \A v \in Workers : pc'[v] # "idle" => request'[v] \in (1..(nextBlock' - 1)) \ fetched'
    BY <2>1, <2>2 DEF WorkInv, NothingLost
  <2>8. \A u, v \in Workers :
          u # v /\ pc'[u] # "idle" /\ pc'[v] # "idle" => request'[u] # request'[v]
    BY <2>1, <2>2 DEF WorkInv, NothingLost
  <2>9. QED
    BY <1>1, <2>1, <2>5, <2>6, <2>7, <2>8 DEF WorkInv, NothingLost
<1>7. ASSUME NEW w \in Workers, Gate(w) \/ TestLatest(w)
      PROVE  WorkInv'
  <2>1. PICK s \in States \ {"idle"} : Goto(w, s)
    BY <1>7 DEF Gate, TestLatest, States
  <2>2. pc[w] # "idle" /\ UNCHANGED <<request, tip, nextBlock, fetched>>
    BY <1>7 DEF Gate, TestLatest, pollerVars
  <2>3. QED
    BY <1>4, <2>1, <2>2
<1>8. ASSUME NEW w \in Workers, AnswerLatest(w) \/ AnswerNothing(w) \/ AssignLatest(w)
      PROVE  WorkInv'
  <2>1. PICK s \in States \ {"idle"} : Goto(w, s)
    BY <1>8 DEF AnswerLatest, AnswerNothing, AssignLatest, States
  <2>2. pc[w] # "idle" /\ UNCHANGED <<request, tip, nextBlock, fetched>>
    BY <1>8 DEF AnswerLatest, AnswerNothing, AssignLatest, pollerVars
  <2>3. QED
    BY <1>4, <2>1, <2>2
<1>9. ASSUME NEW w \in Workers, LedgerNotFound(w) \/ ExchangeFails(w)
      PROVE  WorkInv'
  <2>1. "gate" \in States \ {"idle"} /\ Goto(w, "gate")
    BY <1>9 DEF LedgerNotFound, ExchangeFails, FailFetch, States
  <2>2. pc[w] # "idle" /\ UNCHANGED <<request, tip, nextBlock, fetched>>
    BY <1>9 DEF LedgerNotFound, ExchangeFails, FailFetch, pollerVars
  <2>3. QED
    BY <1>4, <2>1, <2>2
<1>10. ASSUME NEW e \in Endpoints, Ingest(e)
       PROVE  WorkInv'
  <2>1. \A n \in Nat : Exists(n) => Exists(n)'
    BY <1>2, <1>10 DEF Ingest, Exists
  <2>2. QED
    BY <1>1, <1>2, <1>10, <2>1 DEF Ingest, WorkInv, NothingLost, pollerVars
<1>11. CASE UNCHANGED vars
  BY <1>1, <1>3, <1>11 DEF vars, pollerVars, WorkInv, NothingLost
<1>12. QED
  BY <1>5, <1>6, <1>7, <1>8, <1>9, <1>10, <1>11 DEF Next, Step

\* Whatever fails and however often the endpoint is changed, no block is lost
\* between the workers and none is fetched twice.
THEOREM NothingLostCorrect == Spec => []NothingLost
<1>1. Init => WorkInv
  BY DEF Init, WorkInv, NothingLost, TypeOK, States
<1>2. WorkInv => NothingLost
  BY DEF WorkInv
<1>3. QED
  BY <1>1, <1>2, WorkStep, PTL DEF Spec

----------------------------------------------------------------------------
(* The fetchers do not notice the reader.                                  *)

\* Every behaviour of the system is one of RpcFetch, calls of the reader
\* being stuttering steps.
LEMMA SystemFetches == SystemSpec => Spec
<1>1. SystemInit => Init
  BY DEF SystemInit
<1>2. [SystemNext]_<<vars, pageVars>> => [Next]_vars
  BY DEF SystemNext, Call, ReadPage, ReadNoResult, PageFails
<1>3. QED
  BY <1>1, <1>2, PTL DEF SystemSpec, Spec

\* Beside a reader too, no ledger is asked for before it is closed.
THEOREM AsksInSystem == SystemSpec => []AsksOnlyForClosed
BY SystemFetches, AsksCorrect, PTL

----------------------------------------------------------------------------
(* The reader.                                                             *)

\* An interval of transactions continued by the next one.
LEMMA Continue ==
  ASSUME NEW a \in Nat, NEW b \in Nat, NEW k \in Nat, a <= b
  PROVE  [i \in 1..(b - a) |-> a + i] \o [i \in 1..k |-> b + i]
           = [i \in 1..(b + k - a) |-> a + i]
<1> DEFINE s == [i \in 1..(b - a) |-> a + i]
           t == [i \in 1..k |-> b + i]
           u == [i \in 1..(b + k - a) |-> a + i]
<1>1. s \in Seq(Nat) /\ Len(s) = b - a /\ t \in Seq(Nat) /\ Len(t) = k
  OBVIOUS
<1>2. u \in Seq(Nat) /\ Len(u) = b + k - a
  OBVIOUS
<1>3. \A i \in 1..(b - a) : s[i] = a + i
  OBVIOUS
<1>4. \A i \in 1..k : t[i] = b + i
  OBVIOUS
<1>5. \A i \in 1..(b + k - a) : u[i] = a + i
  OBVIOUS
<1> HIDE DEF s, t, u
<1>6. /\ s \o t \in Seq(Nat) /\ Len(s \o t) = b + k - a
      /\ \A i \in 1..(b + k - a) : (s \o t)[i] = IF i <= b - a THEN s[i] ELSE t[i - (b - a)]
  <2>1. /\ s \o t \in Seq(Nat) /\ Len(s \o t) = Len(s) + Len(t)
        /\ \A i \in 1..(Len(s) + Len(t)) :
             (s \o t)[i] = IF i <= Len(s) THEN s[i] ELSE t[i - Len(s)]
    BY <1>1, ConcatProperties
  <2>2. Len(s) + Len(t) = b + k - a
    BY <1>1
  <2>3. QED
    BY <1>1, <2>1, <2>2
<1>7. ASSUME NEW i \in 1..(b + k - a)
      PROVE  (s \o t)[i] = u[i]
  <2>1. CASE i <= b - a
    BY <1>3, <1>5, <1>6, <2>1
  <2>2. CASE i > b - a
    <3>1. i - (b - a) \in 1..k
      BY <2>2
    <3>2. b + (i - (b - a)) = a + i
      OBVIOUS
    <3>3. ~(i <= b - a)
      BY <2>2
    <3>4. QED
      BY <1>4, <1>5, <1>6, <3>1, <3>2, <3>3
  <2>3. i <= b - a \/ i > b - a
    OBVIOUS
  <2>4. QED
    BY <2>1, <2>2, <2>3
<1>8. s \o t = u
  BY <1>2, <1>6, <1>7, SeqEqual
<1>9. QED
  BY <1>8 DEF s, t, u

\* What a call has collected is the ledger from its first transaction, or the
\* caller's cursor, up to where the next page begins.
CollectedInv ==
  /\ From <= BeginsAfter /\ BeginsAfter <= Before[ledgerNum + 1]
  /\ lastCursor # 0 => ledgerNum <= tip[Client]
  /\ transactions = [i \in 1..(BeginsAfter - From) |-> From + i]

ReaderInv ==
  /\ tip \in [Endpoints -> 0..MaxLedger]
  /\ stage \in {"idle", "request", "done", "failed"}
  /\ ledgerNum \in 1..MaxLedger
  /\ start \in Nat /\ lastCursor \in Nat
  /\ closed => ledgerNum <= tip[Client]
  /\ stage = "request" /\ ResumesInside => CollectedInv
  /\ PagesExact

\* The numbers of transactions that a call compares.
LEMMA Counts ==
  ASSUME ReaderInv
  PROVE  /\ Before[ledgerNum] \in Nat /\ Before[ledgerNum + 1] \in Nat /\ Held \in Nat
         /\ Before[ledgerNum] <= Before[ledgerNum + 1]
         /\ ledgerNum <= tip[Client] => Before[ledgerNum + 1] <= Held
         /\ From \in Nat /\ BeginsAfter \in Nat
         /\ ResumesInside => Before[ledgerNum] <= From
<1>1. /\ ledgerNum \in 1..(MaxLedger + 1) /\ ledgerNum + 1 \in 1..(MaxLedger + 1)
      /\ tip[Client] + 1 \in 1..(MaxLedger + 1)
      /\ ledgerNum <= tip[Client] => ledgerNum + 1 <= tip[Client] + 1
  BY ClientAssumption, NumberAssumption DEF ReaderInv
<1>2. /\ Before[ledgerNum] \in Nat /\ Before[ledgerNum + 1] \in Nat
      /\ Before[tip[Client] + 1] \in Nat
  BY <1>1, BeforeAssumption
<1>3. Before[ledgerNum] <= Before[ledgerNum + 1]
  BY <1>1, BeforeAssumption
<1>4. ledgerNum <= tip[Client] => Before[ledgerNum + 1] <= Before[tip[Client] + 1]
  BY <1>1, BeforeAssumption
<1>5. QED
  BY <1>2, <1>3, <1>4 DEF Held, From, BeginsAfter, ReaderInv, ResumesInside

\* A page takes what it has of the ledger.
LEMMA TakenExact ==
  ASSUME ReaderInv, stage = "request", ResumesInside, ReadPage
  PROVE  /\ ledgerNum <= tip[Client]
         /\ Taken \in Nat
         /\ BeginsAfter <= PageEnd /\ PageEnd \in Nat
         /\ BeginsAfter + Taken = Min2(PageEnd, Before[ledgerNum + 1])
<1>1. CollectedInv
  BY DEF ReaderInv
<1>2. ledgerNum <= tip[Client]
  BY <1>1 DEF ReadPage, CollectedInv
<1>3. /\ Before[ledgerNum] <= BeginsAfter /\ BeginsAfter <= Before[ledgerNum + 1]
      /\ Before[ledgerNum + 1] <= Held
  BY <1>1, <1>2, Counts DEF CollectedInv
<1>4. BeginsAfter <= PageEnd /\ PageEnd \in Nat
  BY <1>3, Counts, LimitAssumption DEF PageEnd, Min2
<1>5. InLedger(BeginsAfter + 1) <=> BeginsAfter < Before[ledgerNum + 1]
  BY <1>3, Counts DEF InLedger
<1>6. QED
  BY <1>2, <1>3, <1>4, <1>5, Counts DEF Taken, Min2

LEMMA ReadStep ==
  ASSUME ReaderInv, ReadPage
  PROVE  ReaderInv'
<1> DEFINE B == BeginsAfter
           E == Before[ledgerNum + 1]
           T == BeginsAfter + Taken
<1>1. /\ stage = "request"
      /\ UNCHANGED <<tip, ledgerNum, start, closed>>
  BY DEF ReadPage, vars, call
<1>2. From' = From /\ (ResumesInside' <=> ResumesInside) /\ Before[ledgerNum + 1]' = E
  BY <1>1 DEF From, ResumesInside
<1>3. PICK cursor \in {PageEnd} \union (IF omits /\ PageEnd = Held THEN {0} ELSE {}) :
        \/ FetchedAll(cursor) /\ stage' = "done" /\ lastCursor' = lastCursor
        \/ ~FetchedAll(cursor) /\ lastCursor' = cursor /\ stage' = stage
  BY DEF ReadPage
<1>n. PageEnd \in Nat
  BY Counts, LimitAssumption DEF PageEnd, Min2
<1>4. lastCursor' \in Nat /\ stage' \in {"request", "done"}
  BY <1>1, <1>3, <1>n DEF ReaderInv
<1>5. CASE ~ResumesInside
  BY <1>1, <1>2, <1>4, <1>5 DEF ReaderInv, PagesExact
<1>6. CASE ResumesInside
  <2>1. /\ ledgerNum <= tip[Client] /\ Taken \in Nat /\ B <= PageEnd
        /\ T = Min2(PageEnd, E)
    BY <1>1, <1>6, TakenExact
  <2>2. /\ From <= B /\ B <= E /\ E <= Held
        /\ transactions = [i \in 1..(B - From) |-> From + i]
    BY <1>1, <1>6, <2>1, Counts DEF ReaderInv, CollectedInv
  <2>3. transactions' = transactions \o [i \in 1..Taken |-> B + i]
    BY DEF ReadPage
  <2>n. B \in Nat /\ E \in Nat /\ From \in Nat /\ Held \in Nat
    BY Counts
  <2>4. transactions' = [i \in 1..(T - From) |-> From + i]
    BY <2>1, <2>2, <2>3, <2>n, Continue
  <2>5. CASE FetchedAll(cursor) /\ stage' = "done" /\ lastCursor' = lastCursor
    <3>1. \/ PageEnd = B
          \/ PageEnd = Held
          \/ T < PageEnd
      BY <1>3, <1>n, <2>1, <2>5, <2>n DEF FetchedAll
    <3>2. PageEnd = B => E <= B
      BY <2>2, <2>n, LimitAssumption DEF PageEnd, Min2
    <3>3. T = E
      BY <1>n, <2>1, <2>2, <2>n, <3>1, <3>2 DEF Min2
    <3>4. transactions' = [i \in 1..(E - From) |-> From + i]
      BY <2>4, <3>3
    <3>5. PagesExact'
      <4>1. E - From \in 0..(E - From)
        BY <2>2, <2>n
      <4>2. QED
        BY <1>2, <3>4, <4>1 DEF PagesExact
    <3>6. QED
      BY <1>1, <1>4, <2>5, <3>5 DEF ReaderInv
  <2>6. CASE ~FetchedAll(cursor) /\ lastCursor' = cursor /\ stage' = stage
    <3>1. cursor # 0 /\ cursor = PageEnd /\ T >= PageEnd
      BY <1>3, <1>n, <2>1, <2>6, <2>n DEF FetchedAll
    <3>2. T = PageEnd /\ PageEnd <= E
      BY <1>n, <2>1, <2>n, <3>1 DEF Min2
    <3>3. BeginsAfter' = PageEnd
      BY <2>6, <3>1 DEF BeginsAfter
    <3>4. From <= PageEnd
      BY <1>n, <2>1, <2>2, <2>n
    <3>5. CollectedInv'
      BY <1>1, <1>2, <2>1, <2>4, <3>2, <3>3, <3>4 DEF CollectedInv
    <3>6. QED
      BY <1>1, <1>4, <2>6, <3>5 DEF ReaderInv, PagesExact
  <2>7. QED
    BY <1>3, <2>5, <2>6
<1>7. QED
  BY <1>5, <1>6

\* A reply without a result leaves what was collected, a beginning of the
\* rest of the ledger.
LEMMA NoResultStep ==
  ASSUME ReaderInv, ReadNoResult
  PROVE  ReaderInv'
<1>1. /\ stage = "request" /\ stage' = "done" /\ hollow' = TRUE
      /\ UNCHANGED <<tip, ledgerNum, start, closed, lastCursor, transactions>>
  BY DEF ReadNoResult, vars, call
<1>2. /\ From' = From /\ (ResumesInside' <=> ResumesInside)
      /\ Before[ledgerNum + 1]' = Before[ledgerNum + 1]
  BY <1>1 DEF From, ResumesInside
<1>3. ASSUME ResumesInside
      PROVE  \E n \in 0..(Before[ledgerNum + 1] - From) :
               transactions = [i \in 1..n |-> From + i]
  <2>1. CollectedInv
    BY <1>1, <1>3 DEF ReaderInv
  <2>2. BeginsAfter - From \in 0..(Before[ledgerNum + 1] - From)
    BY <2>1, Counts DEF CollectedInv
  <2>3. QED
    BY <2>1, <2>2 DEF CollectedInv
<1>4. PagesExact'
  BY <1>1, <1>2, <1>3 DEF PagesExact
<1>5. QED
  BY <1>1, <1>4 DEF ReaderInv

LEMMA CallStep ==
  ASSUME ReaderInv, Call
  PROVE  ReaderInv'
<1>1. /\ tip' = tip /\ stage' = "request" /\ ledgerNum' \in 1..MaxLedger
      /\ start' \in Nat /\ lastCursor' = start' /\ transactions' = <<>>
      /\ closed' = (ledgerNum' <= tip[Client])
  BY ClientAssumption DEF Call, vars
<1>2. /\ Before[ledgerNum']  \in Nat /\ Before[ledgerNum' + 1] \in Nat
      /\ Before[ledgerNum'] <= Before[ledgerNum' + 1]
  <2>1. PICK l \in 1..MaxLedger : ledgerNum' = l
    BY <1>1
  <2>2. l \in 1..(MaxLedger + 1) /\ l + 1 \in 1..(MaxLedger + 1) /\ l <= l + 1
    BY NumberAssumption
  <2>3. /\ Before[l] \in Nat /\ Before[l + 1] \in Nat
        /\ Before[l] <= Before[l + 1]
    BY <2>2, BeforeAssumption
  <2>4. QED
    BY <2>1, <2>3
<1>3. BeginsAfter' = From'
  BY <1>1 DEF BeginsAfter, From
<1>4. From' \in Nat
  BY <1>1, <1>2 DEF From
<1>5. \A f \in Nat : <<>> = [i \in 1..(f - f) |-> f + i]
  OBVIOUS
<1>6. ResumesInside' => CollectedInv'
  <2>1. SUFFICES ASSUME ResumesInside'
                 PROVE  CollectedInv'
    OBVIOUS
  <2>2. transactions' = [i \in 1..(BeginsAfter' - From') |-> From' + i]
    BY <1>1, <1>3, <1>4, <1>5
  <2>3. From' <= BeginsAfter'
    BY <1>3, <1>4
  <2>4. BeginsAfter' <= Before[ledgerNum' + 1]
    BY <1>2, <1>3, <2>1 DEF From, ResumesInside
  <2>5. lastCursor' # 0 => ledgerNum' <= tip'[Client]
    BY <1>1, <2>1 DEF ResumesInside
  <2>6. QED
    BY <2>2, <2>3, <2>4, <2>5 DEF CollectedInv
<1>7. QED
  BY <1>1, <1>6 DEF ReaderInv, PagesExact

\* The endpoint does not lose ledgers.
LEMMA TipGrows ==
  ASSUME ReaderInv, Next
  PROVE  tip' \in [Endpoints -> 0..MaxLedger] /\ tip[Client] <= tip'[Client]
<1>1. CASE tip' = tip
  BY <1>1, ClientAssumption, NumberAssumption DEF ReaderInv
<1>2. ASSUME NEW e \in Endpoints, Ingest(e)
      PROVE  tip' \in [Endpoints -> 0..MaxLedger] /\ tip[Client] <= tip'[Client]
  BY <1>2, ClientAssumption, NumberAssumption DEF ReaderInv, Ingest
<1>3. (\E e \in Endpoints : Ingest(e)) \/ tip' = tip
  BY DEF Next, Step, Begin, Gate, AnswerLatest, AnswerNothing, AssignLatest,
     TestLatest, FetchLedger, LedgerNotFound, ExchangeFails, FailFetch
<1>4. QED
  BY <1>1, <1>2, <1>3

\* Ledgers that an endpoint ingests change nothing for a call.
LEMMA FetchersStep ==
  ASSUME ReaderInv, Next, UNCHANGED pageVars
  PROVE  ReaderInv'
<1>1. UNCHANGED <<stage, ledgerNum, start, closed, lastCursor, transactions, hollow>>
  BY DEF pageVars, call
<1>2. tip' \in [Endpoints -> 0..MaxLedger] /\ tip[Client] <= tip'[Client]
  BY TipGrows
<1>3. /\ From' = From /\ BeginsAfter' = BeginsAfter
      /\ ResumesInside' <=> ResumesInside
      /\ PagesExact' <=> PagesExact
  BY <1>1 DEF From, BeginsAfter, ResumesInside, PagesExact
<1>4. \A n \in Nat : n <= tip[Client] => n <= tip'[Client]
  BY <1>2, ClientAssumption, NumberAssumption DEF ReaderInv
<1>5. ledgerNum \in Nat
  BY NumberAssumption DEF ReaderInv
<1>6. CollectedInv => CollectedInv'
  BY <1>1, <1>3, <1>4, <1>5 DEF CollectedInv
<1>7. QED
  BY <1>1, <1>2, <1>3, <1>4, <1>5, <1>6 DEF ReaderInv

LEMMA ReaderStep ==
  ASSUME ReaderInv, [SystemNext]_<<vars, pageVars>>
  PROVE  ReaderInv'
<1>1. CASE PageFails
  BY <1>1 DEF PageFails, ReaderInv, PagesExact, vars, call
<1>2. CASE UNCHANGED <<vars, pageVars>>
  BY <1>2 DEF ReaderInv, PagesExact, ResumesInside, From, CollectedInv, BeginsAfter, vars,
     pageVars, call
<1>3. QED
  BY <1>1, <1>2, CallStep, ReadStep, NoResultStep, FetchersStep DEF SystemNext

\* A successful call returns the ledger, whatever the page size, wherever the
\* pages end, and whatever is ingested between them, or the beginning of it up
\* to a reply without a result.
THEOREM PagesCorrect == SystemSpec => []PagesExact
<1>1. SystemInit => ReaderInv
  BY NumberAssumption DEF SystemInit, Init, PagesInit, ReaderInv, PagesExact
<1>2. ReaderInv => PagesExact
  BY DEF ReaderInv
<1>3. QED
  BY <1>1, <1>2, ReaderStep, PTL DEF SystemSpec

----------------------------------------------------------------------------
(* A call ends: every page that does not end it takes the cursor further   *)
(* through the ledger.                                                     *)

TransactionsLeft ==
  IF BeginsAfter < Before[ledgerNum + 1] THEN Before[ledgerNum + 1] - BeginsAfter ELSE 0

\* The cursor is that of a transaction the endpoint has.
CursorInv == ReaderInv /\ (stage = "request" => lastCursor <= Held)

LEMMA HeldGrows ==
  ASSUME ReaderInv, Next
  PROVE  Held \in Nat /\ Held' \in Nat /\ Held <= Held'
<1>1. tip[Client] \in 0..MaxLedger /\ tip'[Client] \in 0..MaxLedger
  BY TipGrows, ClientAssumption DEF ReaderInv
<1>2. /\ tip[Client] + 1 \in 1..(MaxLedger + 1) /\ tip'[Client] + 1 \in 1..(MaxLedger + 1)
      /\ tip[Client] + 1 <= tip'[Client] + 1
  BY <1>1, TipGrows, NumberAssumption
<1>3. QED
  BY <1>2, BeforeAssumption DEF Held

\* A page ends the call or the cursor moves on, by whole transactions of the
\* ledger.
LEMMA PageLessens ==
  ASSUME CursorInv, ReadPage
  PROVE  \/ stage' = "done" /\ lastCursor' = lastCursor
         \/ lastCursor' <= Held /\ TransactionsLeft' < TransactionsLeft
<1>1. PICK cursor \in {PageEnd, 0} :
        IF FetchedAll(cursor)
        THEN stage' = "done" /\ UNCHANGED lastCursor
        ELSE lastCursor' = cursor /\ UNCHANGED stage
  BY DEF ReadPage
<1>2. CASE FetchedAll(cursor)
  BY <1>1, <1>2
<1>3. CASE ~FetchedAll(cursor)
  <2>1. /\ lastCursor' = PageEnd /\ PageEnd # BeginsAfter
        /\ ~(BeginsAfter + Taken < PageEnd)
    BY <1>1, <1>3 DEF FetchedAll
  <2>2. /\ Before[ledgerNum] \in Nat /\ Before[ledgerNum + 1] \in Nat
        /\ Held \in Nat /\ BeginsAfter \in Nat /\ lastCursor \in Nat
        /\ Before[ledgerNum] <= Before[ledgerNum + 1]
        /\ ledgerNum <= tip[Client] => Before[ledgerNum + 1] <= Held
    BY Counts DEF CursorInv, ReaderInv
  <2>3. BeginsAfter <= Held /\ lastCursor <= BeginsAfter
    BY <2>2 DEF ReadPage, CursorInv, BeginsAfter
  <2>4. BeginsAfter < PageEnd /\ PageEnd <= Held /\ PageEnd \in Nat
    BY <2>1, <2>2, <2>3, LimitAssumption DEF PageEnd, Min2
  <2>5. InLedger(BeginsAfter + 1)
    BY <2>1, <2>2, <2>4 DEF Taken
  <2>6. PageEnd <= Before[ledgerNum + 1]
    BY <2>1, <2>2, <2>4, <2>5 DEF Taken, Min2
  <2>7. ledgerNum' = ledgerNum
    BY DEF ReadPage, call
  <2>8. BeginsAfter' = PageEnd
    BY <2>1, <2>2, <2>4 DEF BeginsAfter
  <2>9. QED
    BY <2>1, <2>2, <2>4, <2>6, <2>7, <2>8 DEF TransactionsLeft
<1>4. QED
  BY <1>2, <1>3

LEMMA CursorStep ==
  ASSUME CursorInv, [SystemNext]_<<vars, pageVars>>
  PROVE  CursorInv'
<1>1. ReaderInv'
  BY ReaderStep DEF CursorInv
<1>2. CASE Call
  BY <1>1, <1>2 DEF Call, CursorInv, Held, vars
<1>3. CASE ReadPage
  <2>1. Held' = Held /\ stage = "request"
    BY <1>3 DEF ReadPage, Held, vars
  <2>2. QED
    BY <1>1, <1>3, <2>1, PageLessens DEF CursorInv
<1>4. CASE PageFails \/ ReadNoResult
  BY <1>1, <1>4 DEF PageFails, ReadNoResult, CursorInv
<1>5. CASE Next /\ UNCHANGED pageVars
  <2>1. Held \in Nat /\ Held' \in Nat /\ Held <= Held'
    BY <1>5, HeldGrows DEF CursorInv
  <2>2. lastCursor \in Nat /\ lastCursor' = lastCursor /\ stage' = stage
    BY <1>5 DEF CursorInv, ReaderInv, pageVars
  <2>3. QED
    BY <1>1, <2>1, <2>2 DEF CursorInv
<1>6. CASE UNCHANGED <<vars, pageVars>>
  BY <1>1, <1>6 DEF CursorInv, Held, vars, pageVars
<1>7. QED
  BY <1>2, <1>3, <1>4, <1>5, <1>6 DEF SystemNext

\* A page ends the call or leaves fewer transactions, of which there is a
\* natural number, and a reply without a result ends it: a call asks for no
\* more pages than the ledger has transactions, and one, whatever the page
\* size and the caller's cursor.
THEOREM EveryPageLessens ==
  SystemSpec =>
    /\ []((stage = "request") => TransactionsLeft \in Nat)
    /\ [][ReadPage \/ ReadNoResult =>
           stage' = "done" \/ TransactionsLeft' < TransactionsLeft]_<<vars, pageVars>>
<1>1. SystemInit => CursorInv
  BY NumberAssumption DEF SystemInit, Init, PagesInit, ReaderInv, PagesExact, CursorInv
<1>2. CursorInv => ((stage = "request") => TransactionsLeft \in Nat)
  BY Counts DEF CursorInv, ReaderInv, TransactionsLeft
<1>3. CursorInv /\ [SystemNext]_<<vars, pageVars>> =>
        [ReadPage \/ ReadNoResult =>
           stage' = "done" \/ TransactionsLeft' < TransactionsLeft]_<<vars, pageVars>>
  BY PageLessens DEF ReadNoResult
<1>4. QED
  BY <1>1, <1>2, <1>3, CursorStep, PTL DEF SystemSpec
=============================================================================
