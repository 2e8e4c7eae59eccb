------------------------- MODULE LedgerConvertProofs -------------------------
(***************************************************************************)
(* Theorems on LedgerConvert, for any chain, any replies and any measured  *)
(* times.  The invariant says of everything a fetcher has converted which  *)
(* ledger and which transaction it stands for.                             *)
(***************************************************************************)
EXTENDS LedgerConvert, DataProofs, TLAPS

\* What either fetcher makes of a transaction that took so long to execute.
Made(tx, time, i, measured) ==
  [hash |-> tx.hash, success |-> tx.ok, order |-> i, createdAt |-> time,
   events |-> CaptiveEvents(tx, measured)]

Makings ==
  {Made(tx, time, i, measured) : tx \in Transaction, time \in Nat, i \in Nat, measured \in Noise}

\* What a reply can say of a ledger.
Said ==
  [number: DOMAIN chain, hash: [hex: Ids] \union {Bad}, time: Nat, metadata: DOMAIN chain]

\* The ledger inside.
Inside(item) == chain[item.metadata]

\* made stands for the first transactions of that ledger, which can all be
\* read.
Prefix(item, made) ==
  /\ made \in Seq(Makings)
  /\ Len(made) <= Len(Inside(item).txs)
  /\ \A i \in 1..Len(made) :
       /\ ~Inside(item).txs[i].broken
       /\ \E measured \in Noise : made[i] = Made(Inside(item).txs[i], item.time, i, measured)

\* The block of that ledger with these transactions.
BlockOf(item, made) ==
  [number |-> item.number, id |-> item.hash, parentId |-> Hex(Inside(item).previous),
   time |-> item.time, libNum |-> item.number - 1, parentNum |-> item.number - 1,
   payload |-> [number |-> item.number, hash |-> Bytes(item.hash),
                previous |-> Inside(item).previous,
                createdAt |-> item.time, transactions |-> made]]

\* b is the block of a ledger, with all its transactions.
Stands(b, item, made) ==
  /\ item.hash # Bad
  /\ b = BlockOf(item, made)
  /\ Prefix(item, made) /\ Len(made) = Len(Inside(item).txs)

\* It is, and what is said of that ledger is true, unless b is known for it.
IsBlock(b) ==
  \E item \in Said, made \in Seq(Makings) :
    Stands(b, item, made) /\ (Truthful(item) \/ b \in mislabelled)

\* What fetcher f is converting.
Converting(f) ==
  \E item \in Said :
    /\ reply[f] = <<item>>
    /\ f = "captive" => Truthful(item)
    /\ noise[f] \in [1..Len(Inside(item).txs) -> Noise]
    /\ Prefix(item, transactions[f])

\* Captive-core answers with a ledger, an endpoint with anything.
Answered(f) ==
  \/ reply[f] = <<>>
  \/ \E n \in DOMAIN chain :
       reply[f] \in Replies(n) /\ (f = "captive" => reply[f] = <<Item(n)>>)

\* The part of the invariant that is about one fetcher.
FetcherInv(f) ==
  /\ Answered(f)
  /\ pc[f] = "read" => Converting(f)
  /\ pc[f] # "read" => transactions[f] = <<>>
  /\ \A b \in emitted[f] : IsBlock(b)

ConvertInv ==
  /\ chain \in Chains
  /\ \A v \in {pc, reply, noise, transactions, emitted} : v = [f \in Fetchers |-> v[f]]
  /\ mislabelled \subseteq emitted["rpc"]
  /\ \A f \in Fetchers : FetcherInv(f)

LEMMA ChainShape ==
  ASSUME ConvertInv
  PROVE  /\ chain \in Seq(Ledger)
         /\ \A n \in DOMAIN chain :
              n \in Nat \ {0} /\ chain[n] \in Ledger /\ chain[n].txs \in Seq(Transaction)
<1>1. chain \in Seq(Ledger)
  BY ChainsAssumption DEF ConvertInv
<1>2. DOMAIN chain = 1..Len(chain) /\ Len(chain) \in Nat
  BY <1>1
<1>3. ASSUME NEW n \in DOMAIN chain
      PROVE  n \in Nat \ {0} /\ chain[n] \in Ledger /\ chain[n].txs \in Seq(Transaction)
  <2>1. n \in Nat \ {0} /\ chain[n] \in Ledger
    BY <1>1, <1>2
  <2>2. QED
    BY <2>1 DEF Ledger
<1>4. QED
  BY <1>1, <1>3

\* What is said of blocks and replies depends on the chain only, and blocks
\* that are known to be mislabelled stay so.
LEMMA SameChain ==
  ASSUME chain' = chain
  PROVE  /\ Said' = Said
         /\ \A item : Truthful(item)' <=> Truthful(item)
         /\ \A item : Inside(item)' = Inside(item)
         /\ \A item, made : Prefix(item, made)' <=> Prefix(item, made)
         /\ \A n : Item(n)' = Item(n) /\ Replies(n)' = Replies(n)
         /\ \A b, item, made : Stands(b, item, made)' <=> Stands(b, item, made)
         /\ mislabelled \subseteq mislabelled' => \A b : IsBlock(b) => IsBlock(b)'
<1>1. Said' = Said /\ \A item : Inside(item)' = Inside(item)
  BY DEF Said, Inside
<1>2. \A item, made : Prefix(item, made)' <=> Prefix(item, made)
  BY <1>1 DEF Prefix
<1>3. \A n : Item(n)' = Item(n)
  BY DEF Item
<1>4. \A n : Mislabelled(n)' = Mislabelled(n) /\ Undecodable(n)' = Undecodable(n)
  BY <1>3 DEF Mislabelled, Undecodable
<1>5. \A n : Replies(n)' = Replies(n)
  BY <1>3, <1>4 DEF Replies
<1>6. \A item : Truthful(item)' <=> Truthful(item)
  BY <1>3 DEF Truthful
<1>7. \A item, made : BlockOf(item, made)' = BlockOf(item, made)
  BY <1>1 DEF BlockOf
<1>8. \A b, item, made : Stands(b, item, made)' <=> Stands(b, item, made)
  BY <1>1, <1>2, <1>7 DEF Stands
<1>9. mislabelled \subseteq mislabelled' => \A b : IsBlock(b) => IsBlock(b)'
  BY <1>1, <1>6, <1>8 DEF IsBlock
<1>10. QED
  BY <1>1, <1>2, <1>3, <1>5, <1>6, <1>8, <1>9

\* The invariant of a fetcher depends on nothing else than its own variables
\* and the chain.
LEMMA FetcherUnchanged ==
  ASSUME NEW f \in Fetchers, FetcherInv(f), chain' = chain, mislabelled \subseteq mislabelled',
         pc'[f] = pc[f], reply'[f] = reply[f], noise'[f] = noise[f],
         transactions'[f] = transactions[f], emitted'[f] = emitted[f]
  PROVE  FetcherInv(f)'
<1>1. Answered(f)' /\ (Converting(f) => Converting(f)')
  BY SameChain DEF FetcherInv, Answered, Converting
<1>2. \A b \in emitted'[f] : IsBlock(b)'
  BY SameChain DEF FetcherInv
<1>3. QED
  BY <1>1, <1>2 DEF FetcherInv

\* A step of one fetcher leaves the others alone, so that it is enough to look
\* at this one.
LEMMA OneFetcher ==
  ASSUME ConvertInv, NEW f \in Fetchers, chain' = chain, FetcherInv(f)',
         NEW p, NEW r, NEW q, NEW t, NEW e,
         pc' = [pc EXCEPT ![f] = p], reply' = [reply EXCEPT ![f] = r],
         noise' = [noise EXCEPT ![f] = q], transactions' = [transactions EXCEPT ![f] = t],
         emitted' = [emitted EXCEPT ![f] = e],
         mislabelled \subseteq mislabelled', mislabelled' \subseteq emitted'["rpc"]
  PROVE  ConvertInv'
<1>1. /\ pc = [g \in Fetchers |-> pc[g]] /\ reply = [g \in Fetchers |-> reply[g]]
      /\ noise = [g \in Fetchers |-> noise[g]]
      /\ transactions = [g \in Fetchers |-> transactions[g]]
      /\ emitted = [g \in Fetchers |-> emitted[g]]
  BY DEF ConvertInv
<1>2. /\ pc' = [g \in Fetchers |-> pc'[g]] /\ reply' = [g \in Fetchers |-> reply'[g]]
      /\ noise' = [g \in Fetchers |-> noise'[g]]
      /\ transactions' = [g \in Fetchers |-> transactions'[g]]
      /\ emitted' = [g \in Fetchers |-> emitted'[g]]
  BY <1>1
<1>3. ASSUME NEW g \in Fetchers
      PROVE  FetcherInv(g)'
  <2>1. CASE g = f
    BY <2>1
  <2>2. CASE g # f
    BY <1>1, <2>2, FetcherUnchanged DEF ConvertInv
  <2>3. QED
    BY <2>1, <2>2
<1>4. chain' \in Chains
  BY DEF ConvertInv
<1>5. QED
  BY <1>2, <1>3, <1>4 DEF ConvertInv

\* For a step that emits nothing.
LEMMA NothingEmitted ==
  ASSUME ConvertInv, NEW f \in Fetchers, chain' = chain, FetcherInv(f)',
         NEW p, NEW r, NEW q, NEW t,
         pc' = [pc EXCEPT ![f] = p], reply' = [reply EXCEPT ![f] = r],
         noise' = [noise EXCEPT ![f] = q], transactions' = [transactions EXCEPT ![f] = t],
         UNCHANGED output
  PROVE  ConvertInv'
<1>1. emitted' = [emitted EXCEPT ![f] = emitted[f]]
  BY DEF ConvertInv, output
<1>2. mislabelled' = mislabelled /\ mislabelled' \subseteq emitted'["rpc"]
  BY DEF ConvertInv, output
<1>3. QED
  BY <1>1, <1>2, OneFetcher

\* A call that ends leaves its variables as they were before it.
LEMMA CallEndsStep ==
  ASSUME ConvertInv, NEW f \in Fetchers, CallEnds(f),
         NEW p \in {"off", "idle"}, pc' = [pc EXCEPT ![f] = p],
         NEW e, emitted' = [emitted EXCEPT ![f] = e],
         mislabelled \subseteq mislabelled', mislabelled' \subseteq emitted'["rpc"],
         \A b \in e : IsBlock(b)'
  PROVE  ConvertInv'
<1>1. /\ chain' = chain
      /\ reply' = [reply EXCEPT ![f] = <<>>] /\ noise' = [noise EXCEPT ![f] = <<>>]
      /\ transactions' = [transactions EXCEPT ![f] = <<>>]
  BY DEF CallEnds
<1>2. /\ pc'[f] = p /\ reply'[f] = <<>> /\ transactions'[f] = <<>> /\ emitted'[f] = e
  BY <1>1 DEF ConvertInv
<1>3. FetcherInv(f)'
  BY <1>2 DEF FetcherInv, Answered
<1>4. QED
  BY <1>1, <1>3, OneFetcher

LEMMA SameEmitted ==
  ASSUME ConvertInv, NEW f \in Fetchers
  PROVE  /\ emitted = [emitted EXCEPT ![f] = emitted[f]]
         /\ pc = [pc EXCEPT ![f] = pc[f]] /\ reply = [reply EXCEPT ![f] = reply[f]]
         /\ noise = [noise EXCEPT ![f] = noise[f]]
         /\ transactions = [transactions EXCEPT ![f] = transactions[f]]
         /\ \A b \in emitted[f] : IsBlock(b)
<1>1. \A v \in {pc, reply, noise, transactions, emitted} : v = [v EXCEPT ![f] = v[f]]
  BY DEF ConvertInv
<1>2. QED
  BY <1>1 DEF ConvertInv, FetcherInv

LEMMA FailedStep ==
  ASSUME ConvertInv, NEW f \in Fetchers, Failed(f) \/ Restart(f)
  PROVE  ConvertInv'
<1>1. PICK p \in {"off", "idle"} : pc' = [pc EXCEPT ![f] = p]
  BY DEF Failed, Restart
<1>2. CallEnds(f) /\ emitted' = emitted /\ mislabelled' = mislabelled
  BY DEF Failed, Restart, output
<1>3. emitted' = [emitted EXCEPT ![f] = emitted[f]] /\ mislabelled' \subseteq emitted'["rpc"]
  BY <1>2, SameEmitted DEF ConvertInv
<1>4. \A b \in emitted[f] : IsBlock(b)'
  BY <1>2, SameEmitted, SameChain DEF CallEnds
<1>5. QED
  BY <1>1, <1>2, <1>3, <1>4, CallEndsStep

\* A step outside of a conversion, with nothing emitted, has to say what is
\* answered.
LEMMA OutsideStep ==
  ASSUME ConvertInv, NEW f \in Fetchers, chain' = chain, UNCHANGED output,
         NEW p \in {"idle", "check"}, pc' = [pc EXCEPT ![f] = p], pc[f] # "read",
         NEW r, reply' = [reply EXCEPT ![f] = r], Answered(f)',
         UNCHANGED <<noise, transactions>>
  PROVE  ConvertInv'
<1>1. pc'[f] = p /\ FetcherInv(f)
  BY DEF ConvertInv
<1>2. \A b \in emitted'[f] : IsBlock(b)'
  BY <1>1, SameChain DEF FetcherInv, output
<1>3. FetcherInv(f)'
  BY <1>1, <1>2 DEF FetcherInv
<1>4. noise' = [noise EXCEPT ![f] = noise[f]] /\ transactions' = [transactions EXCEPT ![f] = transactions[f]]
  BY SameEmitted
<1>5. QED
  BY <1>3, <1>4, NothingEmitted

LEMMA LaunchStep ==
  ASSUME ConvertInv, NEW f \in Fetchers, Launch(f)
  PROVE  ConvertInv'
<1>1. /\ pc[f] = "off" /\ pc' = [pc EXCEPT ![f] = "idle"]
      /\ UNCHANGED <<chain, reply, noise, transactions, output>>
  BY DEF Launch
<1>2. Answered(f)'
  BY <1>1, SameChain DEF ConvertInv, FetcherInv, Answered
<1>3. reply' = [reply EXCEPT ![f] = reply[f]]
  BY <1>1, SameEmitted
<1>4. QED
  BY <1>1, <1>2, <1>3, OutsideStep

LEMMA AskStep ==
  ASSUME ConvertInv, NEW f \in Fetchers, Ask(f)
  PROVE  ConvertInv'
<1>1. PICK n \in DOMAIN chain :
        \E items \in IF f = "captive" THEN {<<Item(n)>>} ELSE Replies(n) :
          reply' = [reply EXCEPT ![f] = items]
  BY DEF Ask
<1>2. <<Item(n)>> \in Replies(n)
  <2>1. Item(n) = [Item(n) EXCEPT !.number = n]
    BY DEF Item
  <2>2. Item(n) \in Mislabelled(n)
    BY <2>1 DEF Mislabelled
  <2>3. QED
    BY <2>2 DEF Replies
<1>3. PICK items \in Replies(n) :
        reply' = [reply EXCEPT ![f] = items] /\ (f = "captive" => items = <<Item(n)>>)
  BY <1>1, <1>2
<1>4. /\ pc[f] = "idle" /\ pc' = [pc EXCEPT ![f] = "check"]
      /\ UNCHANGED <<chain, noise, transactions, output>>
  BY DEF Ask
<1>5. reply'[f] = items
  BY <1>3 DEF ConvertInv
<1>6. Answered(f)'
  BY <1>3, <1>4, <1>5, SameChain DEF Answered
<1>7. QED
  BY <1>3, <1>4, <1>6, OutsideStep

\* The only acceptable replies are those with one ledger, that can be decoded.
LEMMA AcceptableReply ==
  ASSUME ConvertInv, NEW f \in Fetchers, Acceptable(f)
  PROVE  \E item \in Said :
           /\ reply[f] = <<item>> /\ Obtained(f) = Inside(item)
           /\ f = "captive" => Truthful(item)
<1>1. reply[f] # <<>>
  BY DEF Acceptable
<1>2. PICK n \in DOMAIN chain :
        reply[f] \in Replies(n) /\ (f = "captive" => reply[f] = <<Item(n)>>)
  BY <1>1 DEF ConvertInv, FetcherInv, Answered
<1>3. PICK item \in Mislabelled(n) \union Undecodable(n) : reply[f] = <<item>>
  BY <1>1, <1>2 DEF Acceptable, Replies
<1>4. item.time # Bad /\ item.metadata # Bad
  BY <1>3 DEF Acceptable, Decodable
<1>5. \A m \in DOMAIN chain : chain[m].hash \in Ids /\ chain[m].closeTime \in Nat
  BY ChainShape DEF Ledger
<1>6. Item(n) \in Said
  BY <1>5 DEF Item, Said, Hex
<1>7. item \in Said
  <2>1. CASE item \in Undecodable(n)
    <3>1. \/ item = [Item(n) EXCEPT !.hash = Bad]
          \/ item.time = Bad \/ item.metadata = Bad
      BY <2>1 DEF Undecodable, Item
    <3>2. QED
      BY <1>4, <1>6, <3>1 DEF Said
  <2>2. CASE item \in Mislabelled(n)
    <3>1. PICK m \in DOMAIN chain :
            item \in {[Item(n) EXCEPT !.number = m], [Item(n) EXCEPT !.hash = Hex(chain[m].hash)],
                      [Item(n) EXCEPT !.time = chain[m].closeTime],
                      [Item(n) EXCEPT !.metadata = m]}
      BY <2>2 DEF Mislabelled
    <3>2. QED
      BY <1>5, <1>6, <3>1 DEF Said, Hex
  <2>3. QED
    BY <2>1, <2>2
<1>8. Obtained(f) = Inside(item)
  BY <1>3 DEF Obtained, Inside
<1>9. f = "captive" => Truthful(item)
  BY <1>2, <1>3 DEF Truthful, Item
<1>10. QED
  BY <1>3, <1>7, <1>8, <1>9

LEMMA OpenStep ==
  ASSUME ConvertInv, NEW f \in Fetchers, Open(f)
  PROVE  ConvertInv'
<1>1. PICK item \in Said :
        /\ reply[f] = <<item>> /\ Obtained(f) = Inside(item)
        /\ f = "captive" => Truthful(item)
  BY AcceptableReply DEF Open
<1>2. PICK measured \in [1..Len(Inside(item).txs) -> Noise] :
        noise' = [noise EXCEPT ![f] = measured]
  BY <1>1 DEF Open, Measured
<1>3. /\ pc[f] = "check" /\ pc' = [pc EXCEPT ![f] = "read"]
      /\ UNCHANGED <<chain, reply, transactions, output>>
  BY DEF Open
<1>4. pc'[f] = "read" /\ noise'[f] = measured /\ transactions[f] = <<>> /\ FetcherInv(f)
  BY <1>2, <1>3 DEF ConvertInv, FetcherInv
<1>5. Prefix(item, <<>>)
  BY ChainShape DEF Prefix, Said, Inside
<1>6. Converting(f)'
  BY <1>1, <1>2, <1>3, <1>4, <1>5, SameChain DEF Converting
<1>7. Answered(f)' /\ \A b \in emitted'[f] : IsBlock(b)'
  BY <1>3, <1>4, SameChain DEF FetcherInv, Answered, output
<1>8. FetcherInv(f)'
  BY <1>4, <1>6, <1>7 DEF FetcherInv
<1>9. /\ chain' = chain
      /\ reply' = [reply EXCEPT ![f] = reply[f]]
      /\ transactions' = [transactions EXCEPT ![f] = transactions[f]]
  BY <1>3, SameEmitted
<1>10. QED
  BY <1>2, <1>3, <1>8, <1>9, NothingEmitted

\* Both fetchers make the same of the events of a transaction.
LEMMA SameEvents ==
  ASSUME NEW tx, NEW measured
  PROVE  RpcEvents(tx, measured) = CaptiveEvents(tx, measured)
BY DEF RpcEvents, CaptiveEvents, RpcMarshalled, CaptiveMarshalled, RpcGroups, CaptiveGroups

\* One more transaction converted.
LEMMA ReadStep ==
  ASSUME ConvertInv, NEW f \in Fetchers, pc[f] = "read", Reads(f),
         NEW tx, tx = IF f = "captive" THEN CaptiveTransaction(NextIndex(f))
                                       ELSE RpcTransaction(NextIndex(f)),
         transactions' = [transactions EXCEPT ![f] = Append(@, tx)],
         UNCHANGED <<chain, pc, reply, noise, output>>
  PROVE  ConvertInv'
<1>1. PICK item \in Said :
        /\ reply[f] = <<item>>
        /\ f = "captive" => Truthful(item)
        /\ noise[f] \in [1..Len(Inside(item).txs) -> Noise]
        /\ Prefix(item, transactions[f])
  BY DEF ConvertInv, FetcherInv, Converting
<1> DEFINE i == NextIndex(f)
           made == Append(transactions[f], tx)
           l == Inside(item)
<1>2. /\ Obtained(f) = l /\ reply[f][1].time = item.time
      /\ f = "captive" => l.closeTime = item.time
  BY <1>1 DEF Obtained, Inside, Truthful, Item
<1>3. /\ transactions[f] \in Seq(Makings) /\ Len(transactions[f]) \in Nat
      /\ Len(transactions[f]) <= Len(l.txs)
  BY <1>1 DEF Prefix
<1>4. l.txs \in Seq(Transaction) /\ item.time \in Nat
  BY <1>1, ChainShape DEF Said, Inside
<1>5. i \in 1..Len(l.txs) /\ ~l.txs[i].broken /\ i = Len(transactions[f]) + 1
  BY <1>2, <1>3, <1>4 DEF Reads, NextIndex
<1>6. noise[f][i] \in Noise
  BY <1>1, <1>5
<1>7. tx = Made(l.txs[i], item.time, i, noise[f][i])
  <2>1. CASE f = "captive"
    BY <1>2, <2>1 DEF CaptiveTransaction, Made
  <2>2. CASE f = "rpc"
    BY <1>2, <2>2, SameEvents DEF RpcTransaction, Made
  <2>3. QED
    BY <2>1, <2>2 DEF Fetchers
<1>8. l.txs[i] \in Transaction /\ i \in Nat
  BY <1>4, <1>5
<1>9. tx \in Makings
  BY <1>4, <1>6, <1>7, <1>8 DEF Makings
<1>10. /\ made \in Seq(Makings) /\ Len(made) = i /\ made[i] = tx
       /\ \A j \in 1..Len(transactions[f]) : made[j] = transactions[f][j]
  BY <1>3, <1>5, <1>9
<1>11. Prefix(item, made)
  <2>1. Len(made) <= Len(l.txs)
    BY <1>5, <1>10
  <2>2. ASSUME NEW j \in 1..Len(made)
        PROVE  /\ ~l.txs[j].broken
               /\ \E measured \in Noise : made[j] = Made(l.txs[j], item.time, j, measured)
    <3>1. CASE j = i
      BY <1>5, <1>6, <1>7, <1>10, <3>1
    <3>2. CASE j # i
      <4>1. j \in 1..Len(transactions[f])
        BY <1>3, <1>5, <1>10, <3>2
      <4>2. QED
        BY <1>1, <1>10, <4>1 DEF Prefix
    <3>3. QED
      BY <3>1, <3>2
  <2>3. QED
    BY <1>10, <2>1, <2>2 DEF Prefix
<1>12. transactions'[f] = made /\ FetcherInv(f)
  BY DEF ConvertInv
<1>13. Converting(f)'
  BY <1>1, <1>11, <1>12, SameChain DEF Converting
<1>14. Answered(f)' /\ \A b \in emitted'[f] : IsBlock(b)'
  BY <1>12, SameChain DEF FetcherInv, Answered, output
<1>15. FetcherInv(f)'
  BY <1>13, <1>14 DEF FetcherInv
<1>16. transactions' = [transactions EXCEPT ![f] = made]
  OBVIOUS
<1>17. chain' = chain /\ UNCHANGED output
  OBVIOUS
<1>18. PICK p, r, q : /\ pc' = [pc EXCEPT ![f] = p] /\ reply' = [reply EXCEPT ![f] = r]
                      /\ noise' = [noise EXCEPT ![f] = q]
  BY SameEmitted
<1> HIDE DEF i, made, l
<1>19. QED
  BY ONLY <1>15, <1>16, <1>17, <1>18, NothingEmitted, ConvertInv, f \in Fetchers

\* The block at the end of the ledger is the ledger's, and known to be
\* mislabelled if the reply was not true of the ledger.
LEMMA EmitStep ==
  ASSUME ConvertInv, NEW f \in Fetchers, pc[f] = "read", AtEnd(f),
         f = "rpc" => reply[f][1].hash # Bad,
         NEW block, block = IF f = "captive" THEN CaptiveBlock(CaptiveStellarBlock)
                                             ELSE RpcBlock(RpcStellarBlock),
         Emit(f, block)
  PROVE  ConvertInv'
<1>1. PICK item \in Said :
        /\ reply[f] = <<item>>
        /\ f = "captive" => Truthful(item)
        /\ Prefix(item, transactions[f])
  BY DEF ConvertInv, FetcherInv, Converting
<1>2. Obtained(f) = Inside(item) /\ reply[f][1] = item
  BY <1>1 DEF Obtained, Inside
<1>3. f = "captive" =>
        /\ item.number = item.metadata /\ item.time = Inside(item).closeTime
        /\ item.hash = Hex(Inside(item).hash)
  BY <1>1 DEF Truthful, Item, Inside
<1>4. item.hash # Bad
  <2>1. CASE f = "captive"
    <3>1. Inside(item).hash \in Ids
      BY <1>1, ChainShape DEF Said, Inside, Ledger
    <3>2. QED
      BY <1>3, <2>1, <3>1, BadAssumption DEF Hex
  <2>2. CASE f = "rpc"
    BY <1>2, <2>2
  <2>3. QED
    BY <2>1, <2>2 DEF Fetchers
<1>5. item.hash = Hex(Bytes(item.hash))
  BY <1>1, <1>4 DEF Said, Hex, Bytes
<1>6. block = BlockOf(item, transactions[f])
  <2>1. CASE f = "captive"
    BY <1>2, <1>3, <2>1 DEF CaptiveBlock, CaptiveStellarBlock, BlockOf, Hex, Bytes
  <2>2. CASE f = "rpc"
    BY <1>2, <1>5, <2>2 DEF RpcBlock, RpcStellarBlock, BlockOf
  <2>3. QED
    BY <2>1, <2>2 DEF Fetchers
<1>7. Len(transactions[f]) = Len(Inside(item).txs)
  <2>1. Inside(item).txs \in Seq(Transaction)
    BY <1>1, ChainShape DEF Said, Inside
  <2>2. QED
    BY <1>1, <1>2, <2>1 DEF AtEnd, NextIndex, Prefix
<1>8. Stands(block, item, transactions[f]) /\ transactions[f] \in Seq(Makings)
  BY <1>1, <1>4, <1>6, <1>7 DEF Stands, Prefix
<1>9. /\ CallEnds(f) /\ chain' = chain
      /\ emitted' = [emitted EXCEPT ![f] = emitted[f] \union {block}]
      /\ pc' = [pc EXCEPT ![f] = "idle"]
      /\ mislabelled' = IF Truthful(item) THEN mislabelled ELSE mislabelled \union {block}
  BY <1>2 DEF Emit, CallEnds
<1>10. mislabelled \subseteq mislabelled' /\ mislabelled' \subseteq emitted'["rpc"]
  <2>1. \A g \in Fetchers : emitted[g] \subseteq emitted'[g]
    BY <1>9 DEF ConvertInv
  <2>2. f = "rpc" => block \in emitted'["rpc"]
    BY <1>9 DEF ConvertInv
  <2>3. QED
    BY <1>1, <1>9, <2>1, <2>2 DEF ConvertInv, Fetchers
<1>11. IsBlock(block)'
  <2>1. PICK made : made = transactions[f]
    OBVIOUS
  <2>2. Stands(block, item, made)'
    BY <1>8, <1>9, <2>1, SameChain
  <2>3. item \in Said' /\ made \in Seq(Makings)'
    BY <1>1, <1>8, <1>9, <2>1, SameChain
  <2>4. Truthful(item)' \/ block \in mislabelled'
    BY <1>9, SameChain
  <2>5. QED
    BY <2>2, <2>3, <2>4 DEF IsBlock
<1>12. \A b \in emitted[f] \union {block} : IsBlock(b)'
  BY <1>9, <1>10, <1>11, SameEmitted, SameChain
<1>13. QED
  BY <1>9, <1>10, <1>12, CallEndsStep

LEMMA ConvertInit ==
  ASSUME Init
  PROVE  ConvertInv
BY DEF Init, ConvertInv, FetcherInv, Answered

LEMMA ConvertStep ==
  ASSUME ConvertInv, [Next]_vars
  PROVE  ConvertInv'
<1>1. CASE CaptiveRead
  BY <1>1, ReadStep DEF CaptiveRead, Fetchers
<1>2. CASE RpcRead
  BY <1>2, ReadStep DEF RpcRead, Fetchers
<1>3. CASE CaptiveEmit
  BY <1>3, EmitStep DEF CaptiveEmit, Fetchers
<1>4. CASE RpcEmit
  BY <1>4, EmitStep DEF RpcEmit, Fetchers
<1>5. CASE RpcRefuseHash
  BY <1>5, FailedStep DEF RpcRefuseHash, Fetchers
<1>6. ASSUME NEW f \in Fetchers,
             Launch(f) \/ Ask(f) \/ Open(f) \/ ReplyFails(f) \/ RefuseTransaction(f) \/ Restart(f)
      PROVE  ConvertInv'
  BY <1>6, LaunchStep, AskStep, OpenStep, FailedStep DEF ReplyFails, RefuseTransaction
<1>7. CASE UNCHANGED vars
  <2>1. /\ chain' = chain /\ pc' = pc /\ reply' = reply /\ noise' = noise
        /\ transactions' = transactions /\ emitted' = emitted /\ mislabelled' = mislabelled
    BY <1>7 DEF vars, output
  <2>2. \A f \in Fetchers : FetcherInv(f)'
    BY <2>1, FetcherUnchanged DEF ConvertInv
  <2>3. QED
    BY <2>1, <2>2 DEF ConvertInv
<1>8. QED
  BY <1>1, <1>2, <1>3, <1>4, <1>5, <1>6, <1>7 DEF Next

LEMMA ConvertAlways == Spec => []ConvertInv
BY ConvertInit, ConvertStep, PTL DEF Spec

LEMMA BlocksAre ==
  ASSUME ConvertInv, NEW b \in Blocks
  PROVE  IsBlock(b)
<1>1. "captive" \in Fetchers /\ "rpc" \in Fetchers
  BY DEF Fetchers
<1>2. b \in emitted["captive"] \/ b \in emitted["rpc"]
  BY DEF Blocks
<1>3. QED
  BY <1>1, <1>2, SameEmitted

\* The block of what is said of a ledger, measured times aside.
KeptBlock(item) ==
  BlockOf(item, [i \in 1..Len(Inside(item).txs) |->
                   Made(Inside(item).txs[i], item.time, i, 0)])

\* Blocks of which the same is said differ in nothing but measured times.
LEMMA StrippedBlock ==
  ASSUME NEW b, NEW item, NEW made, Stands(b, item, made)
  PROVE  Stripped(b) = KeptBlock(item)
<1> DEFINE l == Inside(item)
<1>1. b = BlockOf(item, made) /\ Prefix(item, made) /\ Len(made) = Len(l.txs)
  BY DEF Stands
<1>2. DOMAIN made = 1..Len(l.txs)
  BY <1>1 DEF Prefix
<1>3. ASSUME NEW i \in 1..Len(l.txs)
      PROVE  [made[i] EXCEPT !.events.noise = 0] = Made(l.txs[i], item.time, i, 0)
  <2>1. PICK measured \in Noise : made[i] = Made(l.txs[i], item.time, i, measured)
    BY <1>1 DEF Prefix
  <2>2. QED
    BY <2>1 DEF Made, CaptiveEvents, NoEvents
<1>4. StrippedAll(made) = [i \in 1..Len(l.txs) |-> Made(l.txs[i], item.time, i, 0)]
  BY <1>2, <1>3 DEF StrippedAll
<1>5. BlockOf(item, made).payload.transactions = made
  BY DEF BlockOf
<1>6. \A x : [BlockOf(item, made) EXCEPT !.payload.transactions = x] = BlockOf(item, x)
  BY DEF BlockOf
<1>7. Stripped(b) = BlockOf(item, StrippedAll(made))
  BY <1>1, <1>5, <1>6 DEF Stripped
<1>8. QED
  BY <1>4, <1>7 DEF KeptBlock

\* Of a block that is not known to be mislabelled only the truth is said.
LEMMA TrueBlock ==
  ASSUME ConvertInv, NEW b \in Blocks \ mislabelled
  PROVE  \E n \in DOMAIN chain, made \in Seq(Makings) :
           Stands(b, Item(n), made) /\ b.number = n
<1>1. PICK item \in Said, made \in Seq(Makings) : Stands(b, item, made) /\ Truthful(item)
  BY BlocksAre DEF IsBlock
<1>2. item.metadata \in DOMAIN chain /\ item = Item(item.metadata)
  BY <1>1 DEF Said, Truthful
<1>3. b.number = item.number /\ item.number = item.metadata
  BY <1>1, <1>2 DEF Stands, BlockOf, Item
<1>4. QED
  BY <1>1, <1>2, <1>3

\* Whatever fails, however often a ledger is converted, and whatever else an
\* endpoint has said of other ledgers: all blocks either fetcher emits for a
\* ledger, from replies that do not contradict themselves, are the same,
\* measured times aside.
THEOREM AgreeCorrect == Spec => []BlocksAgree
<1>1. ConvertInv => BlocksAgree
  <2>1. SUFFICES ASSUME ConvertInv, NEW a \in Blocks \ mislabelled,
                        NEW b \in Blocks \ mislabelled, a.number = b.number
                 PROVE  Stripped(a) = Stripped(b)
    BY DEF BlocksAgree
  <2>2. PICK n \in DOMAIN chain, s \in Seq(Makings) : Stands(a, Item(n), s) /\ a.number = n
    BY <2>1, TrueBlock
  <2>3. PICK m \in DOMAIN chain, t \in Seq(Makings) : Stands(b, Item(m), t) /\ b.number = m
    BY <2>1, TrueBlock
  <2>4. QED
    BY <2>1, <2>2, <2>3, StrippedBlock
<1>2. QED
  BY <1>1, ConvertAlways, PTL

\* Consecutive blocks are linked, whichever fetchers have made them.
THEOREM LinksCorrect == Spec => []ChainLinks
<1>1. ConvertInv => ChainLinks
  <2>1. SUFFICES ASSUME ConvertInv, NEW a \in Blocks \ mislabelled,
                        NEW b \in Blocks \ mislabelled, b.number = a.number + 1
                 PROVE  b.parentId = a.id /\ b.parentNum = a.number /\ b.libNum = a.number
    BY DEF ChainLinks
  <2>2. PICK n \in DOMAIN chain, s \in Seq(Makings) : Stands(a, Item(n), s) /\ a.number = n
    BY <2>1, TrueBlock
  <2>3. PICK m \in DOMAIN chain, t \in Seq(Makings) : Stands(b, Item(m), t) /\ b.number = m
    BY <2>1, TrueBlock
  <2>4. m = n + 1 /\ n \in Nat /\ n < Len(chain)
    BY <2>1, <2>2, <2>3, ChainShape
  <2>5. chain[n + 1].previous = chain[n].hash
    <3>1. chain \in Chains
      BY <2>1 DEF ConvertInv
    <3>2. QED
      BY <2>2, <2>4, <3>1, ChainsAssumption
  <2>6. /\ a.id = Hex(chain[n].hash) /\ b.parentId = Hex(chain[m].previous)
        /\ b.parentNum = m - 1 /\ b.libNum = m - 1
    BY <2>2, <2>3 DEF Stands, BlockOf, Item, Inside
  <2>7. QED
    BY <2>2, <2>4, <2>5, <2>6
<1>2. QED
  BY <1>1, ConvertAlways, PTL

----------------------------------------------------------------------------
(* What the loops that marshal keep of events and groups.                  *)

LEMMA PicksIncrease ==
  ASSUME NEW s, NEW u, NEW m, NEW w, NEW e, Picks(s, u, m, w, e)
  PROVE  /\ e \in [1..Len(w) -> 1..m]
         /\ Increasing(e)
BY DEF Picks, Increasing

\* Events: all but those that cannot be marshalled.
LEMMA MarshalledKept ==
  ASSUME NEW list \in Lists
  PROVE  CaptiveMarshalled(list) \in Lists /\ EventsKept(list, CaptiveMarshalled(list))
<1> DEFINE kept == Without(list, Opaque)
<1>1. kept \in Seq(Event \ Opaque)
  BY WithoutExact DEF Lists
<1>2. PICK at : Picks(list, Opaque, Len(list), kept, at)
  BY WithoutExact DEF Lists
<1>3. at \in [1..Len(kept) -> 1..Len(list)] /\ Increasing(at)
  BY <1>2, PicksIncrease
<1> HIDE DEF kept
<1>4. \A j \in 1..Len(kept) : kept[j] = list[at[j]] /\ kept[j] \notin Opaque
  BY <1>1, <1>2 DEF Picks
<1>5. \A i \in 1..Len(list) : list[i] \in Opaque \/ \E j \in 1..Len(kept) : at[j] = i
  BY <1>2 DEF Picks
<1>6. EventsKept(list, kept)
  BY <1>3, <1>4, <1>5 DEF EventsKept
<1>7. kept \in Lists
  BY <1>1 DEF Lists
<1>8. QED
  BY <1>6, <1>7 DEF CaptiveMarshalled, kept

\* Groups: all but those of nil slices.
LEMMA GroupsMarshalled ==
  ASSUME NEW operations \in Seq({Nil} \union Lists)
  PROVE  /\ CaptiveGroups(operations) \in Seq(Lists)
         /\ GroupsKept(operations, CaptiveGroups(operations))
<1> DEFINE kept == Without(operations, {Nil})
           groups == CaptiveGroups(operations)
<1>1. kept \in Seq(({Nil} \union Lists) \ {Nil})
  BY WithoutExact
<1>2. kept \in Seq(Lists) /\ Len(kept) \in Nat
  <2>1. ({Nil} \union Lists) \ {Nil} = Lists
    BY EventAssumption
  <2>2. QED
    BY <1>1, <2>1
<1>3. PICK at : Picks(operations, {Nil}, Len(operations), kept, at)
  BY WithoutExact
<1>4. at \in [1..Len(kept) -> 1..Len(operations)] /\ Increasing(at)
  BY <1>3, PicksIncrease
<1>5. groups = [i \in 1..Len(kept) |-> CaptiveMarshalled(kept[i])]
  BY <1>2 DEF CaptiveGroups
<1> HIDE DEF kept, groups
<1>6. \A i \in 1..Len(kept) : kept[i] \in Lists /\ kept[i] # Nil
  BY <1>2, EventAssumption
<1>7. /\ groups \in Seq(Lists) /\ Len(groups) = Len(kept)
      /\ \A i \in 1..Len(kept) : EventsKept(kept[i], groups[i])
  BY <1>2, <1>5, <1>6, MarshalledKept
<1>8. \A j \in 1..Len(groups) :
        operations[at[j]] # Nil /\ EventsKept(operations[at[j]], groups[j])
  <2>1. \A j \in 1..Len(kept) : operations[at[j]] = kept[j]
    BY <1>3 DEF Picks
  <2>2. QED
    BY <1>6, <1>7, <2>1
<1>9. \A i \in 1..Len(operations) :
        operations[i] = Nil \/ \E j \in 1..Len(groups) : at[j] = i
  BY <1>3, <1>7 DEF Picks
<1>10. GroupsKept(operations, groups)
  BY <1>4, <1>7, <1>8, <1>9 DEF GroupsKept
<1>11. QED
  BY <1>7, <1>10 DEF groups

\* A transaction made of one that is not broken is whole.
LEMMA MadeWhole ==
  ASSUME NEW tx \in Transaction, ~tx.broken, NEW time, NEW i, NEW measured \in Noise
  PROVE  Whole(tx, Made(tx, time, i, measured), i)
<1>1. /\ tx.diagnostic \in Lists /\ tx.fees \in Lists /\ tx.metrics \in BOOLEAN
      /\ tx.operations \in Seq({Nil} \union Lists)
  BY DEF Transaction
<1>2. measured # 0
  BY NoiseAssumption
<1>3. CASE tx.readable
  <2>1. /\ EventsKept(tx.diagnostic, CaptiveMarshalled(tx.diagnostic))
        /\ EventsKept(tx.fees, CaptiveMarshalled(tx.fees))
        /\ GroupsKept(tx.operations, CaptiveGroups(tx.operations))
    BY <1>1, MarshalledKept, GroupsMarshalled
  <2>2. QED
    BY <1>1, <1>2, <1>3, <2>1 DEF Made, CaptiveEvents, Whole
<1>4. CASE ~tx.readable
  BY <1>4 DEF Made, CaptiveEvents, Whole
<1>5. QED
  BY <1>3, <1>4

\* No block lacks a transaction of the ledger it was made of, or an event that
\* can be read and marshalled.
THEOREM CompleteCorrect == Spec => []BlocksComplete
<1>1. ConvertInv => BlocksComplete
  <2>1. SUFFICES ASSUME ConvertInv, NEW b \in Blocks
                 PROVE  \E n \in DOMAIN chain :
                          /\ b.payload.previous = chain[n].previous
                          /\ b \notin mislabelled => b.number = n
                          /\ Len(b.payload.transactions) = Len(chain[n].txs)
                          /\ \A i \in 1..Len(chain[n].txs) :
                               Whole(chain[n].txs[i], b.payload.transactions[i], i)
    BY DEF BlocksComplete
  <2>2. PICK item \in Said, made \in Seq(Makings) :
          Stands(b, item, made) /\ (Truthful(item) \/ b \in mislabelled)
    BY <2>1, BlocksAre DEF IsBlock
  <2> DEFINE n == item.metadata
  <2>3. n \in DOMAIN chain /\ Inside(item) = chain[n]
    BY <2>2 DEF Said, Inside
  <2>4. /\ b.payload.previous = chain[n].previous /\ b.payload.transactions = made
        /\ Len(made) = Len(chain[n].txs) /\ Prefix(item, made)
    BY <2>2, <2>3 DEF Stands, BlockOf
  <2>5. b \notin mislabelled => b.number = n
    BY <2>2 DEF Stands, BlockOf, Truthful, Item
  <2>6. ASSUME NEW i \in 1..Len(chain[n].txs)
        PROVE  Whole(chain[n].txs[i], made[i], i)
    <3>1. chain[n].txs[i] \in Transaction
      BY <2>1, <2>3, ChainShape
    <3>2. /\ ~chain[n].txs[i].broken
          /\ \E measured \in Noise : made[i] = Made(chain[n].txs[i], item.time, i, measured)
      BY <2>3, <2>4 DEF Prefix
    <3>3. QED
      BY <3>1, <3>2, MadeWhole
  <2>7. QED
    BY <2>3, <2>4, <2>5, <2>6
<1>2. QED
  BY <1>1, ConvertAlways, PTL

\* What command f can make of what its operator has named, or has not.
Agreed(f) ==
  IF option.override # Unset THEN {option.override}
  ELSE IF option.named THEN {Named(option.network)}
  ELSE IF f = "captive" THEN {Test}
  ELSE {Public, Test}

LaunchInv ==
  /\ option \in Options
  /\ passphrase = [f \in Fetchers |-> passphrase[f]]
  /\ \A f \in Fetchers : passphrase[f] \in {Unset} \union Agreed(f)

LEMMA LaunchStays ==
  ASSUME LaunchInv, [Next]_vars
  PROVE  LaunchInv'
<1>1. option' = option
  BY DEF Next, vars, CaptiveRead, RpcRead, CaptiveEmit, RpcEmit, RpcRefuseHash, Emit, CallEnds,
     Launch, Ask, Open, ReplyFails, Failed, RefuseTransaction, Restart
<1>2. \A f : Agreed(f)' = Agreed(f)
  BY <1>1 DEF Agreed
<1>3. CASE passphrase' = passphrase
  BY <1>1, <1>2, <1>3 DEF LaunchInv
<1>4. ASSUME NEW f \in Fetchers, NEW p \in {Unset} \union Agreed(f),
             passphrase' = [passphrase EXCEPT ![f] = p]
      PROVE  LaunchInv'
  BY <1>1, <1>2, <1>4 DEF LaunchInv
<1>5. option.named \in BOOLEAN
  BY OptionsAssumption DEF LaunchInv
<1>6. ASSUME NEW f \in Fetchers, Launch(f)
      PROVE  LaunchInv'
  <2>1. CASE f = "rpc"
    <3>1. PICK g \in RpcFlags :
            /\ g.named = option.named /\ g.override = option.override
            /\ g.named => g.network = option.network
            /\ passphrase' = [passphrase EXCEPT !["rpc"] = RpcPassphrase(g)]
      BY <1>6, <2>1 DEF Launch, RpcLaunch
    <3>2. ~g.named => Named(g.network) = Public
      BY <3>1 DEF RpcFlags, Named
    <3>3. RpcPassphrase(g) \in Agreed(f)
      BY <1>5, <2>1, <3>1, <3>2 DEF RpcPassphrase, Agreed
    <3>4. QED
      BY <1>4, <2>1, <3>1, <3>3
  <2>2. CASE f = "captive"
    <3>1. PICK g \in CaptiveFlags :
            /\ g.named = option.named /\ g.override = option.override
            /\ g.named => g.network = option.network
            /\ passphrase' = [passphrase EXCEPT !["captive"] = CaptivePassphrase(g)]
      BY <1>6, <2>2 DEF Launch, CaptiveLaunch
    <3>2. ~g.named => Named(g.network) = Test
      BY <3>1 DEF CaptiveFlags, Named
    <3>3. CaptiveConfig(g).passphrase
            = IF g.override # Unset THEN g.override ELSE Named(g.network)
      BY DEF CaptiveConfig, Overridden, ResolveNetwork, Fill, EmptyConfig
    <3>4. CaptivePassphrase(g) \in {Unset} \union Agreed(f)
      BY <1>5, <2>2, <3>1, <3>2, <3>3 DEF CaptivePassphrase, Agreed
    <3>5. QED
      BY <1>4, <2>2, <3>1, <3>4
  <2>3. QED
    BY <2>1, <2>2 DEF Fetchers
<1>7. \/ passphrase' = passphrase
      \/ \E f \in Fetchers : Launch(f) \/ passphrase' = [passphrase EXCEPT ![f] = Unset]
  <2>1. ASSUME NEW f \in Fetchers, Failed(f) \/ Restart(f)
        PROVE  passphrase' = passphrase \/ passphrase' = [passphrase EXCEPT ![f] = Unset]
    BY <2>1 DEF Failed, Restart, Fetchers, LaunchInv
  <2>2. CASE RpcRefuseHash
    BY <2>1, <2>2 DEF RpcRefuseHash, Fetchers
  <2>3. QED
    BY <2>1, <2>2 DEF Next, vars, CaptiveRead, RpcRead, CaptiveEmit, RpcEmit, Emit, Ask, Open,
       ReplyFails, RefuseTransaction
<1>8. QED
  BY <1>3, <1>4, <1>6, <1>7

LEMMA LaunchAlways == Spec => []LaunchInv
<1>1. Init => LaunchInv
  BY DEF Init, LaunchInv
<1>2. QED
  BY <1>1, LaunchStays, PTL DEF Spec

\* Two commands that are given one network, or one passphrase, work on one
\* network, whatever other flags they have; left to their defaults they do,
\* too, unless captive-core is on the test network and rpc on the public one.
THEOREM LaunchCorrect == Spec => []LaunchAgrees
<1>1. LaunchInv => LaunchAgrees
  <2>1. SUFFICES ASSUME LaunchInv, \A f \in Fetchers : passphrase[f] # Unset
                 PROVE  \/ passphrase["captive"] = passphrase["rpc"]
                        \/ /\ ~option.named /\ option.override = Unset
                           /\ passphrase["captive"] = Test /\ passphrase["rpc"] = Public
    BY DEF LaunchAgrees
  <2>2. passphrase["captive"] \in Agreed("captive") /\ passphrase["rpc"] \in Agreed("rpc")
    BY <2>1 DEF LaunchInv, Fetchers
  <2>3. QED
    BY <2>2 DEF Agreed
<1>2. QED
  BY <1>1, LaunchAlways, PTL

----------------------------------------------------------------------------
(* Types.                                                                  *)

\* A transaction converted has all its fields.
LEMMA MakingConverted == Makings \subseteq Converted
<1>1. SUFFICES ASSUME NEW tx \in Transaction, NEW time \in Nat, NEW i \in Nat,
                      NEW measured \in Noise
               PROVE  Made(tx, time, i, measured) \in Converted
  BY DEF Makings
<1>2. measured \in Nat /\ 0 \in Nat
  BY NoiseAssumption
<1>3. /\ tx.hash \in Hashes /\ tx.ok \in BOOLEAN /\ tx.metrics \in BOOLEAN
      /\ tx.diagnostic \in Lists /\ tx.fees \in Lists
      /\ tx.operations \in Seq({Nil} \union Lists)
  BY DEF Transaction
<1>4. /\ CaptiveMarshalled(tx.diagnostic) \in Lists /\ CaptiveMarshalled(tx.fees) \in Lists
      /\ CaptiveGroups(tx.operations) \in Seq(Lists)
  BY <1>3, MarshalledKept, GroupsMarshalled
<1>5. NoEvents \in Events
  <2>1. <<>> \in Lists /\ <<>> \in Seq(Lists)
    BY DEF Lists
  <2>2. QED
    BY <1>2, <2>1 DEF NoEvents, Events
<1>6. CaptiveEvents(tx, measured) \in Events
  BY <1>2, <1>3, <1>4, <1>5 DEF CaptiveEvents, Events
<1>7. QED
  BY <1>3, <1>6 DEF Made, Converted

LEMMA MadeSequences == Seq(Makings) \subseteq Seq(Converted)
BY MakingConverted

LEMMA BlockShape ==
  ASSUME ConvertInv, NEW b, IsBlock(b)
  PROVE  b \in Block
<1>1. PICK item \in Said, made \in Seq(Makings) : Stands(b, item, made)
  BY DEF IsBlock
<1>2. /\ item.number \in Nat /\ item.number - 1 \in Nat /\ item.time \in Nat
      /\ Inside(item).previous \in Ids
  BY <1>1, ChainShape DEF Said, Inside, Ledger
<1>3. item.hash \in [hex: Ids] /\ Bytes(item.hash) \in Ids
  BY <1>1 DEF Said, Stands, Bytes
<1>4. Hex(Inside(item).previous) \in [hex: Ids]
  BY <1>2 DEF Hex
<1>5. made \in Seq(Converted)
  BY MadeSequences
<1>6. QED
  BY <1>1, <1>2, <1>3, <1>4, <1>5 DEF Stands, BlockOf, Block

LEMMA FiniteRow ==
  ASSUME NEW S, NEW k \in Nat, NEW row \in [1..k -> S]
  PROVE  row \in Seq(S)
OBVIOUS

\* What the other invariants do not say of the types.
RestInv ==
  /\ pc \in [Fetchers -> {"off", "idle", "check", "read"}]
  /\ noise \in [Fetchers -> Seq(Noise)]
  /\ tries \in [Fetchers -> 0..MaxTries]

LEMMA RestStep ==
  ASSUME ConvertInv, RestInv, [Next]_vars
  PROVE  RestInv'
<1> USE DEF RestInv
<1>1. ASSUME NEW f \in Fetchers, CallEnds(f), NEW p \in {"off", "idle"},
             pc' = [pc EXCEPT ![f] = p]
      PROVE  RestInv'
  BY <1>1 DEF CallEnds
<1>2. CASE CaptiveRead \/ RpcRead
  BY <1>2 DEF CaptiveRead, RpcRead
<1>3. CASE CaptiveEmit \/ RpcEmit
  BY <1>1, <1>3 DEF CaptiveEmit, RpcEmit, Emit, Fetchers
<1>4. ASSUME NEW f \in Fetchers, Launch(f)
      PROVE  RestInv'
  BY <1>4 DEF Launch
<1>5. ASSUME NEW f \in Fetchers, Ask(f)
      PROVE  RestInv'
  BY <1>5, TriesAssumption DEF Ask
<1>6. ASSUME NEW f \in Fetchers, Open(f)
      PROVE  RestInv'
  <2>1. PICK n \in DOMAIN chain : Obtained(f) = chain[n]
    BY <1>6, AcceptableReply DEF Open, Said, Inside
  <2>2. PICK measured \in Measured(f) : noise' = [noise EXCEPT ![f] = measured]
    BY <1>6 DEF Open
  <2>3. measured \in Seq(Noise)
    <3>1. Len(chain[n].txs) \in Nat
      BY ChainShape
    <3>2. measured \in [1..Len(chain[n].txs) -> Noise]
      BY <2>1, <2>2 DEF Measured
    <3>3. QED
      BY <3>1, <3>2, FiniteRow
  <2>4. QED
    BY <1>6, <2>2, <2>3 DEF Open
<1>7. ASSUME NEW f \in Fetchers, Failed(f) \/ Restart(f)
      PROVE  RestInv'
  BY <1>1, <1>7 DEF Failed, Restart
<1>8. CASE UNCHANGED vars
  BY <1>8 DEF vars
<1>9. CASE RpcRefuseHash
  BY <1>7, <1>9 DEF RpcRefuseHash, Fetchers
<1>10. QED
  BY <1>2, <1>3, <1>4, <1>5, <1>6, <1>7, <1>8, <1>9 DEF Next, ReplyFails, RefuseTransaction

LEMMA RestAlways == Spec => []RestInv
<1>1. Init => RestInv
  BY TriesAssumption DEF Init, RestInv
<1>2. QED
  BY <1>1, RestStep, ConvertAlways, PTL DEF Spec

\* Every variable has its type; no block and nothing on its way to one has a
\* nil slice for a group, or a hash that is not in hexadecimal.
THEOREM TypeCorrect == Spec => []TypeOK
<1>1. ConvertInv /\ LaunchInv /\ RestInv => TypeOK
  <2>1. SUFFICES ASSUME ConvertInv, LaunchInv, RestInv
                 PROVE  TypeOK
    OBVIOUS
  <2>2. passphrase \in [Fetchers -> Passphrases \union {Unset}]
    <3>1. option.override \in Passphrases \union {Unset}
      BY <2>1, OptionsAssumption DEF LaunchInv
    <3>2. Named(option.network) \in Passphrases \union {Unset}
      BY DEF Named, Passphrases
    <3>3. \A f : Agreed(f) \subseteq Passphrases \union {Unset}
      BY <3>1, <3>2 DEF Agreed, Passphrases
    <3>4. passphrase = [f \in Fetchers |-> passphrase[f]]
      BY <2>1 DEF LaunchInv
    <3>5. \A f \in Fetchers : passphrase[f] \in Passphrases \union {Unset}
      BY <2>1, <3>3 DEF LaunchInv
    <3>6. QED
      BY <3>4, <3>5
  <2>3. ASSUME NEW f \in Fetchers
        PROVE  transactions[f] \in Seq(Converted)
    <3>1. FetcherInv(f)
      BY <2>1 DEF ConvertInv
    <3>2. CASE pc[f] = "read"
      <4>1. transactions[f] \in Seq(Makings)
        BY <3>1, <3>2 DEF FetcherInv, Converting, Prefix
      <4>2. QED
        BY <4>1, MadeSequences
    <3>3. CASE pc[f] # "read"
      <4>1. transactions[f] = <<>>
        BY <3>1, <3>3 DEF FetcherInv
      <4>2. <<>> \in Seq(Converted)
        OBVIOUS
      <4>3. QED
        BY <4>1, <4>2
    <3>4. QED
      BY <3>2, <3>3
  <2>4. transactions \in [Fetchers -> Seq(Converted)]
    <3>1. transactions = [f \in Fetchers |-> transactions[f]]
      BY <2>1 DEF ConvertInv
    <3>2. QED
      BY <2>3, <3>1
  <2>5. \A f \in Fetchers : emitted[f] \subseteq Block
    BY <2>1, SameEmitted, BlockShape
  <2>6. \A f \in Fetchers : reply[f] = <<>> \/ \E n \in DOMAIN chain : reply[f] \in Replies(n)
    BY <2>1 DEF ConvertInv, FetcherInv, Answered
  <2>7. QED
    BY <2>1, <2>2, <2>4, <2>5, <2>6 DEF TypeOK, ConvertInv, LaunchInv, RestInv
<1>2. QED
  BY <1>1, ConvertAlways, LaunchAlways, RestAlways, PTL
=============================================================================
