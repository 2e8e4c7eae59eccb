------------------------- MODULE CompareFetcherProofs -------------------------
(***************************************************************************)
(* Theorems on CompareFetcher, for any bundle size, any chain and any      *)
(* blocks whose transactions are numbered and told apart by their hash:    *)
(* the types, both directions of the verdict, what "not found" means, and  *)
(* that every step of the tool brings its end nearer.                      *)
(***************************************************************************)
EXTENDS CompareFetcher, DataProofs, TLAPS

----------------------------------------------------------------------------
(* The bundles.                                                            *)

\* Integer division by the bundle size.
LEMMA Division ==
  ASSUME NEW n \in Nat
  PROVE  /\ n \div BundleSize \in Nat
         /\ n = (n \div BundleSize) * BundleSize + (n % BundleSize)
         /\ n % BundleSize \in 0..(BundleSize - 1)
BY SizeAssumption

\* Where the bundle of a block starts.
LEMMA StartBounds ==
  ASSUME NEW n \in Nat
  PROVE  StartOf(n) \in Nat /\ StartOf(n) <= n /\ n < StartOf(n) + BundleSize
<1>1. (n \div BundleSize) * BundleSize \in Nat
  BY Division, SizeAssumption
<1>2. QED
  BY <1>1, Division, SizeAssumption DEF StartOf

\* A block between another one and the start of its bundle is in that bundle.
LEMMA SameStart ==
  ASSUME NEW n \in Nat, NEW a \in Nat, StartOf(n) <= a, a <= n
  PROVE  StartOf(a) = StartOf(n)
<1> DEFINE j == n \div BundleSize
           k == a \div BundleSize
<1>1. /\ j \in Nat /\ k \in Nat
      /\ StartOf(n) = j * BundleSize /\ StartOf(a) = k * BundleSize
  BY Division DEF StartOf
<1>2. /\ StartOf(n) <= n /\ n < StartOf(n) + BundleSize
      /\ StartOf(a) <= a /\ a < StartOf(a) + BundleSize
      /\ StartOf(n) \in Nat /\ StartOf(a) \in Nat
  BY StartBounds
<1>3. BundleSize \in Nat \ {0}
  BY SizeAssumption
<1> HIDE DEF j, k
<1>4. CASE j >= k + 1
  <2>1. j * BundleSize >= (k + 1) * BundleSize
    BY <1>1, <1>3, <1>4
  <2>2. (k + 1) * BundleSize = k * BundleSize + BundleSize
    BY <1>1, <1>3
  <2>3. QED
    BY <1>1, <1>2, <1>3, <2>1, <2>2
<1>5. CASE k >= j + 1
  <2>1. k * BundleSize >= (j + 1) * BundleSize
    BY <1>1, <1>3, <1>5
  <2>2. (j + 1) * BundleSize = j * BundleSize + BundleSize
    BY <1>1, <1>3
  <2>3. QED
    BY <1>1, <1>2, <1>3, <2>1, <2>2
<1>6. QED
  BY <1>1, <1>4, <1>5

----------------------------------------------------------------------------
(* Types.                                                                  *)

LEMMA TypeInit ==
  ASSUME Init
  PROVE  TypeOK
<1>1. MaxBlock \in Nat /\ storeFirst \in 1..MaxBlock
  BY FirstsAssumption, SizeAssumption DEF Init
<1>2. written \in 0..MaxBlock /\ at \in 0..(MaxBlock + 1) /\ gsBlock \in 0..MaxBlock
  BY <1>1 DEF Init
<1>3. QED
  BY <1>2 DEF Init, TypeOK

LEMMA TypeStep ==
  ASSUME TypeOK, [Next]_vars
  PROVE  TypeOK'
<1> USE DEF TypeOK, inputs, store, search
<1>n. /\ MaxBlock \in Nat \ {0} /\ blockNum \in Nat /\ storeFirst \in 1..MaxBlock
      /\ StartOf(blockNum) \in Nat /\ StartOf(blockNum) <= blockNum
  BY SizeAssumption, FirstsAssumption, StartBounds DEF Numbers
<1>f. FirstOf(blockNum) \in 0..MaxBlock /\ FirstOf(StartOf(blockNum)) \in 0..MaxBlock
  BY <1>n DEF FirstOf, Numbers
<1>1. CASE Fetch
  BY <1>1 DEF Fetch
<1>2. CASE RefuseFetch
  BY <1>2 DEF RefuseFetch
<1>3. CASE ListOneBlocks
  <2>1. Holds(blockNum) \in BOOLEAN
    BY DEF Holds
  <2>2. QED
    BY <1>3, <2>1 DEF ListOneBlocks, Picked
<1>4. CASE OpenFile
  BY <1>4, <1>n, <1>f DEF OpenFile, Numbers
<1>5. CASE OpenMerged
  BY <1>5, <1>n, <1>f DEF OpenMerged
<1>6. CASE ScanBlock
  <2>1. ~ScanEnds => at \in 0..MaxBlock
    BY <1>n DEF ScanEnds, Bundle
  <2>2. QED
    BY <1>6, <1>n, <2>1 DEF ScanBlock, Numbers
<1>7. CASE Compare
  BY <1>7 DEF Compare
<1>8. CASE CallFails
  BY <1>8 DEF CallFails
<1>9. CASE Ingest
  BY <1>9 DEF Ingest
<1>10. CASE WriteBlock
  BY <1>10, <1>n DEF WriteBlock, Numbers
<1>11. ASSUME NEW n \in Numbers, MergeBundle(StartOf(n))
       PROVE  TypeOK'
  <2>1. n \in Nat /\ n <= MaxBlock
    BY <1>n DEF Numbers
  <2>2. StartOf(n) \in 0..MaxBlock
    BY <1>n, <2>1, StartBounds
  <2>3. QED
    BY <1>11, <2>2 DEF MergeBundle
<1>12. ASSUME NEW n \in Numbers, DeleteOneBlock(n)
       PROVE  TypeOK'
  BY <1>12 DEF DeleteOneBlock
<1>13. CASE UNCHANGED vars
  BY <1>13 DEF vars
<1>14. QED
  BY <1>1, <1>2, <1>3, <1>4, <1>5, <1>6, <1>7, <1>8, <1>9, <1>10, <1>11, <1>12, <1>13
  DEF Next, Step

\* Every variable keeps its type.
THEOREM TypeCorrect == Spec => []TypeOK
BY TypeInit, TypeStep, PTL DEF Spec

----------------------------------------------------------------------------
(* The verdict.                                                            *)

\* What makes matching by hash a matching of places.
Wellformed(txs) ==
  /\ txs \in Seq(Transaction)
  /\ \A i, j \in 1..Len(txs) :
       txs[i].order = i /\ (txs[i].hash = txs[j].hash => i = j)

LEMMA BodiesWellformed ==
  ASSUME TypeOK
  PROVE  Wellformed(rpcBody.txs) /\ Wellformed(storedBody.txs)
BY BodiesAssumption DEF TypeOK, Wellformed, Body

\* The transaction found under a hash is the one that has it.
LEMMA FoundByHash ==
  ASSUME NEW txs, Wellformed(txs), NEW i \in 1..Len(txs)
  PROVE  ByHash(txs, txs[i].hash) = txs[i]
<1> DEFINE P(k) == k \in 1..Len(txs) /\ txs[k].hash = txs[i].hash
           j == CHOOSE k \in 1..Len(txs) : txs[k].hash = txs[i].hash
<1>1. j \in 1..Len(txs) /\ txs[j].hash = txs[i].hash
  OBVIOUS
<1>2. j = i
  BY <1>1 DEF Wellformed
<1>3. QED
  BY <1>2 DEF ByHash

\* Blocks that agree hash by hash agree place by place.
LEMMA AgreeInPlace ==
  ASSUME NEW a, NEW b, Wellformed(a.txs), Wellformed(b.txs), BlocksAgree(a, b)
  PROVE  SameTransactions(a.txs, b.txs)
<1>1. Len(a.txs) = Len(b.txs)
  BY DEF BlocksAgree
<1>2. ASSUME NEW i \in 1..Len(a.txs)
      PROVE  /\ a.txs[i].hash = b.txs[i].hash /\ a.txs[i].core = b.txs[i].core
             /\ SameEvents(a.txs[i].events, b.txs[i].events)
  <2>1. a.txs[i].hash \in HashesOf(a.txs)
    BY DEF HashesOf
  <2>2. a.txs[i].hash \in HashesOf(b.txs)
    BY <2>1 DEF BlocksAgree
  <2>3. PICK j \in 1..Len(b.txs) : b.txs[j].hash = a.txs[i].hash
    BY <2>2 DEF HashesOf
  <2>4. ByHash(a.txs, a.txs[i].hash) = a.txs[i]
    BY FoundByHash
  <2>5. ByHash(b.txs, a.txs[i].hash) = b.txs[j]
    BY <2>3, FoundByHash
  <2>6. TransactionsAgree(a.txs[i], b.txs[j])
    BY <2>1, <2>4, <2>5 DEF BlocksAgree
  <2>7. a.txs[i].order = b.txs[j].order
    BY <2>6 DEF TransactionsAgree
  <2>8. i = j
    BY <2>7 DEF Wellformed
  <2>9. b.txs[j].events = a.txs[i].events => SameEvents(a.txs[i].events, b.txs[j].events)
    BY DEF SameEvents
  <2>10. SameEvents(a.txs[i].events, b.txs[j].events) /\ a.txs[i].core = b.txs[j].core
    BY <2>6, <2>9 DEF TransactionsAgree, EventsAgree, SameEvents
  <2>11. QED
    BY <2>3, <2>8, <2>10
<1>3. QED
  BY <1>1, <1>2 DEF SameTransactions

\* The other way round, when the endpoint's block has no empty groups.
LEMMA SameAgree ==
  ASSUME NEW a, NEW b, Wellformed(a.txs), Wellformed(b.txs), a.head = b.head,
         SameTransactions(a.txs, b.txs), NoEmptyGroups(a.txs)
  PROVE  BlocksAgree(a, b)
<1>1. Len(a.txs) = Len(b.txs)
  BY DEF SameTransactions
<1>2. HashesOf(a.txs) = HashesOf(b.txs)
  BY DEF SameTransactions, HashesOf
<1>3. ASSUME NEW h \in HashesOf(a.txs)
      PROVE  TransactionsAgree(ByHash(a.txs, h), ByHash(b.txs, h))
  <2>1. PICK i \in 1..Len(a.txs) : a.txs[i].hash = h
    BY DEF HashesOf
  <2>2. i \in 1..Len(b.txs) /\ b.txs[i].hash = h
    BY <1>1, <2>1 DEF SameTransactions
  <2>3. ByHash(a.txs, h) = a.txs[i] /\ ByHash(b.txs, h) = b.txs[i]
    BY <2>1, <2>2, FoundByHash
  <2>4. a.txs[i].order = b.txs[i].order
    BY <2>1, <2>2 DEF Wellformed
  <2>5. a.txs[i].core = b.txs[i].core /\ SameEvents(a.txs[i].events, b.txs[i].events)
    BY <2>1 DEF SameTransactions
  <2>6. ASSUME a.txs[i].events # NoEvents
        PROVE  Without(a.txs[i].events.groups, {Empty}) = a.txs[i].events.groups
    <3>1. a.txs[i] \in Transaction
      BY <2>1 DEF Wellformed
    <3>2. a.txs[i].events.groups \in Seq(Lists)
      BY <2>6, <3>1 DEF Transaction, Events
    <3>3. \A j \in 1..Len(a.txs[i].events.groups) : a.txs[i].events.groups[j] \notin {Empty}
      BY <2>1, <2>6 DEF NoEmptyGroups
    <3>4. QED
      BY <3>2, <3>3, WithoutNothing
  <2>7. EventsAgree(a.txs[i].events, b.txs[i].events)
    BY <2>5, <2>6 DEF SameEvents, EventsAgree
  <2>8. QED
    BY <2>3, <2>4, <2>5, <2>7 DEF TransactionsAgree
<1>4. QED
  BY <1>1, <1>2, <1>3 DEF BlocksAgree

\* The endpoint's transaction is not relieved of its empty groups, the store's
\* is: one that has any agrees with nothing but its very copy, diagnostic
\* events included.
THEOREM EmptyGroupsDiffer ==
  ASSUME NEW rpc \in Transaction, NEW gs \in Transaction, rpc.events # NoEvents,
         NEW j \in 1..Len(rpc.events.groups), rpc.events.groups[j] = Empty
  PROVE  TransactionsAgree(rpc, gs) <=> rpc = gs
<1>1. SUFFICES ASSUME EventsAgree(rpc.events, gs.events)
               PROVE  FALSE
  BY DEF TransactionsAgree
<1>2. gs.events # NoEvents /\ rpc.events.groups = Without(gs.events.groups, {Empty})
  BY <1>1 DEF EventsAgree
<1>3. gs.events.groups \in Seq(Lists)
  BY <1>2 DEF Transaction, Events
<1>4. rpc.events.groups \in Seq(Lists \ {Empty})
  BY <1>2, <1>3, WithoutExact
<1>5. rpc.events.groups[j] \in Lists \ {Empty}
  BY <1>4
<1>6. QED
  BY <1>5

\* Where a verdict comes from.
VerdictInv ==
  /\ TypeOK
  /\ pc = "identical" => gsBlock = blockNum /\ BlocksAgree(rpcBody, storedBody)
  /\ pc = "different" => ~(gsBlock = blockNum /\ BlocksAgree(rpcBody, storedBody))

LEMMA VerdictStep ==
  ASSUME VerdictInv, [Next]_vars
  PROVE  VerdictInv'
<1>1. TypeOK'
  BY TypeStep DEF VerdictInv
<1>2. CASE Compare
  BY <1>1, <1>2 DEF Compare, VerdictInv, inputs, search
<1>3. CASE UNCHANGED <<inputs, pc, search>>
  BY <1>1, <1>3 DEF VerdictInv, inputs, search
<1>4. ASSUME UNCHANGED inputs, pc' \notin {"identical", "different"}
      PROVE  VerdictInv'
  BY <1>1, <1>4 DEF VerdictInv
<1>5. CASE Fetch \/ RefuseFetch \/ CallFails
  BY <1>4, <1>5 DEF Fetch, RefuseFetch, CallFails
<1>6. CASE ListOneBlocks \/ OpenFile \/ OpenMerged \/ ScanBlock
  BY <1>4, <1>6 DEF ListOneBlocks, OpenFile, OpenMerged, ScanBlock
<1>7. CASE Ingest \/ WriteBlock
  BY <1>3, <1>7 DEF Ingest, WriteBlock
<1>8. ASSUME NEW n \in Numbers, MergeBundle(StartOf(n)) \/ DeleteOneBlock(n)
      PROVE  VerdictInv'
  BY <1>3, <1>8 DEF MergeBundle, DeleteOneBlock
<1>9. CASE UNCHANGED vars
  BY <1>3, <1>9 DEF vars
<1>10. QED
  BY <1>2, <1>5, <1>6, <1>7, <1>8, <1>9 DEF Next, Step

LEMMA VerdictAlways == Spec => []VerdictInv
<1>1. Init => VerdictInv
  BY TypeInit DEF Init, VerdictInv
<1>2. QED
  BY <1>1, VerdictStep, PTL DEF Spec

\* "Blocks are identical!" means: the block asked for, and place by place the
\* same transactions.
THEOREM SoundCorrect == Spec => []VerdictSound
<1>1. VerdictInv => VerdictSound
  BY BodiesWellformed, AgreeInPlace DEF VerdictInv, VerdictSound, BlocksAgree
<1>2. QED
  BY <1>1, VerdictAlways, PTL

\* Differences are real, when the endpoint's block has no empty group.
THEOREM CompleteCorrect == Spec => []VerdictComplete
<1>1. VerdictInv => VerdictComplete
  BY BodiesWellformed, SameAgree DEF VerdictInv, VerdictComplete
<1>2. QED
  BY <1>1, VerdictAlways, PTL

----------------------------------------------------------------------------
(* Blocks reported missing.                                                *)

\* One-block files are of blocks of the chain that were written.
FilesInv == oneblocks \subseteq storeFirst..written /\ storeFirst <= written + 1

\* A block of a one-block file is in its bundle when the file goes, and a file
\* that went is not written again.
LEMMA HoldsStays ==
  ASSUME TypeOK, FilesInv, [Next]_vars
  PROVE  /\ FilesInv'
         /\ blockNum' = blockNum /\ written <= written' /\ merged \subseteq merged'
         /\ Holds(blockNum) => Holds(blockNum)'
         /\ blockNum <= written /\ blockNum \notin oneblocks => blockNum \notin oneblocks'
<1> USE DEF store
<1> DEFINE Kept == /\ FilesInv'
                   /\ blockNum' = blockNum /\ written <= written' /\ merged \subseteq merged'
                   /\ Holds(blockNum) => Holds(blockNum)'
                   /\ blockNum <= written /\ blockNum \notin oneblocks => blockNum \notin oneblocks'
<1>n. /\ MaxBlock \in Nat /\ blockNum \in 1..MaxBlock /\ storeFirst \in 1..MaxBlock
      /\ written \in 0..MaxBlock
  BY SizeAssumption, FirstsAssumption DEF TypeOK, Numbers
<1>i. UNCHANGED inputs
  BY DEF Next, Step, Fetch, RefuseFetch, ListOneBlocks, OpenFile, OpenMerged, ScanBlock,
     Compare, CallFails, Ingest, WriteBlock, MergeBundle, DeleteOneBlock, vars
<1>b. /\ blockNum' = blockNum /\ storeFirst' = storeFirst
      /\ Bundle(StartOf(blockNum))' = Bundle(StartOf(blockNum))
  BY <1>i DEF inputs, Bundle
<1>h. Holds(blockNum)' <=>
        blockNum \in oneblocks' \/ (StartOf(blockNum) \in merged' /\ blockNum \in Bundle(StartOf(blockNum)))
  BY <1>b DEF Holds
<1>1. CASE UNCHANGED store
  BY <1>1, <1>n, <1>b, <1>h DEF FilesInv, Holds
<1>2. CASE WriteBlock
  <2>1. /\ oneblocks' = oneblocks \union {written + 1} /\ written' = written + 1
        /\ merged' = merged
    BY <1>2 DEF WriteBlock
  <2>2. written + 1 # blockNum \/ ~(blockNum <= written)
    BY <1>n
  <2>3. QED
    BY <2>1, <2>2, <1>n, <1>b, <1>h DEF FilesInv, Holds
<1>3. ASSUME merged \subseteq merged', UNCHANGED <<oneblocks, written>>
      PROVE  Kept
  BY <1>3, <1>n, <1>b, <1>h DEF FilesInv, Holds
<1>4. ASSUME NEW n \in Numbers, DeleteOneBlock(n)
      PROVE  Kept
  <2>1. /\ UNCHANGED <<merged, written>> /\ oneblocks' = oneblocks \ {n}
        /\ n \in oneblocks /\ StartOf(n) \in merged
    BY <1>4 DEF DeleteOneBlock
  <2>2. n = blockNum => blockNum \in Bundle(StartOf(blockNum))
    BY <1>n, <2>1 DEF FilesInv, Bundle
  <2>3. Holds(blockNum) => Holds(blockNum)'
    BY <1>h, <2>1, <2>2 DEF Holds
  <2>4. QED
    BY <1>n, <1>b, <2>1, <2>3 DEF FilesInv
<1>5. (\E n \in Numbers : MergeBundle(StartOf(n)) \/ DeleteOneBlock(n)) \/ WriteBlock \/ UNCHANGED store
  BY DEF Next, Step, Fetch, RefuseFetch, ListOneBlocks, OpenFile, OpenMerged, ScanBlock,
     Compare, CallFails, Ingest, vars
<1>6. ASSUME NEW n \in Numbers, MergeBundle(StartOf(n))
      PROVE  Kept
  BY <1>3, <1>6 DEF MergeBundle
<1>7. QED
  BY <1>1, <1>2, <1>4, <1>5, <1>6

\* Once the one-block files were seen not to have it, a block the store holds
\* is in its bundle for good, and the scan is not past it; once they were seen
\* to have it, the store has it for good.
SearchInv ==
  /\ TypeOK
  /\ FilesInv
  /\ pc \in {"openMerged", "scan"} => picked = "none"
  /\ pc \in {"openFile", "notFound"} /\ picked = "oneblock" =>
       blockNum <= written /\ Holds(blockNum)
  /\ pc \in {"openMerged", "scan"} /\ held =>
       StartOf(blockNum) \in merged /\ blockNum \in Bundle(StartOf(blockNum))
  /\ pc = "scan" => StartOf(blockNum) <= at /\ storeFirst <= at
  /\ pc = "scan" /\ held => at <= blockNum
  /\ NotFoundTruthful

\* A scan that has not passed the block goes on to it.
LEMMA ScanReaches ==
  ASSUME SearchInv, pc = "scan", held
  PROVE  ~ScanEnds
<1>1. /\ blockNum \in Nat /\ at \in Nat /\ at <= blockNum /\ StartOf(blockNum) <= at
      /\ storeFirst <= at /\ blockNum <= MaxBlock /\ MaxBlock \in Nat
      /\ storeFirst \in Nat
  BY SizeAssumption, FirstsAssumption DEF SearchInv, TypeOK, Numbers
<1>2. StartOf(at) = StartOf(blockNum)
  BY <1>1, SameStart
<1>3. QED
  BY <1>1, <1>2 DEF ScanEnds, Bundle

LEMMA SearchStep ==
  ASSUME SearchInv, [Next]_vars
  PROVE  SearchInv'
<1>t. TypeOK /\ TypeOK'
  BY TypeStep DEF SearchInv
<1>n. /\ blockNum \in Nat /\ MaxBlock \in Nat /\ storeFirst \in Nat
      /\ StartOf(blockNum) \in Nat /\ StartOf(blockNum) <= blockNum
      /\ written \in Nat /\ written' \in Nat
  BY <1>t, SizeAssumption, FirstsAssumption, StartBounds DEF TypeOK, Numbers
<1>h. /\ FilesInv' /\ blockNum' = blockNum /\ merged \subseteq merged'
      /\ Holds(blockNum) => Holds(blockNum)'
      /\ blockNum <= written => blockNum' <= written'
      /\ blockNum <= written /\ blockNum \notin oneblocks => blockNum \notin oneblocks'
  BY <1>t, <1>n, HoldsStays DEF SearchInv
<1>i. UNCHANGED inputs
  BY DEF Next, Step, Fetch, RefuseFetch, ListOneBlocks, OpenFile, OpenMerged, ScanBlock,
     Compare, CallFails, Ingest, WriteBlock, MergeBundle, DeleteOneBlock, vars
<1>b. /\ StartOf(blockNum)' = StartOf(blockNum) /\ storeFirst' = storeFirst
      /\ Bundle(StartOf(blockNum))' = Bundle(StartOf(blockNum))
  BY <1>h, <1>i DEF Bundle, StartOf, inputs
<1>1. CASE ListOneBlocks
  <2>1. /\ pc' = IF Picked = "none" THEN "openMerged" ELSE "openFile"
        /\ picked' = Picked /\ held' = Holds(blockNum)
    BY <1>1 DEF ListOneBlocks
  <2>2. blockNum \in oneblocks => blockNum <= written /\ Holds(blockNum)
    BY <1>n DEF SearchInv, FilesInv, Holds
  <2>3. Picked = "none" /\ Holds(blockNum) =>
          StartOf(blockNum) \in merged /\ blockNum \in Bundle(StartOf(blockNum))
    BY DEF Picked, Holds
  <2>4. Picked = "oneblock" => blockNum \in oneblocks
    BY DEF Picked
  <2>5. CASE Picked = "none"
    BY <1>t, <1>h, <1>b, <2>1, <2>3, <2>5 DEF SearchInv, NotFoundTruthful
  <2>6. CASE Picked # "none"
    BY <1>t, <1>h, <2>1, <2>2, <2>4, <2>6 DEF SearchInv, NotFoundTruthful
  <2>7. QED
    BY <2>5, <2>6
<1>2. CASE OpenFile
  <2>1. /\ pc = "openFile" /\ UNCHANGED <<picked, held>>
        /\ \/ pc' = "notFound" /\ picked = "oneblock" /\ blockNum \notin oneblocks
           \/ pc' = "compare"
    BY <1>2 DEF OpenFile
  <2>2. picked = "oneblock" => blockNum <= written /\ Holds(blockNum)
    BY <2>1 DEF SearchInv
  <2>3. pc' = "notFound" => DeletedUnderneath'
    BY <1>h, <2>1, <2>2 DEF DeletedUnderneath
  <2>4. picked' = "oneblock" => blockNum' <= written' /\ Holds(blockNum)'
    BY <1>h, <2>1, <2>2
  <2>5. QED
    BY <1>t, <1>h, <2>1, <2>3, <2>4 DEF SearchInv, NotFoundTruthful
<1>3. CASE OpenMerged
  <2>1. /\ pc = "openMerged" /\ UNCHANGED <<picked, held>>
        /\ StartOf(blockNum) \in merged => pc' = "scan" /\ at' = FirstOf(StartOf(blockNum))
        /\ StartOf(blockNum) \notin merged => pc' = "notFound"
    BY <1>3 DEF OpenMerged
  <2>2. blockNum \in Bundle(StartOf(blockNum)) => FirstOf(StartOf(blockNum)) <= blockNum
    BY <1>n DEF Bundle, FirstOf
  <2>3. StartOf(blockNum) <= FirstOf(StartOf(blockNum)) /\ storeFirst <= FirstOf(StartOf(blockNum))
    BY <1>n DEF FirstOf
  <2>4. /\ picked = "none"
        /\ held => StartOf(blockNum) \in merged /\ blockNum \in Bundle(StartOf(blockNum))
    BY <2>1 DEF SearchInv
  <2>5. QED
    BY <1>t, <1>h, <1>b, <2>1, <2>2, <2>3, <2>4 DEF SearchInv, NotFoundTruthful
<1>4. CASE ScanBlock
  <2>1. /\ pc = "scan" /\ UNCHANGED <<picked, held>>
        /\ \/ ScanEnds /\ pc' = "notFound"
           \/ pc' = "compare"
           \/ ~ScanEnds /\ at # blockNum /\ at' = at + 1 /\ pc' = "scan"
    BY <1>4 DEF ScanBlock
  <2>2. held => ~ScanEnds
    BY <2>1, ScanReaches
  <2>3. at \in Nat
    BY <1>t, <1>n DEF TypeOK
  <2>4. /\ StartOf(blockNum) <= at /\ storeFirst <= at /\ picked = "none"
        /\ held => at <= blockNum
        /\ held => StartOf(blockNum) \in merged /\ blockNum \in Bundle(StartOf(blockNum))
    BY <2>1 DEF SearchInv
  <2>5. CASE ~ScanEnds /\ at # blockNum /\ at' = at + 1 /\ pc' = "scan"
    <3>1. StartOf(blockNum) <= at' /\ storeFirst <= at' /\ (held => at' <= blockNum)
      BY <1>n, <2>3, <2>4, <2>5
    <3>2. QED
      BY <1>t, <1>h, <1>b, <2>1, <2>4, <2>5, <3>1 DEF SearchInv, NotFoundTruthful
  <2>6. CASE pc' = "compare"
    BY <1>t, <1>h, <2>6 DEF SearchInv, NotFoundTruthful
  <2>7. CASE ScanEnds /\ pc' = "notFound"
    BY <1>t, <1>h, <2>1, <2>2, <2>4, <2>7 DEF SearchInv, NotFoundTruthful
  <2>8. QED
    BY <2>1, <2>5, <2>6, <2>7
<1>5. CASE UNCHANGED <<pc, search>>
  <2>1. UNCHANGED <<pc, picked, at, held>>
    BY <1>5 DEF search
  <2>2. /\ NotFoundTruthful'
    <3>1. SUFFICES ASSUME pc = "notFound", held
                   PROVE  DeletedUnderneath'
      BY <2>1 DEF NotFoundTruthful
    <3>2. picked = "oneblock" /\ blockNum \notin oneblocks /\ Holds(blockNum)
      BY <3>1 DEF SearchInv, NotFoundTruthful, DeletedUnderneath
    <3>3. blockNum <= written
      BY <3>1, <3>2 DEF SearchInv
    <3>4. QED
      BY <1>h, <2>1, <3>2, <3>3 DEF DeletedUnderneath
  <2>3. QED
    BY <1>t, <1>h, <1>b, <2>1, <2>2 DEF SearchInv
<1>6. ASSUME pc' \notin {"openFile", "openMerged", "scan", "notFound"}
      PROVE  SearchInv'
  BY <1>t, <1>h, <1>6 DEF SearchInv, NotFoundTruthful
<1>7. CASE Fetch \/ RefuseFetch \/ CallFails \/ Compare
  BY <1>6, <1>7 DEF Fetch, RefuseFetch, CallFails, Compare
<1>8. CASE Ingest \/ WriteBlock
  BY <1>5, <1>8 DEF Ingest, WriteBlock
<1>9. ASSUME NEW n \in Numbers, MergeBundle(StartOf(n)) \/ DeleteOneBlock(n)
      PROVE  SearchInv'
  BY <1>5, <1>9 DEF MergeBundle, DeleteOneBlock
<1>10. CASE UNCHANGED vars
  BY <1>5, <1>10 DEF vars
<1>11. QED
  BY <1>1, <1>2, <1>3, <1>4, <1>7, <1>8, <1>9, <1>10 DEF Next, Step

\* However bundles are merged and files deleted under the tool, it does not
\* report a block missing that the store had, unless the block's one-block
\* file goes between being listed and being opened.
THEOREM NotFoundCorrect == Spec => []NotFoundTruthful
<1>1. ASSUME Init
      PROVE  SearchInv
  <2>1. storeFirst \in Nat
    BY <1>1, FirstsAssumption, SizeAssumption DEF Init
  <2>2. FilesInv
    BY <1>1, <2>1 DEF Init, FilesInv
  <2>3. pc = "fetch" /\ TypeOK
    BY <1>1, TypeInit DEF Init
  <2>4. QED
    BY <2>2, <2>3 DEF SearchInv, NotFoundTruthful
<1>2. SearchInv => NotFoundTruthful
  BY DEF SearchInv
<1>3. QED
  BY <1>1, <1>2, SearchStep, PTL DEF Spec

----------------------------------------------------------------------------
(* The network.                                                            *)

NetworkInv ==
  pc \notin {"fetch", "error"} =>
    ComparePassphrase(network) # Unset /\ Extractable(ComparePassphrase(network))

LEMMA NetworkStep ==
  ASSUME NetworkInv, [Next]_vars
  PROVE  NetworkInv'
<1>1. UNCHANGED inputs
  BY DEF Next, Step, Fetch, RefuseFetch, ListOneBlocks, OpenFile, OpenMerged, ScanBlock,
     Compare, CallFails, Ingest, WriteBlock, MergeBundle, DeleteOneBlock, vars
<1>2. /\ ComparePassphrase(network)' = ComparePassphrase(network)
      /\ Extractable(ComparePassphrase(network))' = Extractable(ComparePassphrase(network))
  BY <1>1 DEF inputs, ComparePassphrase, Extractable, Named
<1>3. pc' \in {"fetch", "error"} \/ pc \notin {"fetch", "error"} \/ Fetch
  BY DEF Next, Step, Fetch, RefuseFetch, ListOneBlocks, OpenFile, OpenMerged, ScanBlock,
     Compare, CallFails, Ingest, WriteBlock, MergeBundle, DeleteOneBlock, vars
<1>4. QED
  BY <1>2, <1>3 DEF NetworkInv, Fetch

\* Transactions are compared only if --network names the endpoint's network.
THEOREM NetworkCorrect == Spec => []NetworkRespected
<1>1. Init => NetworkInv
  BY DEF Init, NetworkInv
<1>2. NetworkInv => NetworkRespected
  BY DEF NetworkInv, NetworkRespected, Extractable, ComparePassphrase
<1>3. QED
  BY <1>1, <1>2, NetworkStep, PTL DEF Spec

----------------------------------------------------------------------------
(* The tool ends: its steps lessen what it has left to do, and nobody      *)
(* else's steps add to it.                                                 *)

PhasesLeft ==
  CASE pc = "fetch" -> 5
    [] pc = "list" -> 4
    [] pc \in {"openFile", "openMerged"} -> 3
    [] pc = "scan" -> 2
    [] pc = "compare" -> 1
    [] OTHER -> 0

BlocksLeft == MaxBlock + 1 - at

Lessens ==
  \/ PhasesLeft' < PhasesLeft
  \/ PhasesLeft' = PhasesLeft /\ BlocksLeft' < BlocksLeft

LEMMA ProgressStep ==
  ASSUME TypeOK, Step \/ CallFails
  PROVE  Lessens
<1> USE DEF PhasesLeft, BlocksLeft, Lessens
<1>1. at \in Int /\ MaxBlock \in Int
  BY SizeAssumption DEF TypeOK
<1>2. CASE Fetch \/ RefuseFetch \/ ListOneBlocks
  BY <1>2 DEF Fetch, RefuseFetch, ListOneBlocks
<1>3. CASE OpenFile \/ OpenMerged
  BY <1>3 DEF OpenFile, OpenMerged
<1>4. CASE ScanBlock
  BY <1>1, <1>4 DEF ScanBlock
<1>5. CASE Compare \/ CallFails
  BY <1>5 DEF Compare, CallFails
<1>6. QED
  BY <1>2, <1>3, <1>4, <1>5 DEF Step

\* Every step lessens what the tool has left to do, which is counted in
\* natural numbers, or is one of the endpoint or the store's Firehose and
\* leaves the tool alone: whatever they do, and however the store changes
\* under it, the tool takes no infinite number of steps.
THEOREM EveryStepLessens ==
  Spec => /\ [](PhasesLeft \in Nat /\ BlocksLeft \in Nat)
          /\ [][Lessens \/ UNCHANGED <<pc, search>>]_vars
<1>1. TypeOK => PhasesLeft \in Nat /\ BlocksLeft \in Nat
  BY SizeAssumption DEF TypeOK, PhasesLeft, BlocksLeft
<1>2. TypeOK /\ [Next]_vars => [Lessens \/ UNCHANGED <<pc, search>>]_vars
  BY ProgressStep DEF Next, Ingest, WriteBlock, MergeBundle, DeleteOneBlock
<1>3. QED
  BY <1>1, <1>2, TypeCorrect, PTL DEF Spec
=============================================================================
