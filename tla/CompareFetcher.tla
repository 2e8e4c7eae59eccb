---------------------------- MODULE CompareFetcher ----------------------------
(***************************************************************************)
(* `firestellar tool-compare-fetcher-blocks`                               *)
(* (cmd/firestellar/tool_compare_fetcher_blocks.go): a block is fetched    *)
(* from an RPC endpoint, looked for in a store and compared.  The store    *)
(* holds one-block files and merged bundles of one chain, and the tool     *)
(* reads it while a Firehose writes to it: blocks are added, bundles are   *)
(* merged, and the one-block files of a merged bundle are deleted.         *)
(*                                                                         *)
(* A step of the tool is one exchange with the endpoint, one call on the   *)
(* store, one block read from a bundle, or the comparison, which changes   *)
(* nothing but the verdict.                                                *)
(***************************************************************************)
EXTENDS Integers, Sequences, Groups, NetworkConfig

CONSTANTS
  BundleSize,   \* segmentSize
  MaxBlock,     \* bound: the last block
  StoreFirsts,  \* the first blocks a store may begin with
  Hashes,       \* transactions, told apart by their hash
  Heads,        \* Id, ParentId, Version, Hash and the five Header fields
  Lists,        \* lists of events
  Empty,        \* the list without events
  NoEvents,     \* a transaction whose Events are nil
  RpcBodies,    \* what the endpoint's block may hold
  StoredBodies  \* what the store's block may hold

Events == [diagnostic: Lists, fees: Lists, groups: Seq(Lists)]

\* core: Status, CreatedAt, EnvelopeXdr and ResultXdr.
Transaction ==
  [hash: Hashes, order: Nat, core: Nat, events: Events \union {NoEvents}]

\* aside: LibNum, ParentNum, Timestamp and CreatedAt.
Body == [head: Heads, aside: Nat, txs: Seq(Transaction)]

ASSUME SizeAssumption == BundleSize \in Nat \ {0} /\ MaxBlock \in Nat \ {0}
ASSUME FirstsAssumption == StoreFirsts \subseteq 1..MaxBlock
ASSUME EventsAssumption == Empty \in Lists /\ NoEvents \notin Events

\* A ledger has a transaction once, and either fetcher numbers them in order.
ASSUME BodiesAssumption ==
  /\ RpcBodies \subseteq Body /\ StoredBodies \subseteq Body
  /\ \A b \in RpcBodies \union StoredBodies :
       \A i, j \in 1..Len(b.txs) :
         b.txs[i].order = i /\ (b.txs[i].hash = b.txs[j].hash => i = j)

VARIABLES
  blockNum, network,   \* the arguments
  served,              \* the passphrase of the endpoint's network
  rpcBody,             \* the endpoint's block blockNum
  available,           \* the endpoint has that ledger
  storeFirst,          \* the first block of the store's chain
  storedBody,          \* the store's block blockNum
  written,             \* the last block written to the store
  oneblocks,           \* blocks the store has a one-block file of
  merged,              \* bundles the store has, by their first number
  pc,
  picked,              \* files[0]: a one-block file, or the file of a bundle
  at,                  \* the block of the bundle that is read next
  gsBlock,             \* the number of the block loaded, 0 before
  held                 \* history: the store held the block when it was listed

inputs == <<blockNum, network, served, rpcBody, storeFirst, storedBody>>
store == <<written, oneblocks, merged>>
search == <<picked, at, gsBlock, held>>
vars == <<inputs, available, store, pc, search>>

Numbers == 1..MaxBlock
StartOf(n) == (n \div BundleSize) * BundleSize
Bundle(f) == {n \in storeFirst..MaxBlock : StartOf(n) = f}
FirstOf(f) == IF storeFirst > f THEN storeFirst ELSE f

Holds(n) == n \in oneblocks \/ (StartOf(n) \in merged /\ n \in Bundle(StartOf(n)))

----------------------------------------------------------------------------
(* Fetching.                                                               *)

\* The SDK does not find the transactions of a ledger under the hashes a
\* wrong passphrase makes.
Extractable(p) == p = served \/ rpcBody.txs = <<>>

Fetch ==
  /\ pc = "fetch"
  /\ available
  /\ ComparePassphrase(network) # Unset
  /\ Extractable(ComparePassphrase(network))
  /\ pc' = "list"
  /\ UNCHANGED <<inputs, available, store, search>>

\* An unsupported network, unreadable transactions, or an exchange that fails.
RefuseFetch ==
  /\ pc = "fetch"
  /\ \/ ComparePassphrase(network) = Unset
     \/ available /\ ~Extractable(ComparePassphrase(network))
  /\ pc' = "error"
  /\ UNCHANGED <<inputs, available, store, search>>

----------------------------------------------------------------------------
(* Loading the stored block.                                               *)

\* The first file whose name begins with the number.  The bundle that begins
\* at the number has such a name too: "<number>.dbin", which sorts after the
\* "<number>-..." of one-block files.
Picked ==
  IF blockNum \in oneblocks THEN "oneblock"
  ELSE IF blockNum \in merged THEN "bundle"
  ELSE "none"

\* Mutant: the bundle is looked for before the one-block files.
ListBundleFirst ==
  /\ pc = "list"
  /\ held' = IF picked = "none" THEN Holds(blockNum) ELSE held
  /\ \/ /\ picked = "none" /\ StartOf(blockNum) \in merged
        /\ pc' = "openMerged" /\ UNCHANGED picked
     \/ /\ picked = "none" /\ StartOf(blockNum) \notin merged
        /\ picked' = "oneblock" /\ UNCHANGED pc
     \/ /\ picked = "oneblock" /\ blockNum \in oneblocks
        /\ pc' = "openFile" /\ UNCHANGED picked
     \/ /\ picked = "oneblock" /\ blockNum \notin oneblocks
        /\ pc' = "notFound" /\ picked' = "none"
  /\ UNCHANGED <<inputs, available, store, at, gsBlock>>

ListOneBlocks ==
  /\ pc = "list"
  /\ picked' = Picked
  /\ held' = Holds(blockNum)
  /\ pc' = IF Picked = "none" THEN "openMerged" ELSE "openFile"
  /\ UNCHANGED <<inputs, available, store, at, gsBlock>>

\* Only the first block of the file is read.  A one-block file may be gone by
\* now, which is an object that is not found, as a missing bundle is; the
\* bundle is not tried.
OpenFile ==
  /\ pc = "openFile"
  /\ IF picked = "oneblock" /\ blockNum \notin oneblocks
     THEN pc' = "notFound" /\ UNCHANGED gsBlock
     ELSE /\ gsBlock' = IF picked = "bundle" THEN FirstOf(blockNum) ELSE blockNum
          /\ pc' = "compare"
  /\ UNCHANGED <<inputs, available, store, picked, at, held>>

OpenMerged ==
  /\ pc = "openMerged"
  /\ IF StartOf(blockNum) \in merged
     THEN pc' = "scan" /\ at' = FirstOf(StartOf(blockNum))
     ELSE pc' = "notFound" /\ UNCHANGED at
  /\ UNCHANGED <<inputs, available, store, picked, gsBlock, held>>

\* Mutant: the scan never ends.
ScanEndsNever == FALSE

\* The end of the file, or a block beyond the one looked for.
ScanEnds == at \notin Bundle(StartOf(blockNum)) \/ at > blockNum

\* Mutant: the reader is not advanced.
ScanBlockAgain ==
  /\ pc = "scan"
  /\ \/ ScanEnds /\ pc' = "notFound" /\ UNCHANGED gsBlock
     \/ ~ScanEnds /\ at = blockNum /\ gsBlock' = at /\ pc' = "compare"
     \/ ~ScanEnds /\ at # blockNum /\ UNCHANGED <<pc, gsBlock>>
  /\ UNCHANGED <<inputs, available, store, at, picked, held>>

ScanBlock ==
  /\ pc = "scan"
  /\ \/ ScanEnds /\ pc' = "notFound" /\ UNCHANGED <<at, gsBlock>>
     \/ ~ScanEnds /\ at = blockNum /\ gsBlock' = at /\ pc' = "compare" /\ UNCHANGED at
     \/ ~ScanEnds /\ at # blockNum /\ at' = at + 1 /\ UNCHANGED <<pc, gsBlock>>
  /\ UNCHANGED <<inputs, available, store, picked, held>>

----------------------------------------------------------------------------
(* Comparing.                                                              *)

HashesOf(txs) == {txs[i].hash : i \in 1..Len(txs)}
ByHash(txs, h) == txs[CHOOSE i \in 1..Len(txs) : txs[i].hash = h]

\* Mutant: groups are compared as they are.
EventsAgreeRaw(rpc, gs) ==
  \/ rpc = NoEvents /\ gs = NoEvents
  \/ /\ rpc # NoEvents /\ gs # NoEvents
     /\ rpc.fees = gs.fees /\ rpc.groups = gs.groups

\* Diagnostic events are not compared; groups without events are dropped on
\* the store's side and kept on the endpoint's.
EventsAgree(rpc, gs) ==
  \/ rpc = NoEvents /\ gs = NoEvents
  \/ /\ rpc # NoEvents /\ gs # NoEvents
     /\ rpc.fees = gs.fees
     /\ rpc.groups = Without(gs.groups, {Empty})

\* Mutant: the position in the ledger is left out.
TransactionsAgreeUnordered(rpc, gs) ==
  rpc.core = gs.core /\ EventsAgree(rpc.events, gs.events)

TransactionsAgree(rpc, gs) ==
  \/ rpc = gs
  \/ /\ rpc.order = gs.order /\ rpc.core = gs.core
     /\ EventsAgree(rpc.events, gs.events)

\* compareBlocks, the numbers aside, finds no difference.
BlocksAgree(rpc, gs) ==
  /\ rpc.head = gs.head
  /\ Len(rpc.txs) = Len(gs.txs)
  /\ HashesOf(rpc.txs) = HashesOf(gs.txs)
  /\ \A h \in HashesOf(rpc.txs) : TransactionsAgree(ByHash(rpc.txs, h), ByHash(gs.txs, h))

\* A block of another number has another id, among other things.
Compare ==
  /\ pc = "compare"
  /\ pc' = IF gsBlock = blockNum /\ BlocksAgree(rpcBody, storedBody)
           THEN "identical" ELSE "different"
  /\ UNCHANGED <<inputs, available, store, search>>

----------------------------------------------------------------------------

\* An exchange with the endpoint or a call on the store fails.
CallFails ==
  /\ pc \in {"fetch", "list", "openFile", "openMerged", "scan"}
  /\ pc' = "error"
  /\ UNCHANGED <<inputs, available, store, search>>

\* The endpoint ingests the ledger.
Ingest ==
  /\ ~available
  /\ available' = TRUE
  /\ UNCHANGED <<inputs, store, pc, search>>

\* The Firehose that owns the store writes the next block, merges a complete
\* bundle, deletes a one-block file whose bundle is merged.
WriteBlock ==
  /\ written < MaxBlock
  /\ written' = written + 1
  /\ oneblocks' = oneblocks \union {written + 1}
  /\ UNCHANGED <<inputs, available, merged, pc, search>>

MergeBundle(f) ==
  /\ f \notin merged
  /\ Bundle(f) # {} /\ Bundle(f) \subseteq oneblocks
  /\ f + BundleSize - 1 <= written
  /\ merged' = merged \union {f}
  /\ UNCHANGED <<inputs, available, written, oneblocks, pc, search>>

DeleteOneBlock(n) ==
  /\ n \in oneblocks
  /\ StartOf(n) \in merged
  /\ oneblocks' = oneblocks \ {n}
  /\ UNCHANGED <<inputs, available, written, merged, pc, search>>

Init ==
  /\ blockNum \in Numbers
  /\ network \in Names
  /\ served \in Passphrases
  /\ rpcBody \in RpcBodies
  /\ storeFirst \in StoreFirsts
  /\ storedBody \in StoredBodies
  /\ available = FALSE
  /\ written = storeFirst - 1
  /\ oneblocks = {} /\ merged = {}
  /\ pc = "fetch"
  /\ picked = "none" /\ at = 0 /\ gsBlock = 0
  /\ held = FALSE

Step ==
  \/ Fetch \/ RefuseFetch
  \/ ListOneBlocks \/ OpenFile \/ OpenMerged \/ ScanBlock
  \/ Compare

Next ==
  \/ Step \/ CallFails
  \/ Ingest \/ WriteBlock
  \/ \E n \in Numbers : MergeBundle(StartOf(n)) \/ DeleteOneBlock(n)

Spec == Init /\ [][Next]_vars

\* The tool keeps running and the endpoint follows the network; nothing is
\* owed by the store's Firehose, and no call is obliged to fail.
FairSpec == Spec /\ WF_vars(Step) /\ WF_vars(Ingest)

----------------------------------------------------------------------------
(* Properties.                                                             *)

\* Every variable has its type.
TypeOK ==
  /\ blockNum \in Numbers /\ network \in Names /\ served \in Passphrases
  /\ rpcBody \in RpcBodies /\ storedBody \in StoredBodies
  /\ storeFirst \in StoreFirsts
  /\ available \in BOOLEAN
  /\ written \in 0..MaxBlock
  /\ oneblocks \subseteq Numbers /\ merged \subseteq 0..MaxBlock
  /\ pc \in {"fetch", "list", "openFile", "openMerged", "scan", "compare",
             "identical", "different", "notFound", "error"}
  /\ picked \in {"none", "oneblock", "bundle"}
  /\ at \in 0..(MaxBlock + 1) /\ gsBlock \in 0..MaxBlock
  /\ held \in BOOLEAN

\* The endpoint's transaction has the events of the store's, but for groups
\* without events and for diagnostic events.
SameEvents(rpc, gs) ==
  \/ rpc = NoEvents /\ gs = NoEvents
  \/ /\ rpc # NoEvents /\ gs # NoEvents
     /\ rpc.fees = gs.fees
     /\ rpc.groups \in {gs.groups, Without(gs.groups, {Empty})}

\* Both blocks have the same transactions, one by one.
SameTransactions(rpc, gs) ==
  /\ Len(rpc) = Len(gs)
  /\ \A i \in 1..Len(rpc) :
       /\ rpc[i].hash = gs[i].hash /\ rpc[i].core = gs[i].core
       /\ SameEvents(rpc[i].events, gs[i].events)

\* "Blocks are identical!": the block compared is the one asked for, and the
\* blocks have the same transactions in the same places, although they are
\* matched by hash and in no order.
VerdictSound ==
  pc = "identical" =>
    /\ gsBlock = blockNum
    /\ rpcBody.head = storedBody.head
    /\ SameTransactions(rpcBody.txs, storedBody.txs)

NoEmptyGroups(txs) ==
  \A i \in 1..Len(txs) :
    txs[i].events # NoEvents =>
      \A j \in 1..Len(txs[i].events.groups) : txs[i].events.groups[j] # Empty

\* Differences are real, provided the endpoint's block has no empty group:
\* those are dropped on one side only (lines 416-432).
VerdictComplete ==
  pc = "different" /\ NoEmptyGroups(rpcBody.txs) =>
    \/ gsBlock # blockNum
    \/ rpcBody.head # storedBody.head
    \/ ~SameTransactions(rpcBody.txs, storedBody.txs)

\* The block's one-block file was seen, and deleted before it was opened, its
\* bundle being merged.
DeletedUnderneath ==
  picked = "oneblock" /\ blockNum \notin oneblocks /\ Holds(blockNum)

\* A block the store had when its files were listed is only reported missing
\* if its one-block file is deleted between being listed and being opened, and
\* then the store still has the block, in its bundle.  A merge and a deletion
\* at any other moment do no harm, the one-block files being looked at first.
NotFoundTruthful == pc = "notFound" /\ held => DeletedUnderneath

\* What was compared had been read with the passphrase of the endpoint's
\* network, unless there was nothing to read.
NetworkRespected ==
  pc \in {"identical", "different"} /\ rpcBody.txs # <<>> => Named(network) = served

\* The tool ends.
Ends == <>(pc \in {"identical", "different", "notFound", "error"})
=============================================================================
