---------------------------- MODULE LedgerConvert ----------------------------
(***************************************************************************)
(* From ledgers to blocks.  Two commands, `fetch captive-core` and `fetch  *)
(* rpc`, each resolve the network of their flags, obtain ledgers, check    *)
(* them and convert them, with code of their own for every part of it      *)
(* (captivecore/captivecore.go and rpc/fetcher.go); here too each side has *)
(* its own definitions.                                                    *)
(*                                                                         *)
(* A step is a launch, a ledger obtained, a transaction read or a block    *)
(* emitted.  A fetcher that fails is asked again, and one that has emitted *)
(* a block may be asked for it again, when it dies before its position is  *)
(* saved.  Each time the node executes the ledger anew, and measures anew. *)
(***************************************************************************)
EXTENDS Integers, Sequences, Groups, NetworkConfig

CONSTANTS
  Hashes,       \* transactions, told apart by their hash
  Event,        \* events, as the host logs them
  Opaque,       \* those that MarshalBinary refuses
  Nil,          \* an operation for which the SDK returns a nil slice
  Ids,          \* hashes of ledgers, 32 bytes
  Bad,          \* a field of a reply that cannot be decoded
  Noise,        \* bound: values of core_metrics.invoke_time_nsecs
  Chains,       \* bound: the ledgers of the network, numbered from 1
  Options,      \* bound: what operators name of network and passphrase, or do not
  Network,      \* the passphrase of the network
  MaxTries      \* bound: how often a fetcher is asked

Lists == Seq(Event)

\* A transaction of a ledger: `metrics`, it invoked a contract and so has the
\* measured event; `readable`, the SDK can read its events; `broken`, it
\* cannot read the transaction.
Transaction ==
  [hash: Hashes, ok: BOOLEAN, metrics: BOOLEAN, diagnostic: Lists,
   fees: Lists, operations: Seq({Nil} \union Lists), readable: BOOLEAN,
   broken: BOOLEAN]

Ledger == [hash: Ids, previous: Ids, closeTime: Nat, txs: Seq(Transaction)]

ASSUME EventAssumption == Opaque \subseteq Event /\ Nil \notin Lists
ASSUME BadAssumption == Bad \notin [hex: Ids]
ASSUME NoiseAssumption == Noise \subseteq Nat \ {0} /\ Noise # {}
ASSUME ChainsAssumption ==
  /\ Chains \subseteq Seq(Ledger)
  /\ \A c \in Chains : \A n \in DOMAIN c : n < Len(c) => c[n + 1].previous = c[n].hash
ASSUME OptionsAssumption ==
  /\ Options \subseteq [named: BOOLEAN, network: Names, override: Passphrases \union {Unset}]
  /\ Network \in Passphrases
ASSUME TriesAssumption == MaxTries \in Nat

Fetchers == {"captive", "rpc"}

VARIABLES
  chain,         \* the ledgers of the network
  option,        \* what operators name on either command line
  passphrase,    \* of each command, Unset while it does not run
  pc,
  reply,         \* what each fetcher has been answered
  noise,         \* what each fetcher's node measured, by transaction
  transactions,  \* what each fetcher has converted so far
  emitted,       \* the blocks each fetcher has emitted
  mislabelled,   \* history: blocks made of a reply that contradicts itself
  tries

output == <<emitted, mislabelled>>
vars == <<chain, option, passphrase, pc, reply, noise, transactions, output, tries>>

----------------------------------------------------------------------------
(* Launching.                                                              *)

\* fetch rpc, with or without the deprecated flag.
RpcLaunch ==
  \E f \in RpcFlags :
    /\ f.named = option.named /\ f.override = option.override
    /\ f.named => f.network = option.network
    /\ passphrase' = [passphrase EXCEPT !["rpc"] = RpcPassphrase(f)]

\* fetch captive-core, with or without archives and a file of one's own.
CaptiveLaunch ==
  \E f \in CaptiveFlags :
    /\ f.named = option.named /\ f.override = option.override
    /\ f.named => f.network = option.network
    /\ passphrase' = [passphrase EXCEPT !["captive"] = CaptivePassphrase(f)]

\* A command that refuses its flags ends before it has done anything.
Launch(f) ==
  /\ pc[f] = "off"
  /\ IF f = "rpc" THEN RpcLaunch ELSE CaptiveLaunch
  /\ passphrase'[f] # Unset
  /\ pc' = [pc EXCEPT ![f] = "idle"]
  /\ UNCHANGED <<chain, option, reply, noise, transactions, output, tries>>

----------------------------------------------------------------------------
(* Obtaining a ledger.                                                     *)

\* A hash in hexadecimal, and the bytes of one; they are inverses.
Hex(hash) == [hex |-> hash]
Bytes(string) == string.hex

\* What stellar-rpc says of ledger n: its number, hash and time, and the
\* metadata, which hold the ledger itself.
Item(n) ==
  [number |-> n, hash |-> Hex(chain[n].hash), time |-> chain[n].closeTime, metadata |-> n]

\* Nothing compares what a reply says with the ledger in its metadata.
Mislabelled(n) ==
  UNION {{[Item(n) EXCEPT !.number = m], [Item(n) EXCEPT !.hash = Hex(chain[m].hash)],
          [Item(n) EXCEPT !.time = chain[m].closeTime], [Item(n) EXCEPT !.metadata = m]} :
           m \in DOMAIN chain}

Undecodable(n) ==
  {[Item(n) EXCEPT !.time = Bad], [Item(n) EXCEPT !.metadata = Bad],
   [Item(n) EXCEPT !.hash = Bad]}

Replies(n) ==
  {<<>>, <<Item(n), Item(n)>>} \union {<<item>> : item \in Mislabelled(n) \union Undecodable(n)}

\* DecodeLedgerMetadata: base64 and XDR, with one of the three versions.
Decodable(item) == item.metadata # Bad

\* The checks on a reply that come first.
Acceptable(f) ==
  /\ Len(reply[f]) = 1
  /\ reply[f][1].time # Bad
  /\ Decodable(reply[f][1])

\* The ledger inside the metadata.
Obtained(f) == chain[reply[f][1].metadata]

\* What the reply says is true of the ledger in it.
Truthful(item) == item = Item(item.metadata)

Measured(f) == [1..Len(Obtained(f).txs) -> Noise]

\* Fetch or GetBlock.  Captive-core answers with a ledger; an endpoint with
\* none, one or more, of which this one need not be the one asked for, or even
\* agree with itself.
Ask(f) ==
  /\ pc[f] = "idle"
  /\ tries[f] < MaxTries
  /\ tries' = [tries EXCEPT ![f] = @ + 1]
  /\ pc' = [pc EXCEPT ![f] = "check"]
  /\ \E n \in DOMAIN chain :
       reply' \in {[reply EXCEPT ![f] = items] :
                     items \in IF f = "captive" THEN {<<Item(n)>>} ELSE Replies(n)}
  /\ UNCHANGED <<chain, option, passphrase, noise, transactions, output>>

\* The checks pass, and the SDK opens the ledger: it finds the transactions
\* with hashes it makes of the passphrase.  The node has executed the ledger,
\* which takes another time every time.
Open(f) ==
  /\ pc[f] = "check"
  /\ Acceptable(f)
  /\ passphrase[f] = Network \/ Obtained(f).txs = <<>>
  /\ pc' = [pc EXCEPT ![f] = "read"]
  /\ \E measured \in Measured(f) : noise' = [noise EXCEPT ![f] = measured]
  /\ UNCHANGED <<chain, option, passphrase, reply, transactions, output, tries>>

\* The variables of the call are gone with it.
CallEnds(f) ==
  /\ reply' = [reply EXCEPT ![f] = <<>>]
  /\ noise' = [noise EXCEPT ![f] = <<>>]
  /\ transactions' = [transactions EXCEPT ![f] = <<>>]
  /\ UNCHANGED <<chain, option, tries>>

\* The captive-core command ends with an error; the poller of fetch rpc asks
\* again.
Failed(f) ==
  /\ CallEnds(f)
  /\ pc' = [pc EXCEPT ![f] = IF f = "captive" THEN "off" ELSE "idle"]
  /\ passphrase' = [passphrase EXCEPT ![f] = IF f = "captive" THEN Unset ELSE @]
  /\ UNCHANGED output

\* The subprocess or the endpoint fails, or the ledger does not pass.
ReplyFails(f) == pc[f] = "check" /\ Failed(f)

----------------------------------------------------------------------------
(* One transaction.                                                        *)

\* An Events message without content, which is also what a transaction has
\* whose events cannot be read.
NoEvents == [diagnostic |-> <<>>, noise |-> 0, fees |-> <<>>, operations |-> <<>>]

\* The loops that marshal pass over an event that cannot be, and say nothing.
CaptiveMarshalled(list) == Without(list, Opaque)

\* A nil slice makes no group, any other operation one, if only an empty one.
CaptiveGroups(operations) ==
  LET kept == Without(operations, {Nil})
  IN  [i \in DOMAIN kept |-> CaptiveMarshalled(kept[i])]

CaptiveEvents(tx, measured) ==
  IF tx.readable
  THEN [diagnostic |-> CaptiveMarshalled(tx.diagnostic),
        noise |-> IF tx.metrics THEN measured ELSE 0,
        fees |-> CaptiveMarshalled(tx.fees),
        operations |-> CaptiveGroups(tx.operations)]
  ELSE NoEvents

\* Mutant: the first event that cannot be marshalled ends the loop.
RpcMarshalledUntil(list) ==
  LET Good(n) == \A i \in 1..n : list[i] \notin Opaque
  IN  SubSeq(list, 1, CHOOSE n \in 0..Len(list) : Good(n) /\ (n = Len(list) \/ ~Good(n + 1)))

RpcMarshalled(list) == Without(list, Opaque)

\* Mutants: nil slices are kept as groups, an operation without events leaves
\* no group.
RpcGroupsNil(operations) ==
  [i \in DOMAIN operations |-> IF operations[i] = Nil THEN Nil ELSE RpcMarshalled(operations[i])]

RpcGroupsCompact(operations) ==
  LET kept == Without(operations, {Nil, <<>>})
  IN  [i \in DOMAIN kept |-> RpcMarshalled(kept[i])]

RpcGroups(operations) ==
  LET kept == Without(operations, {Nil})
  IN  [i \in DOMAIN kept |-> RpcMarshalled(kept[i])]

RpcEvents(tx, measured) ==
  IF tx.readable
  THEN [diagnostic |-> RpcMarshalled(tx.diagnostic),
        noise |-> IF tx.metrics THEN measured ELSE 0,
        fees |-> RpcMarshalled(tx.fees),
        operations |-> RpcGroups(tx.operations)]
  ELSE NoEvents

CaptiveTransaction(i) ==
  LET l == Obtained("captive")
  IN  [hash |-> l.txs[i].hash, success |-> l.txs[i].ok, order |-> i,
       createdAt |-> l.closeTime,
       events |-> CaptiveEvents(l.txs[i], noise["captive"][i])]

\* The time is that of the reply.
RpcTransaction(i) ==
  LET l == Obtained("rpc")
  IN  [hash |-> l.txs[i].hash, success |-> l.txs[i].ok, order |-> i,
       createdAt |-> reply["rpc"][1].time,
       events |-> RpcEvents(l.txs[i], noise["rpc"][i])]

----------------------------------------------------------------------------
(* The block.                                                              *)

\* All fields are those of the ledger's header.
CaptiveStellarBlock ==
  LET l == Obtained("captive")
  IN  [number |-> reply["captive"][1].metadata, hash |-> l.hash, previous |-> l.previous,
       createdAt |-> l.closeTime, transactions |-> transactions["captive"]]

\* Number, hash and time are those of the reply.
RpcStellarBlock ==
  LET item == reply["rpc"][1]
  IN  [number |-> item.number, hash |-> Bytes(item.hash),
       previous |-> Obtained("rpc").previous,
       createdAt |-> item.time, transactions |-> transactions["rpc"]]

\* convertStellarBlockToBstreamBlock
CaptiveBlock(b) ==
  [number |-> b.number, id |-> Hex(b.hash), parentId |-> Hex(b.previous),
   time |-> b.createdAt, libNum |-> b.number - 1, parentNum |-> b.number - 1,
   payload |-> b]

\* Mutant: the block itself is taken for the last final one.
RpcBlockFinal(b) ==
  [number |-> b.number, id |-> Hex(b.hash), parentId |-> Hex(b.previous),
   time |-> b.createdAt, libNum |-> b.number, parentNum |-> b.number - 1,
   payload |-> b]

\* convertBlock
RpcBlock(b) ==
  [number |-> b.number, id |-> Hex(b.hash), parentId |-> Hex(b.previous),
   time |-> b.createdAt, libNum |-> b.number - 1, parentNum |-> b.number - 1,
   payload |-> b]

----------------------------------------------------------------------------
(* Converting.                                                             *)

NextIndex(f) == Len(transactions[f]) + 1

\* There is a next transaction, and the SDK can read it.
Reads(f) == NextIndex(f) <= Len(Obtained(f).txs) /\ ~Obtained(f).txs[NextIndex(f)].broken

CaptiveRead ==
  /\ pc["captive"] = "read" /\ Reads("captive")
  /\ transactions' =
       [transactions EXCEPT !["captive"] = Append(@, CaptiveTransaction(NextIndex("captive")))]
  /\ UNCHANGED <<chain, option, passphrase, pc, reply, noise, output, tries>>

RpcRead ==
  /\ pc["rpc"] = "read" /\ Reads("rpc")
  /\ transactions' =
       [transactions EXCEPT !["rpc"] = Append(@, RpcTransaction(NextIndex("rpc")))]
  /\ UNCHANGED <<chain, option, passphrase, pc, reply, noise, output, tries>>

AtEnd(f) == NextIndex(f) > Len(Obtained(f).txs)

\* The reader, or the marshalling, of a transaction fails: so does the block.
RefuseTransaction(f) == pc[f] = "read" /\ ~Reads(f) /\ ~AtEnd(f) /\ Failed(f)

\* The hash of the reply is decoded last, when the transactions are there.
RpcRefuseHash ==
  pc["rpc"] = "read" /\ AtEnd("rpc") /\ reply["rpc"][1].hash = Bad /\ Failed("rpc")

\* The block is out.
Emit(f, block) ==
  /\ CallEnds(f)
  /\ mislabelled' = IF Truthful(reply[f][1]) THEN mislabelled ELSE mislabelled \union {block}
  /\ emitted' = [emitted EXCEPT ![f] = @ \union {block}]
  /\ pc' = [pc EXCEPT ![f] = "idle"]
  /\ UNCHANGED passphrase

\* The reader is at the end, the block is complete.
CaptiveEmit ==
  pc["captive"] = "read" /\ AtEnd("captive") /\ Emit("captive", CaptiveBlock(CaptiveStellarBlock))

RpcEmit ==
  /\ pc["rpc"] = "read" /\ AtEnd("rpc") /\ reply["rpc"][1].hash # Bad
  /\ Emit("rpc", RpcBlock(RpcStellarBlock))

\* The process ends; the next one may ask for what this one has emitted.
Restart(f) ==
  /\ pc[f] # "off"
  /\ CallEnds(f)
  /\ pc' = [pc EXCEPT ![f] = "off"]
  /\ passphrase' = [passphrase EXCEPT ![f] = Unset]
  /\ UNCHANGED output

Init ==
  /\ chain \in Chains
  /\ option \in Options
  /\ passphrase = [f \in Fetchers |-> Unset]
  /\ pc = [f \in Fetchers |-> "off"]
  /\ reply = [f \in Fetchers |-> <<>>]
  /\ noise = [f \in Fetchers |-> <<>>]
  /\ transactions = [f \in Fetchers |-> <<>>]
  /\ emitted = [f \in Fetchers |-> {}]
  /\ mislabelled = {}
  /\ tries = [f \in Fetchers |-> 0]

Next ==
  \/ CaptiveRead \/ RpcRead \/ CaptiveEmit \/ RpcEmit \/ RpcRefuseHash
  \/ \E f \in Fetchers :
       Launch(f) \/ Ask(f) \/ Open(f) \/ ReplyFails(f) \/ RefuseTransaction(f) \/ Restart(f)

Spec == Init /\ [][Next]_vars

----------------------------------------------------------------------------
(* Properties.                                                             *)

Events ==
  [diagnostic: Lists, noise: Nat, fees: Lists, operations: Seq(Lists)]

Converted ==
  [hash: Hashes, success: BOOLEAN, order: Nat, createdAt: Nat, events: Events]

Block ==
  [number: Nat, id: [hex: Ids], parentId: [hex: Ids], time: Nat, libNum: Nat,
   parentNum: Nat,
   payload: [number: Nat, hash: Ids, previous: Ids, createdAt: Nat,
             transactions: Seq(Converted)]]

\* Every variable has its type; a group is never a nil slice, a hash outside
\* the payload always in hexadecimal.
TypeOK ==
  /\ chain \in Chains /\ option \in Options
  /\ passphrase \in [Fetchers -> Passphrases \union {Unset}]
  /\ pc \in [Fetchers -> {"off", "idle", "check", "read"}]
  /\ \A f \in Fetchers : reply[f] = <<>> \/ \E n \in DOMAIN chain : reply[f] \in Replies(n)
  /\ noise \in [Fetchers -> Seq(Noise)]
  /\ transactions \in [Fetchers -> Seq(Converted)]
  /\ \A f \in Fetchers : emitted[f] \subseteq Block
  /\ mislabelled \subseteq emitted["rpc"]
  /\ tries \in [Fetchers -> 0..MaxTries]

\* stripNonDeterministicInPlace of the comparison tool.
StrippedAll(made) == [i \in DOMAIN made |-> [made[i] EXCEPT !.events.noise = 0]]

Stripped(block) == [block EXCEPT !.payload.transactions = StrippedAll(@)]

Blocks == emitted["captive"] \union emitted["rpc"]

\* Both fetchers, and each of them every time it converts a ledger, emit one
\* and the same block for it, measured times aside: number, hashes and time
\* too, which the one takes from the header and the other from the reply.
\* A reply that contradicts itself spoils no other block than its own.
BlocksAgree ==
  \A a, b \in Blocks \ mislabelled : a.number = b.number => Stripped(a) = Stripped(b)

\* Blocks of consecutive ledgers are linked, whichever fetcher has made them,
\* and whichever ledger an endpoint has answered with, if it says which.
ChainLinks ==
  \A a, b \in Blocks \ mislabelled :
    b.number = a.number + 1 =>
      b.parentId = a.id /\ b.parentNum = a.number /\ b.libNum = a.number

Increasing(at) == \A i, j \in DOMAIN at : i < j => at[i] < at[j]

\* kept has all events of list that can be marshalled, in their order.
EventsKept(list, kept) ==
  \E at \in [1..Len(kept) -> 1..Len(list)] :
    /\ Increasing(at)
    /\ \A j \in 1..Len(kept) : kept[j] = list[at[j]] /\ kept[j] \notin Opaque
    /\ \A i \in 1..Len(list) : list[i] \in Opaque \/ \E j \in 1..Len(kept) : at[j] = i

\* There is a group for every operation that has a slice, in their order.
GroupsKept(operations, groups) ==
  \E at \in [1..Len(groups) -> 1..Len(operations)] :
    /\ Increasing(at)
    /\ \A j \in 1..Len(groups) :
         operations[at[j]] # Nil /\ EventsKept(operations[at[j]], groups[j])
    /\ \A i \in 1..Len(operations) :
         operations[i] = Nil \/ \E j \in 1..Len(groups) : at[j] = i

\* made is transaction number i, with the events that can be read and
\* marshalled.
Whole(tx, made, i) ==
  /\ made.hash = tx.hash /\ made.order = i
  /\ ~tx.broken
  /\ tx.readable =>
       /\ EventsKept(tx.diagnostic, made.events.diagnostic)
       /\ EventsKept(tx.fees, made.events.fees)
       /\ (made.events.noise # 0) = tx.metrics
       /\ GroupsKept(tx.operations, made.events.operations)
  /\ ~tx.readable => made.events = NoEvents

\* A block has the transactions of the ledger that was obtained, all of them
\* and in its order, and of each transaction the events, one by one and in
\* their groups: an event that cannot be marshalled is missing without a word,
\* and costs no other event and no group anything, and events that cannot be
\* read cost no other transaction anything.  That ledger is the one the block
\* is named after, unless the reply contradicted itself.
BlocksComplete ==
  \A b \in Blocks :
    \E n \in DOMAIN chain :
      /\ b.payload.previous = chain[n].previous
      /\ b \notin mislabelled => b.number = n
      /\ Len(b.payload.transactions) = Len(chain[n].txs)
      /\ \A i \in 1..Len(chain[n].txs) :
           Whole(chain[n].txs[i], b.payload.transactions[i], i)

\* Both commands work on the same network, when the operator gives them the
\* same network or the same passphrase by the names of their flags, whatever
\* else they are given.  Left to their defaults they need not: then
\* captive-core is on the test network, and rpc on the public one unless the
\* deprecated flag says otherwise.
LaunchAgrees ==
  \/ \E f \in Fetchers : passphrase[f] = Unset
  \/ passphrase["captive"] = passphrase["rpc"]
  \/ /\ ~option.named /\ option.override = Unset
     /\ passphrase["captive"] = Test /\ passphrase["rpc"] = Public
=============================================================================
