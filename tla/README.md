# firehose-stellar in TLA+

This directory is a verification project for firehose-stellar: TLA+ modules
translated from the Go source, TLC configurations that check them on small
instances, and TLAPS proofs of what matters most for every value of the
constants. `PROJECT.json` maps every definition to the lines it models and lists
the runs, the mutants (a plausible bug per checked property, which TLC must
catch), the hazards and the theorems.

To check one run: `tlc -config captive_resume.cfg MCCaptiveFetch`. To check the
proofs of a module: `tlapm CaptiveFetchProofs.tla`.

## The system

firehose-stellar turns Stellar ledgers into Firehose blocks. A *fetcher* process
writes one `FIRE BLOCK` line per ledger on its standard output; a reader
(`firecore reader-node`) takes the lines from a pipe. Around that there are
tools that repair and compare stored blocks, and an integration test suite.

| Component | State | Operations | Interacts with |
|---|---|---|---|
| **fetch captive-core** (`cmd/firestellar/fetcher_captive_core.go`) | `seq`, its command line, its context; the lines on standard output | load the cursor, prepare the range, per ledger: check the context, get, handle, save | backend (calls), cursor file, the reader through the pipe, supervisor |
| **cursor file** (`cursor/cursor.go`) | `{state-dir}/cursor.json` | `Load`, `Save` (truncate, then write) | survives the process; read by its later lives |
| **captive-core backend** (`captivecore/captivecore.go`) | the stellar-core subprocess, the prepared range | configuration, `PrepareRange`, `GetBlock`, `Close`, ledger conversion | the Go SDK's ledger backend |
| **rpc fetcher** (`rpc/fetcher.go`) | `lastBlockInfo`, statistics | `Fetch`: wait for the ledger, get it, convert it; a ticker logs and resets statistics | shared by all workers of the poller |
| **rpc client** (`rpc/client.go`) | none | `GetLatestLedger`, `GetLedgers`, `GetTransaction`, `GetTransactions` (pages) | a stellar-rpc endpoint |
| **fetch rpc** (`cmd/firestellar/fetcher.go`) | the configuration of firehose-core's poller | endpoints, batch size, passphrase resolution | blockpoller, which calls `Fetch` and keeps its own state file |
| **ledger conversion** (`captivecore`, `rpc`, `decoder`, `utils`, `types`) | none | `LedgerCloseMeta` to block, events per transaction and per operation | both fetchers; must agree |
| **fix-block-hashes** (`cmd/tools/fix`) | the bundle being written | walk a range, recover hashes, write bundles | two stores |
| **compare-merged-blocks** (`cmd/firestellar`) | counters, visited bundles | walk two stores and compare block by block | two stores |
| **compare-fetcher-blocks** (`cmd/firestellar`) | none | fetch a block, find the stored one, compare | an endpoint, and a store whose Firehose goes on writing |
| **account and asset tools** (`cmd/firestellar/tool_{create_account,send_payment,send_payment_asset,issue_asset}.go`), **battlefield client** (`test/lib/stellar/client.go`) | sequence numbers read from Horizon | read accounts, submit one or two transactions, fund accounts with retries | Horizon and friendbot, and through them each other |
| decode tools (`tool_decode_*.go`) | none | printing | stores |
| battlefield suite (`test/`, the client aside) | prepared range, snapshots, containers | in-process fetchers shared by parallel scenarios, snapshot comparison | both fetchers |

Behaviours that are hard here:

* *Crashes and restarts.* A life of the captive-core fetcher can end between any
  two calls. What survives is `cursor.json`, which is not replaced atomically,
  and what was already written to the pipe. A block is output before the cursor
  names it, so lines repeat; were it the other way round they would get lost.
* *Different lives, one file.* The start block, `--ignore-cursor` and
  `--state-dir` may change from one launch to the next.
* *Two places that know the position.* Under a supervisor the reader knows what
  it has read and the cursor knows what was written; the pipe is the difference.
* *Unprotected shared state.* The rpc fetcher's workers share `lastBlockInfo`
  and the statistics without a lock, and talk to endpoints that are at different
  ledgers.
* *Others at work.* The comparison tool reads a store while bundles are merged
  and one-block files deleted; the account tools use sequence numbers that
  others may have used up; pages of a ledger are read while ledgers arrive.
* *Answers that do not come.* A submission that timed out may still be applied,
  a funding request whose answer was lost may have funded the account.
* *The same thing written twice.* Conversion, network selection and comparison
  exist in several versions that have to agree.
* *Boundaries.* Ledger numbers are `uint64` in the loop and `uint32` in the
  backend; bundles hold 100 blocks and ranges need not end on a bundle.

What makes each component correct:

* fetch captive-core: no ledger is skipped, a repetition is at most the last
  block and always paid for by an unclean end, the stream has no gap, every
  ledger arrives in the end.
* cursor file: it never names a block that was not output.
* backend: it refuses sequences outside `1..MaxUint32`, it does not wrap.
* rpc fetcher: no worker asks for a ledger no endpoint has, every ledger is
  fetched.
* rpc client: a successful `GetTransactions` has the transactions of the ledger, each
  once and in order; all of them, unless a reply without a result cut the list short.
* network selection: an operator who names one network, or one passphrase, to every
  command has it in every command. Left out, it is not the same everywhere: `fetch
  captive-core` defaults to testnet, `fetch rpc` to mainnet.
* conversion: both fetchers, and each of them every time, emit the same block
  for one ledger, measured times aside, no transaction is lost and no event that can
  be read and marshalled, and consecutive blocks are linked.
* account tools: a success is a success on the network, nothing is paid twice,
  an expected failure is one that happened.
* stores: a comparison says "match" exactly when the stores agree on the range,
  and its summary counts each block once; fix-block-hashes stores repaired bundles
  only, those of its range, whole or from where the operator said the chain begins.

## Modules

| Module | Models | Role |
|---|---|---|
| `BlockStream` | what a fetcher promises its reader: closed ledgers, none before its predecessor unless an operator asked to start there; repetitions allowed | abstract specification |
| `CaptiveFetch` | the captive-core command, the cursor file, the backend's guards, the pipe and the reader, the supervisor and what can fail | detailed specification, implements `BlockStream` |
| `MCCaptiveFetch` | command lines for the runs | TLC |
| `CaptiveFetchProofs` | theorems on `CaptiveFetch` | TLAPS |
| `RpcFetch` | `Fetcher.Fetch` run by several workers against several endpoints | detailed specification |
| `TxPages` | `Client.GetTransactions`, beside the fetchers of `RpcFetch` | extends `RpcFetch`, composition |
| `MCTxPages` | endpoints and ledgers for the run | TLC |
| `TxPagesProofs` | theorems on the two | TLAPS |
| `NetworkConfig` | the passphrase each of three commands makes of its flags | operators, used by the next two |
| `Groups` | how the copying loops leave out event groups | operator, used by `LedgerConvert` and `CompareFetcher` |
| `DataProofs` | lemmas about data of any size | TLAPS |
| `LedgerConvert` | both fetch commands, from their launch to the blocks they emit | detailed specification |
| `MCLedgerConvert` | ledgers and flags for the run | TLC |
| `LedgerConvertProofs` | theorems on `LedgerConvert` and `NetworkConfig` | TLAPS |
| `CompareMerged` | `tool-compare-merged-blocks` over two stores of bundles or one-block files | detailed specification |
| `MCCompareMerged` | blocks and flags for the runs | TLC |
| `CompareMergedProofs` | theorems on `CompareMerged` | TLAPS |
| `CompareFetcher` | `tool-compare-fetcher-blocks`, and the Firehose that writes the store | detailed specification |
| `MCCompareFetcher` | blocks for the run | TLC |
| `CompareFetcherProofs` | theorems on `CompareFetcher` | TLAPS |
| `FixBlocks` | runs of `fix-block-hashes` side by side, and the bundle writer | detailed specification |
| `MCFixBlocks` | ranges for the run | TLC |
| `FixBlocksProofs` | theorems on `FixBlocks` | TLAPS |
| `Accounts` | the tools that submit transactions, side by side, and the network they change | detailed specification |
| `MCAccounts` | command lines for the runs | TLC |
| `AccountsProofs` | theorems on `Accounts` | TLAPS |

### CaptiveFetch

`pc` is the call the process makes next, and each call of the loop at lines
117-143 of `fetcher_captive_core.go` is one action:

| Call | Actions |
|---|---|
| launch, argument and flags (43-94) | `Launch`; a launch that fails here changed nothing and is a stuttering step |
| `cursor.Load` (95-115) | `LoadCursor`, `RefuseCursor` (a file that is not JSON) |
| `backend.PrepareRange` (117) | `PrepareRange`, `RefuseRange` (0 or above `MaxUint32`) |
| `ctx.Err()` (123) | `CheckContext` |
| `backend.GetBlock` (127) | `GetBlock`, `RefuseBlock` |
| `handler.Handle` (133) | `Handle`, which appends to `fired`, blocked while the pipe is full |
| `cursor.Save` (137) | `SkipSave` (no state directory), `SaveTruncate` then `SaveWrite` |
| any of them fails, is cancelled, is killed | `CallFails`, `SaveFails`, `AbortCall`, `Cancel`, `Crash`, `PodDies` |

`Save` is two steps because `os.WriteFile` opens with `O_TRUNC` and then writes;
in between the file is `Torn`. Only `lastFiredBlock.num` of the JSON is read by
the command, so the file's content is `Absent`, `Torn` or a number. `fired` is
the history of all lines over all lives, `read` says how many the reader took (or
the pipe lost), `delivered` what it took. `PodDies` kills process and reader
together, and with them the lines in the pipe. The environment (`CloseLedger`,
`ReadLine`, the failures) is external to the repository and modelled from how
the code uses it: `--ignore-cursor` and README.md:44 for the supervisor, which
passes the block after the newest one it read (`tracked` in a command line).

### RpcFetch and TxPages

A step is one access to `lastBlockInfo.blockNum` or one exchange with an
endpoint: `Gate` (line 89), `AnswerLatest` and `AssignLatest` (92 and 97, two
steps because answers of two workers may cross), `TestLatest` (100, which reads
the shared number, not the answer), `FetchLedger`, `LedgerNotFound`,
`ExchangeFails` (107-120). `AnswerNothing` is a body without a result, which
decodes to sequence 0 (`client.go:48-61`) and becomes the shared number. Word-sized
reads and writes of a `uint64` do not tear on the platforms the program is built
for, so the data race yields interleavings of whole values. `Begin` is the poller
handing the next block number to a worker, `Rolled` the endpoint it turns to after a
failed one.

`TxPages` numbers the transactions of all ledgers from 1, so that a cursor is a
number, and 0 the empty one. `Call`, `ReadPage`, `ReadNoResult`, `PageFails` are
`GetTransactions` (`client.go:128-183`): with a cursor only the cursor is sent,
without one the ledger; a page is what the endpoint has after it, at most `Limit`
transactions, of which those before the first foreign one are taken. `omits` is
an endpoint that leaves out the cursor after its last transaction. `ReadNoResult` is
a body with neither a result nor an error, to any of the requests: it decodes to no
transactions and an empty cursor and ends the call with success, which the history
`hollow` records for `PagesExact`. `SystemSpec`
is the reader beside the workers of `RpcFetch`, with the endpoints and their
ledgers in common.

### NetworkConfig

`RpcPassphrase` is `fetcher.go:102-139` (a default, a deprecated flag, an
override), `CaptivePassphrase` the `Config` of `captivecore.go:78-144` filled from
its network's defaults and overridden by `fetcher_captive_core.go:55-72`,
`ComparePassphrase` that of the comparison tool. A `Config` is reduced to which
network each of its parts is of. `named` says of either fetch command's flags whether
the network was given at all; if not it is the command's own default, "mainnet" or
"testnet".

### CompareMerged

`ref` and `cur` say what each store holds under each block number; they do not
change. Two bundles side by side are one `OpenBundle` (the two goroutines of
lines 155-171 touch nothing in common, and both errors end the tool), the blocks
in them one `CompareBlock` each; `PassBundle` and `PassCurrent` are bundles a walk
does not list or skips. `visited` is the map of line 129. The second walk
(`OpenCurrent`, `CountBlock`) sees the bundles only the current store has.
`LoadOneblocks` and `ScanBlock` are the `--oneblock` path. A stored block is a
record of what the comparison and its flags tell apart: the ledger's content
(`body`), how its hashes are stored, which ledger's hashes its Id and ParentId are the
hex of (`id`, not always its own), its wall-clock event, and the bstream fields that no
one compares (`lib`). `Normalized` is `sanitizeBlockInPlace`, which recovers the hashes
and rewrites Id and ParentId from them (341-352), and the stripping of the event. `--stop-on-first-diff` has two meanings: a block that is missing ends the
second walk and the one-block scan, but not the first walk; the verdict is right either
way, and `StopsAtFirst` says what the summary counts when a difference ended the walk.

### CompareFetcher

`Fetch`, `RefuseFetch` are the exchange with the endpoint (73-85 and 118-147). `ListOneBlocks`
walks the store with the number as prefix (149-162 and 191-203): the file of a bundle
that begins at the number has that prefix too ("N.dbin", after the "N-..." of
one-block files), so `OpenFile` may open a bundle and read its first block (163-185),
whichever that is. A listed one-block file that is gone when it is opened is an object
not found, as a missing bundle is, and ends the tool the same way. `OpenMerged` and
`ScanBlock` are the search in the bundle (187-246), `Compare` is `compareBlocks`
(248-447), which changes nothing but the verdict. Between any two calls the
Firehose that owns the store acts: `WriteBlock`, `MergeBundle`, `DeleteOneBlock`.
A block is what the comparison looks at together (`head`), what it does not
(`aside`), and transactions with their events.

### LedgerConvert

The conversion is written twice, in `captivecore.go` and in `rpc/fetcher.go`, and
so it is here: `CaptiveTransaction`, `CaptiveEvents`, `CaptiveStellarBlock`,
`CaptiveBlock` stand for one, `RpcTransaction`, `RpcEvents`, `RpcStellarBlock`,
`RpcBlock` for the other. `Launch` takes any flags that name the network of `option`,
or none, with or without a passphrase, on either command line; the SDK finds the
transactions of a ledger only with the network's passphrase (`Open`). `Ask` obtains a
reply: captive-core answers with the ledger, an endpoint with none, one or several, with
another one than was asked for, with one whose number, hash or time is not that of its
own metadata (`Mislabelled`), or with fields that cannot be decoded (`Undecodable`). A
time or metadata that cannot be decoded fail the call first (`Acceptable`), a hash that
is not hexadecimal last, when all transactions are converted (`RpcRefuseHash`). The
rpc side takes number, hash and time from the reply, the captive side from the header;
nothing compares the two, and the history `mislabelled` has the blocks for which it
matters. A transaction is a record of what the code
branches on: the outcome, its lists of events, an operation whose list is a nil
slice (left out) or empty (kept as an empty group), an event that does not marshal (left
out of its list without a word, `CaptiveMarshalled`, `RpcMarshalled`), events that
cannot be read (all of the transaction's are dropped with a warning,
`captivecore.go:424`, `fetcher.go:379`), a transaction that cannot be read (no block).
`CaptiveRead`, `RpcRead` convert one transaction, `CaptiveEmit`, `RpcEmit` end with the
block. `ReplyFails`, `RefuseTransaction` and `Restart` may come at any step, so a
fetcher converts one ledger several times, each time from an execution that
measured its contract calls anew. The base64 that the intermediate
`types.Transaction` is kept in is undone by the code that reads it, and left out.

### FixBlocks

`pc`, `pos`, `low` and `pending` are those of each run, `src` and `dest` the
stores. `Begin` is the check of the range (line 103), `ReadBlock` and
`RefuseBlock` are the body of the loop (135-162), `SkipNothing` goes over block
numbers that the source does not hold, `End` is the end of the range. A stored block
is `"broken"` as the v1 fetcher left it, `"right"`, which `ConvertBrokenHash`
refuses, or `"foreign"`: it recovers to a hash that is not the block's id. The source
begins with any block and has no gaps after it. `--common-first-streamable-block` is
any number (`Range`), as for the tool: line 104 tells an operator whose start is refused
to pass that start, and a bundle is then stored from there on. `BundleFirsts` says where
an operator has done so; nothing else of a bundle may be missing (`BundlesWhole`).
`WriterAccepts` and `Write` are firehose-core's bundle writer (external), as the tool
relies on it: it begins at a boundary or at the first streamable block, and stores
a bundle when it is given the last block of it. Nothing tells it that the range has
ended. `Fault` ends a run anywhere; the next one remembers nothing.

### Accounts

`Steps` lists the exchanges of each command in order: accounts read (`LoadAccount`),
transactions submitted (`Submit`, then `SubmitSucceeds`, `TxFails` or `TimesOut`),
requests to friendbot (`FundAccount` with its attempts, `CreateAccount`).
`Fails` is the end of a run with an error; in `SubmitOpsExpectFail` it is looked at
once more (`ExpectFail`). A transaction is a record of its source, sequence number
and payload, so that submitting the same one twice is submitting it once. The network
(external) accepts a transaction with the next sequence number of its source, and
later applies (`Apply`) or forgets it (`Drop`).

## Runs

| Run | Question | Checked |
|---|---|---|
| `captive_mixed` | operators mix start blocks, `--ignore-cursor`, no state directory, a refused start block 0, over any crashes | `TypeOK`, `NoLedgerSkipped`, `CursorNamesFiredBlock`, `CursorCaughtUp`, `LifeIsConsecutive` |
| `captive_resume` | the documented standalone deployment, past `MaxSeq` | `ReplaysOnlyLastBlock`, `ReplaysPaidByUncleanEnds`, action property `TornIsFinal`, refinement `StreamPromise`, liveness `EveryLedgerDelivered` |
| `captive_supervised` | the documented supervised deployment, pods die with their pipe | `StreamPromise`, liveness `EveryLedgerDelivered` |
| `captive_torn` | do restarts resume where they stopped? | `RestartsResume`: violated |
| `rpc_batch` | two workers and a reader of pages, two endpoints, one shared number | `TypeOK`, `AsksOnlyForClosed`, `PagesExact`, liveness `EveryBlockFetched`, `PagesEnd` |
| `convert` | two fetch commands, flags for one network or left out, chains of two ledgers, odd replies, repeated and interrupted | `TypeOK`, `BlocksAgree`, `BlocksComplete`, `ChainLinks`, `LaunchAgrees` |
| `compare_walk` | any two stores, any content, any range, any flags | `TypeOK`, `VerdictCorrect`, `SummaryExact`, `StopsAtFirst` |
| `compare_lib` | does a match mean that the stores are equal? | `ReportsAnyDifference`: violated |
| `compare_fetcher` | any block of a store that is written meanwhile | `TypeOK`, `VerdictSound`, `VerdictComplete`, `NotFoundTruthful`, `NetworkRespected`, liveness `Ends` |
| `fix_parallel` | two runs, any two ranges that do not overlap, no, one or each its own first streamable block, any blocks, a run killed | `TypeOK`, `BundlesWhole`, `RangeCopied`, liveness `RunsEnd` |
| `accounts` | seven command lines on one issuer's account, four runs, in any order and at once | `TypeOK`, `SuccessApplied`, `PaidAtMostRuns`, `FundTold` |
| `accounts_expect` | is an expected failure one of the transaction? | `ExpectedFailureReal`: violated |

Bounds. None of them is in the code; they sit in the guards of the environment's
actions and in the sets that inputs are taken from.

* *captive*: `MaxHead` (4 ledgers) is enough for a start block in the middle, a
  cursor below, at and above it, and a repetition followed by progress.
  `MaxFaults` (1 to 3) lets one failure interrupt the recovery of another.
  `PipeCap` 2 gives an empty, a partly full and a full pipe. `MaxSeq` stands for
  `math.MaxUint32`: in `captive_resume` it is reached and the loop steps past it,
  elsewhere it is out of reach, as in practice.
* *rpc_batch*: `MaxLedger` 2 and `MaxFailures` 1 let both workers wait for
  different ledgers while the endpoints are one and two ledgers apart. The first
  ledger fills a page of `Limit` 2 exactly, the second does not; a cursor may be 0
  or inside the second.
* *convert*: a ledger without transactions, followed by one with none, with a failed
  contract call, or with two: a payment or a transaction with unreadable events, and
  then a contract call or an unreadable transaction. The call has a nil slice, events
  that do not marshal before others, and an operation with nothing else. Two measured
  values, so that two executions can differ; two tries for each command, so that a
  mislabelled block and a right one are emitted by the same; five ways to name network
  and passphrase, the defaults among them.
* *compare_walk*, *fix_parallel*, *compare_fetcher*: bundles hold 2 blocks instead of
  100. Three blocks in two bundles let a range cut either, with either missing on
  either side, and contents and flags be anything; the three bundles of
  `fix_parallel` let a range be cut at both ends and still hold a whole
  one, and two ranges meet inside one. Both runs are told no first streamable block,
  block 3, or each its own start, while the chain may begin anywhere. Its blocks are
  garbled or foreign; a right hash is refused as a foreign one is. `compare_fetcher` has a
  store that begins with the chain or in the middle of a bundle.
* *accounts*: four runs are two transactions in conflict, a run repeated after a
  timeout, and one that funds a destination in between; two funding attempts are a
  first and a last one.

Deadlock. The comparisons, the conversion, the account tools and the runs of
`fix-block-hashes` end, and with them every step. `captive_resume` checks deadlock:
whenever the process ends it can be launched again, even if only to refuse. Elsewhere
it is off only because a bounded network that stops closing ledgers is where a run may
legitimately end.

Fairness. `CaptiveFetch!FairSpec`: the process is launched again after it ends
(restart policy or supervisor), it runs while it can (its calls either return or
wait for the network), and its output is read. Nothing obliges the network to
close another ledger or a failure to happen. `RpcFetch` and `FairSystem`: each worker
keeps running and each endpoint follows the network; a worker may be refused by a
lagging endpoint any number of times; a page request is answered or refused. With a
bounded number of failures, "when failures stop" is every behaviour's suffix.
`CompareFetcher!FairSpec`: the tool runs until it ends, and the endpoint ingests the
ledger; the store's Firehose owes nothing.
`FixBlocks!FairSpec`: so does each run of the tool, whatever the others do; they wait
for nothing of each other. `CompareMerged`, `LedgerConvert` and `Accounts` claim nothing
that needs fairness: their commands may be stopped anywhere, and what matters is what
they have said by then.

## What the checks found

* `captive_torn`. The help of `--state-dir` (`fetcher_captive_core.go:37`) says
  restarts resume where they stopped. A failure inside `os.WriteFile`
  (`cursor.go:86`) leaves an empty `cursor.json`, and every later launch ends with
  "decode cursor" until somebody intervenes. Writing a temporary file and renaming it
  would remove the state `Torn`. That nothing else does, `TornIsFinal` says (proved): no
  launch that relies on the file writes it or a line again. `EveryLedgerDelivered` therefore excepts `Wedged` in
  the standalone deployment; with `--ignore-cursor` the exception never applies.
* `compare_lib`. The comparison (`tool_compare_merged_blocks.go:410-430`) looks
  at Number, Id, ParentId and the payload. Stores that differ in LibNum, ParentNum
  or Timestamp "match", although the help says that the tool reports any blocks that
  differ (line 45). `VerdictCorrect` takes these fields out of what has to agree.
* `accounts_expect`. `SubmitOpsExpectFail` (`client.go:148`) is documented to return
  nil only when Horizon rejects the transaction. It looks for a Horizon error
  anywhere in the chain, and `SubmitOps` wraps that of `LoadAccount` as well: when
  Horizon fails to say what the source account is, nothing has been submitted and the
  "expected failure" is reported. Likewise when Horizon's timeout is the answer, and
  the transaction is applied later.

Seen while modelling, without a run of its own:

* README.md:41 says a restart resumes at `last_fired_block + 1`. The line is written
  at `fetcher_captive_core.go:133` and saved at `:137`; a kill in between makes the
  next life fire the block again. Delivery is at least once, with at most the last
  block repeated (`ReplaysOnlyLastBlock`, proved), and each repetition has cost a kill
  or a failed `Save` (`ReplaysPaidByUncleanEnds`, proved).
* `utils/events.go:17` says that stripping the wall-clock event before persisting
  makes outputs byte-identical across fetchers. No fetcher strips it
  (`captivecore.go:450`, `rpc/fetcher.go:404` store each event); only the comparison
  does, in memory. `BlocksAgree` says that blocks differ in nothing else.
* `client.go:127` says that `GetTransactions` returns the transactions of the ledger. The
  HTTP status is not looked at, and a reply with neither result nor error ends the page
  loop as an empty page does (137, 181): the list is cut short and the call succeeds.
  `PagesExact` says that this is the one way to a shorter list, and that it is a
  beginning of the whole one. No fetcher calls `GetTransactions` today.
* An event that does not marshal is left out of a block without an error or a log line
  (`captivecore.go:452`, `rpc/fetcher.go:406` and the two loops after either), while
  events that cannot be read are at least warned about. Both fetchers leave out the same
  (`BlocksAgree`), and nothing else (`BlocksComplete`).
* `fetch rpc` compares neither the number nor the hash nor the time of a reply with the
  ledger in its metadata, nor the number with the one it asked for
  (`rpc/fetcher.go:231-253`): a reply that contradicts itself becomes a block that does.
* Without a network flag `fetch captive-core` is on the test network
  (`fetcher_captive_core.go:33`) and `fetch rpc` on the public one (`fetcher.go:34`).
* `fix-block-hashes` tells an operator whose start is in the middle of a bundle to pass
  `--common-first-streamable-block=<start>` (line 104). The help (60-66) keeps the flag for
  the chain's first block; passed as the error says, the tool stores the rest of the
  bundle under the bundle's name and ends well. `BundlesWhole` allows for that and
  nothing more; `DocumentedWhole` (proved) says that with the flag as documented every
  bundle is whole.
* `compare-fetcher-blocks` fails when the one-block file it has listed is merged and
  deleted before it is opened (165-168), as it does when there is no such block (213-216):
  it does not turn to the bundle, which has the block by then. `NotFoundTruthful` says
  that no other merge or deletion does harm.
* `fix-block-hashes` on a range that ends in the middle of a bundle ends well and
  leaves out that bundle's blocks, which the writer still holds; `RangeCopied`
  promises the bundles before it. The check of the start (line 103) has no counterpart
  for the end.
* `compare-fetcher-blocks` filters empty event groups on the store's side only
  (416-432), so a block of the endpoint with an empty group differs from any block in the store
  but its exact copy (`EmptyGroupsDiffer`, proved); `VerdictComplete` excepts it. A number at which a bundle begins
  but whose block the bundle does not have (the chain begins later) is compared with
  the bundle's first block and reported as different, not as missing.
  `--detailed-diff` has no effect, and the exit status is 0 with differences too.
* `tool-send-payment-asset --double-send` collects two operations and submits one
  (`AssetTx`). `tool-create-account` does not look at friendbot's status. `FundAccount`
  reports a failure when an earlier attempt succeeded and its answer was lost: the next
  one is told that the account exists. The account exists then, which is what
  `FundTold` says. Two equal commands at the same time make the same transaction, and
  both report success for the one payment.

## Proofs

`CaptiveFetchProofs` (constants arbitrary: any set of command lines, any bounds):

* `TypeCorrect`: `TypeOK`, one case per action.
* `OutputCorrect`: `NoLedgerSkipped` and `CursorNamesFiredBlock`. Neither is
  inductive: a fired block is right because of where `seq` came from.
  `OutputInv` adds `Position` (in each `pc` the block about to be fired is a start
  block or follows a fired one) and `Memory` (what survives, the cursor and the
  reader's newest block, names fired blocks).
* `StreamImplemented`: under `Lossless` (the pipe cannot be lost with the pod,
  or every launch ignores the cursor) each step of `CaptiveFetch` is a step of
  `BlockStream` or a stutter. `DeliveryInv` says that each line in the pipe
  follows something delivered or an earlier line, and that whatever the process will
  fire next does too. Without `Lossless` this is false: the cursor counts
  lines the reader never took.
* `LifeCorrect`: `LifeIsConsecutive` and `CursorCaughtUp`, from `LifeInv`, which
  ties `seq` to the last line of the current life.
* `ReplayCorrect`: `ReplaysOnlyLastBlock` when all launches use one command line
  with the cursor. `ResumeInv(c)` says how far `file`, `seq` and the last line
  can be apart at each `pc`.
* `PaidCorrect`: under the same assumption, `ReplaysPaidByUncleanEnds`. A
  repetition is `Owed` from the moment a life ends between `Handle` and `Save`, which
  an unclean end has paid for, until the next line.
* `ReaderUnbroken`: what `BlockStream` promises means that the reader has intervals that
  begin where operators asked to start, and with one start block a single one
  (`Unbroken`, an invariant of the abstract specification carried to the detailed one).
* `TornCorrect`: `TornIsFinal`, from `TornInv`: where every launch relies on the file, a process
  finds it truncated only at `Load`, or between the two halves of its own `Save`.
* `CursorCorrect` and `CaughtUpCorrect` name parts of the above.

`TxPagesProofs` (any number of workers and endpoints, any page size and transactions).
Of `RpcFetch`: `TypeCorrect`; `AsksCorrect`: `AsksOnlyForClosed`, from `KnowledgeInv`
(every number on its way or shared is 0 or one some endpoint has reached); and
`NothingLostCorrect`: a block handed out is fetched or held by exactly one worker, which
is the safety half of `EveryBlockFetched`. Of the composition: `AsksInSystem` carries
`AsksCorrect` over (lemma `SystemFetches`: the pages change nothing of the workers).
`PagesCorrect`: `PagesExact`, from an invariant that says of the cursor and of what was
collected that there is nothing between them and nothing missing before them; so a call
that a reply without a result ends (`NoResultStep`) has a beginning of the list.
`EveryPageLessens`: a reply that does not end the call leaves fewer transactions of the
ledger, which is the safety half of `PagesEnd`.

`CompareMergedProofs` (any bundle size, any stores, range and flags): `TypeCorrect`,
`VerdictRight`: `VerdictCorrect`, `SummaryRight`: `SummaryExact`, and `StopRight`:
`StopsAtFirst`. The first two are only looked at in the end, so the invariants say for each phase which block numbers are
`Settled`, and `SettledStep` that a step either settles one more block, which it
tallies, or none but blocks neither store has. `TotalsTell` (the totals are zero exactly
when the stores agree on all settled blocks) and `TotalsCount` (they count them) follow
from it. `WalkPosition` is what it rests on: bundles start at multiples of the
bundle size, and what lies behind the first walk is either in a visited bundle or not
in the reference. Counting a block of the second walk as missing is right
because bundles do not overlap (`BundlesDisjoint`). That two normalised blocks differ
exactly when the stores disagree, sanitized or not, is `DiffersMeans`. `StopInv` is what
`StopRight` rests on: as long as a tool that is to stop goes on, it has met no difference,
so that what it has tallied when it meets one is all that lies before. `EveryStepLessens`: the phases, files
and blocks left are natural numbers, and each step lessens them lexicographically.

`CompareFetcherProofs` (any bundle size, any chain and any blocks whose transactions are
numbered and told apart by hash): `TypeCorrect`, `SoundCorrect` and `CompleteCorrect`,
the two directions of the verdict, `NotFoundCorrect` and `NetworkCorrect`. That
matching by hash in any order compares the same places is `AgreeInPlace`. That a block
the store has is found, but for the one race, rests on `FilesInv` (one-block files are of blocks
written), `HoldsStays` (a block stays in the store, and its file does not come back),
`SearchInv` (what the listing has seen) and `ScanReaches` (bundles are never taken away).
`EmptyGroupsDiffer` is about the filter that only the store's side passes, and
`EveryStepLessens` about termination while the store changes.

`LedgerConvertProofs` (any ledgers, replies, events and number of tries): `AgreeCorrect`,
`LinksCorrect`, `CompleteCorrect`, `LaunchCorrect`. The invariant `ConvertInv` says of
every reply, converted prefix and block which ledger and which of its transactions
it stands for, and of a block that is not in `mislabelled` that number, hash and time are
that ledger's; the theorems compare two blocks through it. What the loops keep of lists
and groups (`MarshalledKept`, `GroupsMarshalled`) comes from `WithoutExact`.
`TypeCorrect`: `TypeOK`, from `RestInv` for the processes.

`DataProofs` (sequences of any length): `WithoutExact` and `WithoutNothing`, what the
loops that leave out event groups return, by induction. The library's induction
theorems have an operator as parameter and cannot be used; `LeastNumber` (a
non-empty set of natural numbers has a least element), derived from the well-foundedness
of `<`, has a set instead: the set of lengths at which a statement fails, if not empty, has
a least element, which the step of the induction contradicts.

`AccountsProofs` (any tools, accounts and number of runs): `TypeCorrect`, `SuccessCorrect`:
`SuccessApplied`, `FundCorrect`: `FundTold`, and `PaidCorrect`: `PaidAtMostRuns`. `ToolInv` is one tool's part of the
invariant (what it has sent is what its steps so far call for, and is applied, but
for what it waits for); it is kept by its own steps (`ToolStep`), and by everything
else (`FrameKeeps`), because the network only gains accounts and applied transactions.
That there are no more payments than runs is shown with an injection: `PayInv` says
that an injection charges each payment, accepted or applied, to a run, and none to a run
under way that has not submitted its own.

`FixBlocksProofs` (any bundle size, any runs and ranges): `TypeCorrect`,
`WholeCorrect`: `BundlesWhole`, and `RangeCorrect`: `RangeCopied`. `CopyInv` ties a
run's position to its writer: what it has collected is all the source holds from
`low` to `pos`, or from the run's start if that was declared the first streamable block,
recovered (`Collected`), what lies before `low` is copied, and before it has read anything
it has passed nothing (`Nothing`). It needs of the source that it has no gaps
(`SourceInv`), and nothing of the flag. That others write to the same store takes nothing
away (`CopiedKept`) because each stored bundle is that of the one run whose range reaches its
last block (`StoredByOwner`, `OneOwner`). `DocumentedWhole`: without a declaration above
the source's first block every stored bundle is whole. `EveryStepLessens`: each step
lessens what one run has left and no other's, but for a killed process.

Only model-checked: the liveness properties, because fairness and ENABLED are out of the
prover's reach. The four theorems about variants are what can be said without:
`EveryPageLessens` and the three `EveryStepLessens` exclude infinite behaviour of the
tool, and TLC that it stops before its end (`PagesEnd`, `Ends` of `CompareFetcher`,
`RunsEnd`); of `CompareMerged`, which does nothing but loop over finite walks, the
theorem stands alone. For
`EveryLedgerDelivered`, `StreamImplemented` and `ReaderUnbroken` exclude holes; for
`EveryBlockFetched`, `NothingLostCorrect` excludes a lost block. `RestartsResume`,
`ReportsAnyDifference` and `ExpectedFailureReal` are violated.

## Not modelled

* The page cache (a saved cursor is durable once written), lines torn by a crash in the
  middle of a write, `FIRE INIT` and log lines.
* The content of blocks in `CaptiveFetch`, `RpcFetch` and `FixBlocks`; elapsed time; the
  statistics of the rpc fetcher and their ticker, which only feed a log line.
* `Backend.Close`, which ends a subprocess when the command ends; the stellar-core
  configuration that `New` writes to a file.
* firehose-core's blockpoller and rolling strategy beyond how they are configured,
  stellar-core, the SDK, Horizon and friendbot beyond what the tools rely on.
* Generated code, `TOID` cursors (used by their test only), the decode tools, the
  command-line entry point, containers and snapshots of the battlefield suite.

## Plan

In order of importance; each with its runs, mutants and, where marked (P), theorems.

1. `InProcess` (P): the test suite's lazily prepared backend shared by parallel
   scenarios; `Close` against a running call.
2. `SharedStateDir`: switching backends on one state directory.
3. A bundle size that does not divide the last block, and a source with gaps, in
   `FixBlocks`.
