---------------------------- MODULE CompareMerged ----------------------------
(***************************************************************************)
(* `firestellar tool-compare-merged-blocks`                                *)
(* (cmd/firestellar/tool_compare_merged_blocks.go): two stores of merged   *)
(* bundles, or with --oneblock of one-block files, are walked over a range *)
(* and a summary says whether they match.                                  *)
(*                                                                         *)
(* A step is one bundle opened or passed by, or one block number looked    *)
(* at.  A stored block is a record of what the comparison tells apart:     *)
(*   body   identity and content of the ledger;                            *)
(*   hash   "raw", or "garbled" as the v1 fetcher stored Hash and          *)
(*          PreviousLedgerHash (ConvertBrokenHash repairs the latter and   *)
(*          refuses the former);                                           *)
(*   id     the body whose hashes the bstream Id and ParentId are the hex  *)
(*          of, its own unless the store is wrong;                         *)
(*   noise  the value of core_metrics.invoke_time_nsecs, 0 when absent;    *)
(*   lib    LibNum, ParentNum and Timestamp of the bstream block.          *)
(***************************************************************************)
EXTENDS Integers, FiniteSets

CONSTANTS
  BundleSize,   \* mergedBundleSize
  MaxBlock,     \* bound: the highest block number stored
  RefBlocks,    \* what the reference store may hold under a number
  CurBlocks,    \* what the current store may hold
  Options,      \* the flags the tool is called with
  Absent        \* nothing is stored under a number

Block == [body: Nat, hash: {"raw", "garbled"}, id: Nat, noise: Nat, lib: Nat]

Flags ==
  [sanitizeRef: BOOLEAN, sanitizeCur: BOOLEAN, strip: BOOLEAN,
   stopFirst: BOOLEAN, oneblock: BOOLEAN]

ASSUME SizeAssumption == BundleSize \in Nat \ {0} /\ MaxBlock \in Nat
ASSUME BlocksAssumption == RefBlocks \subseteq Block /\ CurBlocks \subseteq Block
ASSUME OptionsAssumption == Options \subseteq Flags
ASSUME AbsentAssumption == Absent \notin Block

VARIABLES
  ref, cur,               \* the stores
  startBlock, stopBlock,  \* the range, stopBlock excluded
  opts,                   \* the flags
  pc,
  fileStart,              \* the bundle the walk is at
  blockNum,               \* the block the loop inside a bundle is at
  visited,                \* bundles the walk over the reference handled
  totalCompared, totalDifferent, totalMissingInCur, totalMissingInRef

inputs == <<ref, cur, startBlock, stopBlock, opts>>
totals == <<totalCompared, totalDifferent, totalMissingInCur, totalMissingInRef>>
vars == <<inputs, pc, fileStart, blockNum, visited, totals>>

Numbers == 0..MaxBlock
InRange == startBlock..(stopBlock - 1)
Bundle(f) == f..(f + BundleSize - 1)

\* A bundle is in a store when it holds a block.
FileExists(store, f) == \E n \in Bundle(f) \cap Numbers : store[n] # Absent

Max2(a, b) == IF a > b THEN a ELSE b
Min2(a, b) == IF a < b THEN a ELSE b

\* Mutant: the end of the range is not looked at inside a bundle.
LastOfBundle(f) == f + BundleSize

\* The loop over a bundle runs from FirstOf to LastOf - 1.
FirstOf(f) == Max2(startBlock, f)
LastOf(f) == Min2(stopBlock, f + BundleSize)

----------------------------------------------------------------------------
(* Reading and comparing blocks.                                           *)

\* Mutant: the hashes are recovered, Id and ParentId are left as stored.
NormalizedHashes(b, sanitize) ==
  [b EXCEPT !.hash = IF sanitize THEN "raw" ELSE @,
            !.noise = IF opts.strip THEN 0 ELSE @]

\* sanitizeBlockInPlace, which recovers the hashes and writes Id and ParentId
\* from them, then stripNonDeterministicInPlace.
Normalized(b, sanitize) ==
  [b EXCEPT !.hash = IF sanitize THEN "raw" ELSE @,
            !.id = IF sanitize THEN b.body ELSE @,
            !.noise = IF opts.strip THEN 0 ELSE @]

\* Sanitizing fails on a hash that is not garbled; blocks out of range are
\* dropped before.
Readable(store, numbers, sanitize) ==
  sanitize => \A n \in numbers \cap InRange :
                store[n] # Absent => store[n].hash = "garbled"

\* compareSingleBlock names a difference.
Differs(n) ==
  LET r == Normalized(ref[n], opts.sanitizeRef)
      c == Normalized(cur[n], opts.sanitizeCur)
  IN  r.id # c.id \/ r.body # c.body \/ r.hash # c.hash \/ r.noise # c.noise

\* What one block adds to the totals.
Tally(n) ==
  \/ /\ ref[n] = Absent /\ cur[n] = Absent
     /\ UNCHANGED totals
  \/ /\ ref[n] = Absent /\ cur[n] # Absent
     /\ totalMissingInRef' = totalMissingInRef + 1
     /\ UNCHANGED <<totalCompared, totalDifferent, totalMissingInCur>>
  \/ /\ ref[n] # Absent /\ cur[n] = Absent
     /\ totalMissingInCur' = totalMissingInCur + 1
     /\ UNCHANGED <<totalCompared, totalDifferent, totalMissingInRef>>
  \/ /\ ref[n] # Absent /\ cur[n] # Absent
     /\ totalCompared' = totalCompared + 1
     /\ totalDifferent' = totalDifferent + (IF Differs(n) THEN 1 ELSE 0)
     /\ UNCHANGED <<totalMissingInCur, totalMissingInRef>>

----------------------------------------------------------------------------
(* The walk over the reference store.                                      *)

\* A bundle Walk does not list, or one before the range.
PassBundle ==
  /\ pc = "walk"
  /\ fileStart < stopBlock
  /\ ~FileExists(ref, fileStart) \/ fileStart + BundleSize <= startBlock
  /\ fileStart' = fileStart + BundleSize
  /\ UNCHANGED <<inputs, pc, blockNum, visited, totals>>

\* Both sides of a bundle are read; a bundle the current store does not have
\* is an empty one.
OpenBundle ==
  /\ pc = "walk"
  /\ fileStart < stopBlock
  /\ FileExists(ref, fileStart) /\ fileStart + BundleSize > startBlock
  /\ visited' = visited \union {fileStart}
  /\ IF /\ Readable(ref, Bundle(fileStart), opts.sanitizeRef)
        /\ Readable(cur, Bundle(fileStart), opts.sanitizeCur)
     THEN pc' = "compare" /\ blockNum' = FirstOf(fileStart)
     ELSE pc' = "error" /\ UNCHANGED blockNum
  /\ UNCHANGED <<inputs, fileStart, totals>>

\* Mutant: a difference ends the walk the way the end of the range does, with
\* dstore.StopIteration, and the walk over the current store goes on from there.
CompareBlockStopIteration ==
  /\ pc = "compare"
  /\ blockNum < LastOf(fileStart)
  /\ Tally(blockNum)
  /\ IF opts.stopFirst /\ totalDifferent' > totalDifferent
     THEN pc' = "walkCurrent" /\ fileStart' = 0 /\ UNCHANGED blockNum
     ELSE blockNum' = blockNum + 1 /\ UNCHANGED <<pc, fileStart>>
  /\ UNCHANGED <<inputs, visited>>

\* A difference ends the walk if asked to; a missing block does not.
CompareBlock ==
  /\ pc = "compare"
  /\ blockNum < LastOf(fileStart)
  /\ Tally(blockNum)
  /\ IF opts.stopFirst /\ totalDifferent' > totalDifferent
     THEN pc' = "done" /\ UNCHANGED blockNum
     ELSE blockNum' = blockNum + 1 /\ UNCHANGED pc
  /\ UNCHANGED <<inputs, fileStart, visited>>

CloseBundle ==
  /\ pc = "compare"
  /\ blockNum >= LastOf(fileStart)
  /\ pc' = "walk"
  /\ fileStart' = fileStart + BundleSize
  /\ UNCHANGED <<inputs, blockNum, visited, totals>>

\* Mutant: the walk over the current store is left out.
EndWalkForGood ==
  /\ pc = "walk"
  /\ fileStart >= stopBlock
  /\ pc' = "done"
  /\ UNCHANGED <<inputs, fileStart, blockNum, visited, totals>>

EndWalk ==
  /\ pc = "walk"
  /\ fileStart >= stopBlock
  /\ pc' = "walkCurrent"
  /\ fileStart' = 0
  /\ UNCHANGED <<inputs, blockNum, visited, totals>>

----------------------------------------------------------------------------
(* The walk over the current store, for the bundles only it has.           *)

\* A bundle in or after the first of the range that the first walk missed.
OnlyInCurrent(f) ==
  /\ FileExists(cur, f)
  /\ f \notin visited
  /\ f + BundleSize > startBlock

PassCurrent ==
  /\ pc = "walkCurrent"
  /\ fileStart < stopBlock
  /\ ~OnlyInCurrent(fileStart)
  /\ fileStart' = fileStart + BundleSize
  /\ UNCHANGED <<inputs, pc, blockNum, visited, totals>>

OpenCurrent ==
  /\ pc = "walkCurrent"
  /\ fileStart < stopBlock
  /\ OnlyInCurrent(fileStart)
  /\ IF Readable(cur, Bundle(fileStart), opts.sanitizeCur)
     THEN pc' = "count" /\ blockNum' = FirstOf(fileStart)
     ELSE pc' = "error" /\ UNCHANGED blockNum
  /\ UNCHANGED <<inputs, fileStart, visited, totals>>

\* Here a block that the reference misses does end the walk.
CountBlock ==
  /\ pc = "count"
  /\ blockNum < LastOf(fileStart)
  /\ IF cur[blockNum] = Absent
     THEN UNCHANGED totalMissingInRef
     ELSE totalMissingInRef' = totalMissingInRef + 1
  /\ IF opts.stopFirst /\ cur[blockNum] # Absent
     THEN pc' = "done" /\ UNCHANGED blockNum
     ELSE blockNum' = blockNum + 1 /\ UNCHANGED pc
  /\ UNCHANGED <<inputs, fileStart, visited, totalCompared, totalDifferent, totalMissingInCur>>

CloseCurrent ==
  /\ pc = "count"
  /\ blockNum >= LastOf(fileStart)
  /\ pc' = "walkCurrent"
  /\ fileStart' = fileStart + BundleSize
  /\ UNCHANGED <<inputs, blockNum, visited, totals>>

Summarize ==
  /\ pc = "walkCurrent"
  /\ fileStart >= stopBlock
  /\ pc' = "done"
  /\ UNCHANGED <<inputs, fileStart, blockNum, visited, totals>>

----------------------------------------------------------------------------
(* --oneblock.                                                             *)

LoadOneblocks ==
  /\ pc = "load"
  /\ IF Readable(ref, Numbers, opts.sanitizeRef) /\ Readable(cur, Numbers, opts.sanitizeCur)
     THEN pc' = "scan"
     ELSE pc' = "error"
  /\ UNCHANGED <<inputs, fileStart, blockNum, visited, totals>>

\* Whatever makes the stores not match ends the scan if asked to.
ScanBlock ==
  /\ pc = "scan"
  /\ blockNum < stopBlock
  /\ Tally(blockNum)
  /\ IF opts.stopFirst
        /\ <<totalDifferent, totalMissingInCur, totalMissingInRef>>'
             # <<totalDifferent, totalMissingInCur, totalMissingInRef>>
     THEN pc' = "done" /\ UNCHANGED blockNum
     ELSE blockNum' = blockNum + 1 /\ UNCHANGED pc
  /\ UNCHANGED <<inputs, fileStart, visited>>

EndScan ==
  /\ pc = "scan"
  /\ blockNum >= stopBlock
  /\ pc' = "done"
  /\ UNCHANGED <<inputs, fileStart, blockNum, visited, totals>>

----------------------------------------------------------------------------

\* A store cannot be listed or read, or a file cannot be decoded.
ReadFails ==
  /\ pc \in {"walk", "walkCurrent", "load"}
  /\ pc' = "error"
  /\ UNCHANGED <<inputs, fileStart, blockNum, visited, totals>>

Init ==
  /\ ref \in [Numbers -> RefBlocks \union {Absent}]
  /\ cur \in [Numbers -> CurBlocks \union {Absent}]
  /\ startBlock \in Numbers
  /\ stopBlock \in (startBlock + 1)..(MaxBlock + 1)
  /\ opts \in Options
  /\ pc = IF opts.oneblock THEN "load" ELSE "walk"
  /\ fileStart = 0
  /\ blockNum = startBlock
  /\ visited = {}
  /\ totalCompared = 0
  /\ totalDifferent = 0
  /\ totalMissingInCur = 0
  /\ totalMissingInRef = 0

Next ==
  \/ PassBundle \/ OpenBundle \/ CompareBlock \/ CloseBundle \/ EndWalk
  \/ PassCurrent \/ OpenCurrent \/ CountBlock \/ CloseCurrent \/ Summarize
  \/ LoadOneblocks \/ ScanBlock \/ EndScan
  \/ ReadFails

Spec == Init /\ [][Next]_vars

----------------------------------------------------------------------------
(* Properties.                                                             *)

States ==
  {"walk", "compare", "walkCurrent", "count", "load", "scan", "done", "error"}

\* Every variable has its type.
TypeOK ==
  /\ ref \in [Numbers -> Block \union {Absent}]
  /\ cur \in [Numbers -> Block \union {Absent}]
  /\ startBlock \in Numbers
  /\ stopBlock \in (startBlock + 1)..(MaxBlock + 1)
  /\ opts \in Flags
  /\ pc \in States
  /\ fileStart \in Nat
  /\ blockNum \in startBlock..stopBlock
  /\ visited \subseteq Nat
  /\ totalCompared \in Nat
  /\ totalDifferent \in Nat
  /\ totalMissingInCur \in Nat
  /\ totalMissingInRef \in Nat

\* "Block ranges match." is printed.
Match ==
  pc = "done" /\ totalDifferent = 0 /\ totalMissingInCur = 0 /\ totalMissingInRef = 0

\* A block has its ledger's hashes, and the Id and ParentId they give.
Right(b) == b.hash = "raw" /\ b.id = b.body

\* Both stores hold the same under a number, as far as the flags want it
\* looked at, LibNum, ParentNum and Timestamp aside.  A side that is sanitized
\* stands for the ledger's own hashes and ids, whatever it stores (lines
\* 48-53): the other side must have them.
Agree(n) ==
  \/ ref[n] = Absent /\ cur[n] = Absent
  \/ /\ ref[n] # Absent /\ cur[n] # Absent
     /\ ref[n].body = cur[n].body
     /\ ~opts.sanitizeRef /\ ~opts.sanitizeCur =>
          ref[n].hash = cur[n].hash /\ ref[n].id = cur[n].id
     /\ opts.sanitizeRef /\ ~opts.sanitizeCur => Right(cur[n])
     /\ opts.sanitizeCur /\ ~opts.sanitizeRef => Right(ref[n])
     /\ ref[n].noise = cur[n].noise \/ opts.strip

InBoth == {n \in InRange : ref[n] # Absent /\ cur[n] # Absent}
Different == {n \in InBoth : ~Agree(n)}
OnlyInRef == {n \in InRange : ref[n] # Absent /\ cur[n] = Absent}
OnlyInCur == {n \in InRange : ref[n] = Absent /\ cur[n] # Absent}

\* The verdict is right in both directions, whichever bundles the stores
\* have, wherever the range cuts them, with and without early stop: "Block
\* ranges match." is printed exactly when all blocks of the range agree
\* (lines 223-225, "the tool would falsely report a clean diff").
VerdictCorrect == pc = "done" => (Match <=> \A n \in InRange : Agree(n))

\* Unless it stops early, the summary counts each block of the range once.
SummaryExact ==
  pc = "done" /\ ~opts.stopFirst =>
    /\ totalCompared = Cardinality(InBoth)
    /\ totalDifferent = Cardinality(Different)
    /\ totalMissingInCur = Cardinality(OnlyInRef)
    /\ totalMissingInRef = Cardinality(OnlyInCur)

\* The reference store has the bundle a block belongs to.
BundleInRef(n) ==
  \E k \in Numbers : n \in Bundle(k * BundleSize) /\ FileExists(ref, k * BundleSize)

\* Line 72, "stop walking as soon as the first differing block is found": a
\* summary that was stopped by a difference counts one, the lowest of the
\* range, and each block before it once, those of bundles only the current
\* store has aside.  The walk over the current store, which would take the
\* bundles the first walk no longer came to for missing ones, has not run.
StopsAtFirst ==
  pc = "done" /\ opts.stopFirst /\ totalDifferent > 0 =>
    \E first \in Different :
      /\ \A n \in Different : first <= n
      /\ totalDifferent = 1
      /\ totalCompared = Cardinality({n \in InBoth : n <= first})
      /\ totalMissingInCur = Cardinality({n \in OnlyInRef : n < first})
      /\ totalMissingInRef = Cardinality({n \in OnlyInCur : n < first /\ BundleInRef(n)})

\* Line 45, "reports any blocks that differ": without flags that hide
\* something, a match means that the stores hold the same blocks.
ReportsAnyDifference ==
  Match /\ ~opts.sanitizeRef /\ ~opts.sanitizeCur /\ ~opts.strip
    => \A n \in InRange : ref[n] = cur[n]
=============================================================================
