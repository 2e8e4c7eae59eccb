------------------------------ MODULE FixBlocks ------------------------------
(***************************************************************************)
(* `fix-block-hashes` (cmd/tools/fix/tools_fix_block_hashes.go): runs of   *)
(* the tool copy ranges of a merged-blocks store to another store and      *)
(* recover the hashes that the v1 fetcher garbled.  Runs on ranges that do *)
(* not overlap may go on at the same time and write to one store.          *)
(*                                                                         *)
(* A step is a run begun, a block read, recovered and given to the         *)
(* writer, or a run that ends.  firehose-core's MergedBlocksWriter         *)
(* collects blocks and stores a bundle when it is given its last block, or *)
(* the first one of a later bundle; nothing makes it store what is left.   *)
(***************************************************************************)
EXTENDS Integers, FiniteSets

CONSTANTS
  BundleSize,
  MaxBlock,      \* bound: the highest block number stored
  Runs,          \* runs of the tool
  Assignments,   \* bound: ranges the runs may be given
  Kinds,         \* bound: which blocks the source may hold
  MaxFaults,     \* bound: how many runs fail or are killed, and begin again
  Absent

\* How a block is stored: "broken" as the v1 fetcher did, "right" with a hash
\* that is not garbled, "foreign" with one that recovers to another block's.
BlockKinds == {"broken", "right", "foreign"}

Numbers == 0..MaxBlock
BundleOf(n) == n - (n % BundleSize)

\* A range and --common-first-streamable-block, which may be any number: the
\* tool cannot know where the chain begins.
Range == [start: Numbers, stop: 1..(MaxBlock + 1), first: Numbers]

ASSUME SizeAssumption ==
  BundleSize \in Nat \ {0} /\ MaxBlock \in Nat /\ (MaxBlock + 1) % BundleSize = 0
ASSUME AssignmentsAssumption ==
  /\ Assignments \subseteq [Runs -> Range]
  /\ \A a \in Assignments : \A r, s \in Runs :
       r # s => a[r].stop <= a[s].start \/ a[s].stop <= a[r].start
ASSUME KindsAssumption == Kinds \subseteq BlockKinds /\ Absent \notin BlockKinds \union Nat
ASSUME FaultsAssumption == MaxFaults \in Nat

VARIABLES
  src,      \* the source store
  range,    \* what each run was asked to copy
  pc,
  pos,      \* the block each run reads next
  low,      \* where the bundle a run collects begins
  pending,  \* the blocks its writer has collected
  dest,     \* the destination store: the blocks of each bundle
  faults

vars == <<src, range, pc, pos, low, pending, dest, faults>>

Stored(n) == n \in Numbers /\ src[n] # Absent

----------------------------------------------------------------------------
(* One block.                                                              *)

\* Mutant: the hash is not compared with the block's id.
FixBlockUnchecked(n) == src[n] \in {"broken", "foreign"}

\* ConvertBrokenHash accepts the hash, and what it returns is the block's id.
FixBlock(n) == src[n] = "broken"

\* The writer begins at a boundary or at the first streamable block.
WriterAccepts(r, n) ==
  low[r] # Absent \/ n % BundleSize = 0 \/ n = range[r].first

\* The writer is given block n.
Write(r, n) ==
  LET begin == IF low[r] = Absent THEN BundleOf(n) ELSE low[r]
  IN  IF n = begin + BundleSize - 1
      THEN /\ dest' = [dest EXCEPT ![begin] = pending[r] \union {<<n, src[n]>>}]
           /\ low' = [low EXCEPT ![r] = begin + BundleSize]
           /\ pending' = [pending EXCEPT ![r] = {}]
      ELSE /\ low' = [low EXCEPT ![r] = begin]
           /\ pending' = [pending EXCEPT ![r] = @ \union {<<n, src[n]>>}]
           /\ UNCHANGED dest

----------------------------------------------------------------------------
(* A run.                                                                  *)

\* A new process: nothing is remembered of a run that failed.
Begin(r) ==
  /\ pc[r] = "idle"
  /\ pc' = [pc EXCEPT ![r] =
              IF range[r].start % BundleSize # 0 /\ range[r].start # range[r].first
              THEN "refused" ELSE "read"]
  /\ pos' = [pos EXCEPT ![r] = range[r].start]
  /\ low' = [low EXCEPT ![r] = Absent]
  /\ pending' = [pending EXCEPT ![r] = {}]
  /\ UNCHANGED <<src, range, dest, faults>>

\* Mutant: the end of the range does not end the reading.
SkipPastEnd(r) ==
  /\ pc[r] = "read" /\ ~Stored(pos[r])
  /\ pos' = [pos EXCEPT ![r] = @ + 1]
  /\ UNCHANGED <<src, range, pc, low, pending, dest, faults>>

\* Below the first block of the store there is nothing to read.
SkipNothing(r) ==
  /\ pc[r] = "read" /\ pos[r] < range[r].stop /\ ~Stored(pos[r])
  /\ pos' = [pos EXCEPT ![r] = @ + 1]
  /\ UNCHANGED <<src, range, pc, low, pending, dest, faults>>

ReadBlock(r) ==
  /\ pc[r] = "read" /\ pos[r] < range[r].stop /\ Stored(pos[r])
  /\ FixBlock(pos[r]) /\ WriterAccepts(r, pos[r])
  /\ Write(r, pos[r])
  /\ pos' = [pos EXCEPT ![r] = @ + 1]
  /\ UNCHANGED <<src, range, pc, faults>>

\* Mutant: a block that cannot be recovered is tried again.
RefuseAndRetry(r) ==
  /\ pc[r] = "read" /\ pos[r] < range[r].stop /\ Stored(pos[r])
  /\ ~FixBlock(pos[r]) \/ ~WriterAccepts(r, pos[r])
  /\ UNCHANGED vars

\* A block that cannot be recovered ends the run; the bundles it has stored
\* stay.
RefuseBlock(r) ==
  /\ pc[r] = "read" /\ pos[r] < range[r].stop /\ Stored(pos[r])
  /\ ~FixBlock(pos[r]) \/ ~WriterAccepts(r, pos[r])
  /\ pc' = [pc EXCEPT ![r] = "failed"]
  /\ UNCHANGED <<src, range, pos, low, pending, dest, faults>>

\* Mutant: the last block of the range is taken for the first one after it.
EndEarly(r) ==
  /\ pc[r] = "read" /\ pos[r] >= range[r].stop - 1
  /\ pc' = [pc EXCEPT ![r] = "done"]
  /\ UNCHANGED <<src, range, pos, low, pending, dest, faults>>

End(r) ==
  /\ pc[r] = "read" /\ pos[r] >= range[r].stop
  /\ pc' = [pc EXCEPT ![r] = "done"]
  /\ UNCHANGED <<src, range, pos, low, pending, dest, faults>>

\* A store cannot be read or written, or the process is killed, and the run
\* is begun again.
Fault(r) ==
  /\ pc[r] = "read" /\ faults < MaxFaults
  /\ faults' = faults + 1
  /\ pc' = [pc EXCEPT ![r] = "idle"]
  /\ UNCHANGED <<src, range, pos, low, pending, dest>>

Init ==
  /\ \E first \in Numbers :
       src \in {s \in [Numbers -> Kinds \union {Absent}] :
                  \A n \in Numbers : s[n] = Absent <=> n < first}
  /\ range \in Assignments
  /\ pc = [r \in Runs |-> "idle"]
  /\ pos = [r \in Runs |-> 0]
  /\ low = [r \in Runs |-> Absent]
  /\ pending = [r \in Runs |-> {}]
  /\ dest = [f \in {n \in Numbers : n % BundleSize = 0} |-> {}]
  /\ faults = 0

Step(r) ==
  Begin(r) \/ SkipNothing(r) \/ ReadBlock(r) \/ RefuseBlock(r) \/ End(r)

Next == \E r \in Runs : Step(r) \/ Fault(r)

Spec == Init /\ [][Next]_vars

\* Every run goes on.
FairSpec == Spec /\ \A r \in Runs : WF_vars(Step(r))

----------------------------------------------------------------------------
(* Properties.                                                             *)

Blocks == Numbers \X BlockKinds
Bundles == {n \in Numbers : n % BundleSize = 0}

\* Every variable has its type.
TypeOK ==
  /\ src \in [Numbers -> BlockKinds \union {Absent}]
  /\ range \in Assignments
  /\ pc \in [Runs -> {"idle", "read", "refused", "failed", "done"}]
  /\ pos \in [Runs -> 0..(MaxBlock + 1)]
  /\ low \in [Runs -> Nat \union {Absent}]
  /\ pending \in [Runs -> SUBSET Blocks]
  /\ dest \in [Bundles -> SUBSET Blocks]
  /\ faults \in 0..MaxFaults

\* The blocks that the source has from c to n, recovered.
Whole(c, n) == {<<m, "broken">> : m \in {k \in c..n : Stored(k)}}

\* Where what is stored of a bundle may begin: at its boundary, or at a block
\* that an operator began a run at and declared the first streamable one.
BundleFirsts(f) ==
  {f} \union {n \in f..(f + BundleSize - 1) :
                \E r \in Runs : range[r].start = n /\ range[r].first = n}

\* A bundle of the destination is whole: whatever runs go on next to each
\* other, fail and begin again, it holds every block that the source has in
\* that bundle, and each with a hash that is its id.  The one exception is
\* where the operator said that the chain begins (lines 60-66, 92-104): there
\* the tool, which cannot check it, leaves out what comes before.
BundlesWhole ==
  \A f \in Bundles : dest[f] # {} =>
    \E c \in BundleFirsts(f) : dest[f] = Whole(c, f + BundleSize - 1)

\* A run that ends well has copied its range, up to the bundle its range ends
\* in the middle of.
RangeCopied ==
  \A r \in Runs : pc[r] = "done" =>
    \A n \in range[r].start..(BundleOf(range[r].stop) - 1) :
      Stored(n) => <<n, src[n]>> \in dest[BundleOf(n)]

\* A run ends, unless it is killed again and again.
RunsEnd == \A r \in Runs : <>(pc[r] \in {"refused", "failed", "done"})
=============================================================================
