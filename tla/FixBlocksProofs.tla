--------------------------- MODULE FixBlocksProofs ---------------------------
(***************************************************************************)
(* Theorems on FixBlocks, for any bundle size and any number of runs: the  *)
(* types, that bundles are whole, that ranges are copied, and that every   *)
(* step brings the end of a run nearer.                                    *)
(***************************************************************************)
EXTENDS FixBlocks, TLAPS

----------------------------------------------------------------------------
(* Bundles.                                                                *)

LEMMA Multiple ==
  ASSUME NEW k \in Nat
  PROVE  (k * BundleSize) % BundleSize = 0
BY SizeAssumption

LEMMA Division ==
  ASSUME NEW n \in Nat
  PROVE  /\ n \div BundleSize \in Nat
         /\ n = (n \div BundleSize) * BundleSize + (n % BundleSize)
         /\ n % BundleSize \in 0..(BundleSize - 1)
BY SizeAssumption

\* Where the bundle of a block begins.
LEMMA BundleBegins ==
  ASSUME NEW n \in Nat
  PROVE  /\ BundleOf(n) \in Nat /\ BundleOf(n) <= n /\ n < BundleOf(n) + BundleSize
         /\ BundleOf(n) % BundleSize = 0
         /\ n % BundleSize = 0 => BundleOf(n) = n
<1>1. BundleOf(n) = (n \div BundleSize) * BundleSize
  BY Division, SizeAssumption DEF BundleOf
<1>2. (n \div BundleSize) * BundleSize \in Nat
  BY Division, SizeAssumption
<1>3. BundleOf(n) % BundleSize = 0
  BY <1>1, Division, Multiple
<1>4. BundleOf(n) <= n /\ n < BundleOf(n) + BundleSize
  BY Division, SizeAssumption DEF BundleOf
<1>5. n % BundleSize = 0 => BundleOf(n) = n
  BY DEF BundleOf
<1>6. QED
  BY <1>1, <1>2, <1>3, <1>4, <1>5

\* Bundles that begin at different blocks lie a whole bundle apart.
LEMMA BundlesApart ==
  ASSUME NEW f \in Nat, NEW g \in Nat, f % BundleSize = 0, g % BundleSize = 0,
         f < g + BundleSize
  PROVE  f <= g
<1> DEFINE j == f \div BundleSize
           k == g \div BundleSize
<1>1. j \in Nat /\ k \in Nat /\ f = j * BundleSize /\ g = k * BundleSize
  BY Division, SizeAssumption
<1> HIDE DEF j, k
<1>2. CASE j <= k
  <2>1. j * BundleSize <= k * BundleSize
    BY <1>1, <1>2, SizeAssumption
  <2>2. QED
    BY <1>1, <2>1
<1>3. CASE j >= k + 1
  <2>1. j * BundleSize >= (k + 1) * BundleSize
    BY <1>1, <1>3, SizeAssumption
  <2>2. (k + 1) * BundleSize = g + BundleSize
    BY <1>1, SizeAssumption
  <2>3. QED
    BY <1>1, <2>1, <2>2, SizeAssumption
<1>4. QED
  BY <1>1, <1>2, <1>3

LEMMA NextBundle ==
  ASSUME NEW f \in Nat, f % BundleSize = 0
  PROVE  (f + BundleSize) % BundleSize = 0
<1> DEFINE j == f \div BundleSize
<1>1. j \in Nat /\ f = j * BundleSize
  BY Division, SizeAssumption
<1> HIDE DEF j
<1>2. f + BundleSize = (j + 1) * BundleSize
  BY <1>1, SizeAssumption
<1>3. QED
  BY <1>1, <1>2, Multiple

\* The bundle a block is in, and the order of bundles.
LEMMA BundleUnique ==
  ASSUME NEW f \in Nat, NEW n \in Nat, f % BundleSize = 0, f <= n, n < f + BundleSize
  PROVE  BundleOf(n) = f
<1>1. BundleOf(n) <= f
  BY BundleBegins, BundlesApart, SizeAssumption
<1>2. f <= BundleOf(n)
  BY BundleBegins, BundlesApart, SizeAssumption
<1>3. QED
  BY <1>1, <1>2, BundleBegins

LEMMA BundleMonotone ==
  ASSUME NEW m \in Nat, NEW n \in Nat, m <= n
  PROVE  BundleOf(m) <= BundleOf(n)
BY BundleBegins, BundlesApart, SizeAssumption

----------------------------------------------------------------------------
(* Types.                                                                  *)

LEMMA TypeInit ==
  ASSUME Init
  PROVE  TypeOK
BY SizeAssumption, AssignmentsAssumption, KindsAssumption, FaultsAssumption
   DEF Init, TypeOK, Numbers, Bundles, Range

LEMMA TypeStep ==
  ASSUME TypeOK, [Next]_vars
  PROVE  TypeOK'
<1> USE SizeAssumption, FaultsAssumption DEF TypeOK
<1>0. \A r \in Runs : range[r] \in Range
  BY AssignmentsAssumption
<1>1. ASSUME NEW r \in Runs, Begin(r)
      PROVE  TypeOK'
  BY <1>0, <1>1 DEF Begin, Range, Numbers
<1>2. ASSUME NEW r \in Runs, SkipNothing(r)
      PROVE  TypeOK'
  BY <1>0, <1>2 DEF SkipNothing, Range
<1>3. ASSUME NEW r \in Runs, ReadBlock(r)
      PROVE  TypeOK'
  <2>1. pos[r] \in Nat /\ pos[r] \in Numbers /\ src[pos[r]] \in BlockKinds
    BY <1>3 DEF ReadBlock, Stored, Numbers
  <2>2. BundleOf(pos[r]) \in Nat
    BY <2>1, BundleBegins
  <2>3. <<pos[r], src[pos[r]]>> \in Blocks
    BY <2>1 DEF Blocks
  <2>4. pos' \in [Runs -> 0..(MaxBlock + 1)]
    BY <1>0, <1>3 DEF ReadBlock, Range
  <2> DEFINE begin == IF low[r] = Absent THEN BundleOf(pos[r]) ELSE low[r]
  <2>5. begin \in Nat
    BY <2>2
  <2>6. /\ low' \in [Runs -> Nat \union {Absent}]
        /\ pending' \in [Runs -> SUBSET Blocks]
        /\ dest' \in [Bundles -> SUBSET Blocks]
    <3> DEFINE b == <<pos[r], src[pos[r]]>>
    <3>0. pending[r] \union {b} \in SUBSET Blocks
      BY <2>3
    <3>1. CASE pos[r] = begin + BundleSize - 1
      <4>1. /\ dest' = [dest EXCEPT ![begin] = pending[r] \union {b}]
            /\ low' = [low EXCEPT ![r] = begin + BundleSize]
            /\ pending' = [pending EXCEPT ![r] = {}]
        BY <1>3, <3>1 DEF ReadBlock, Write
      <4> HIDE DEF begin, b
      <4>2. dest' \in [Bundles -> SUBSET Blocks]
        BY <3>0, <4>1
      <4>3. low' \in [Runs -> Nat \union {Absent}]
        BY <2>5, <4>1
      <4>4. pending' \in [Runs -> SUBSET Blocks]
        BY <4>1
      <4>5. QED
        BY <4>2, <4>3, <4>4
    <3>2. CASE pos[r] # begin + BundleSize - 1
      <4>1. /\ dest' = dest
            /\ low' = [low EXCEPT ![r] = begin]
            /\ pending' = [pending EXCEPT ![r] = pending[r] \union {b}]
        BY <1>3, <3>2 DEF ReadBlock, Write
      <4> HIDE DEF begin, b
      <4>2. low' \in [Runs -> Nat \union {Absent}]
        BY <2>5, <4>1
      <4>3. pending' \in [Runs -> SUBSET Blocks]
        BY <3>0, <4>1
      <4>4. QED
        BY <4>1, <4>2, <4>3
    <3>3. QED
      BY <3>1, <3>2
  <2>7. QED
    BY <1>3, <2>4, <2>6 DEF ReadBlock
<1>4. ASSUME NEW r \in Runs, RefuseBlock(r)
      PROVE  TypeOK'
  BY <1>4 DEF RefuseBlock
<1>5. ASSUME NEW r \in Runs, End(r)
      PROVE  TypeOK'
  BY <1>5 DEF End
<1>6. ASSUME NEW r \in Runs, Fault(r)
      PROVE  TypeOK'
  BY <1>6 DEF Fault
<1>7. CASE UNCHANGED vars
  BY <1>7 DEF vars
<1>8. QED
  BY <1>1, <1>2, <1>3, <1>4, <1>5, <1>6, <1>7 DEF Next, Step

\* Every variable of FixBlocks has its type, for any bundle size, any runs and
\* any ranges.
THEOREM TypeCorrect == Spec => []TypeOK
BY TypeInit, TypeStep, PTL DEF Spec

----------------------------------------------------------------------------
(* What is stored.                                                         *)

\* The source has no gaps.
SourceInv == \A m, n \in Numbers : m <= n /\ src[m] # Absent => src[n] # Absent

LastOf(f) == f + BundleSize - 1

Max2(a, b) == IF a > b THEN a ELSE b

\* A run may store a bundle: it is given its last block, and begins before it
\* or where it was told that the chain begins.
Owns(r, f) ==
  /\ range[r].start <= LastOf(f) /\ LastOf(f) < range[r].stop
  /\ range[r].start <= f \/ range[r].start = range[r].first

\* A bundle was stored by the run that owns it, from that run's start on.
StoredByOwner ==
  \A f \in Bundles : dest[f] # {} =>
    \E r \in Runs : Owns(r, f) /\ dest[f] = Whole(Max2(f, range[r].start), LastOf(f))

Copied(n) == <<n, src[n]>> \in dest[BundleOf(n)]

\* A run that has read nothing yet, and one that collects a bundle.
Nothing(r) ==
  /\ pending[r] = {}
  /\ \A n \in range[r].start..(pos[r] - 1) : ~Stored(n)

Collected(r) ==
  /\ low[r] % BundleSize = 0 /\ low[r] <= pos[r] /\ pos[r] < low[r] + BundleSize
  /\ pending[r] = Whole(Max2(low[r], range[r].start), pos[r] - 1)
  /\ range[r].start <= low[r] \/ range[r].start = range[r].first
  /\ \A n \in Max2(low[r], range[r].start)..(pos[r] - 1) : Stored(n) => src[n] = "broken"
  /\ \A n \in Numbers : n >= pos[r] => Stored(n)
  /\ \A n \in range[r].start..(low[r] - 1) : Stored(n) => Copied(n)

RangeDone(r) ==
  \A n \in range[r].start..(BundleOf(range[r].stop) - 1) : Stored(n) => Copied(n)

\* A run that reads was let begin where it does.
RunInv(r) ==
  /\ range[r].start <= pos[r]
  /\ range[r].start % BundleSize = 0 \/ range[r].start = range[r].first
  /\ IF low[r] = Absent THEN Nothing(r) ELSE Collected(r)

CopyInv ==
  /\ TypeOK /\ SourceInv /\ StoredByOwner /\ RangeCopied
  /\ \A r \in Runs : pc[r] = "read" => RunInv(r)

LEMMA CopyInit ==
  ASSUME Init
  PROVE  CopyInv
<1>1. PICK first \in Numbers : \A n \in Numbers : src[n] = Absent <=> n < first
  BY DEF Init
<1>2. SourceInv
  BY <1>1 DEF SourceInv, Numbers
<1>3. StoredByOwner
  BY DEF Init, StoredByOwner, Bundles
<1>4. \A r \in Runs : pc[r] = "idle"
  BY DEF Init
<1>5. QED
  BY <1>2, <1>3, <1>4, TypeInit DEF CopyInv, RangeCopied

\* A step that changes neither store nor the run r.
LEMMA RunKept ==
  ASSUME NEW r \in Runs, RunInv(r), src' = src, range' = range,
         pos'[r] = pos[r], low'[r] = low[r], pending'[r] = pending[r],
         \A n \in Numbers : Copied(n) => Copied(n)'
  PROVE  RunInv(r)'
<1>1. \A n : Stored(n)' <=> Stored(n)
  BY DEF Stored
<1>2. CASE low[r] = Absent
  BY <1>1, <1>2 DEF RunInv, Nothing
<1>3. CASE low[r] # Absent
  <2>1. Whole(low[r], pos[r] - 1)' = Whole(low'[r], pos'[r] - 1)
    BY <1>1 DEF Whole
  <2>2. \A n : Stored(n) => n \in Numbers
    BY DEF Stored
  <2>3. QED
    BY <1>1, <1>3, <2>1, <2>2 DEF RunInv, Collected, Whole
<1>4. QED
  BY <1>2, <1>3

\* One run owns a bundle at most.
LEMMA OneOwner ==
  ASSUME TypeOK, NEW f \in Nat, NEW r \in Runs, NEW s \in Runs, Owns(r, f), Owns(s, f)
  PROVE  r = s
<1>1. /\ range[r].start \in Nat /\ range[r].stop \in Nat
      /\ range[s].start \in Nat /\ range[s].stop \in Nat /\ LastOf(f) \in Int
  BY AssignmentsAssumption, SizeAssumption DEF TypeOK, Range, Numbers, LastOf
<1>2. r # s => range[r].stop <= range[s].start \/ range[s].stop <= range[r].start
  BY AssignmentsAssumption DEF TypeOK
<1>3. QED
  BY <1>1, <1>2 DEF Owns

\* What is copied stays copied: only its owner stores a bundle again.
LEMMA CopiedKept ==
  ASSUME CopyInv, src' = src, range' = range, StoredByOwner',
         \A f \in Bundles : dest'[f] = dest[f] \/ dest'[f] # {},
         NEW n \in Numbers, Copied(n)
  PROVE  Copied(n)'
<1> DEFINE f == BundleOf(n)
<1>1. n \in Nat
  BY DEF Numbers
<1>2. f \in Bundles /\ f \in Nat
  BY <1>1, BundleBegins, SizeAssumption DEF Bundles, Numbers
<1>3. \A k : Stored(k)' <=> Stored(k)
  BY DEF Stored
<1>4. f' = f
  BY DEF BundleOf
<1> HIDE DEF f
<1>5. dest[f] # {} /\ <<n, src[n]>> \in dest[f]
  BY DEF Copied, f
<1>6. PICK r \in Runs : Owns(r, f) /\ dest[f] = Whole(Max2(f, range[r].start), LastOf(f))
  BY <1>2, <1>5 DEF CopyInv, StoredByOwner
<1>7. CASE dest'[f] # {}
  <2>1. PICK s \in Runs : Owns(s, f)' /\ dest'[f] = Whole(Max2(f, range[s].start), LastOf(f))'
    BY <1>2, <1>7 DEF StoredByOwner, Bundles
  <2>2. Owns(s, f)
    BY <2>1 DEF Owns, LastOf
  <2>3. s = r
    BY <1>2, <1>6, <2>2, OneOwner DEF CopyInv
  <2>4. dest'[f] = dest[f]
    BY <1>3, <1>6, <2>1, <2>3 DEF Whole, Max2, LastOf
  <2>5. QED
    BY <1>4, <1>5, <2>4 DEF Copied, f
<1>8. CASE dest'[f] = {}
  BY <1>2, <1>5, <1>8
<1>9. QED
  BY <1>7, <1>8

\* A step that stores nothing.
LEMMA StoreKept ==
  ASSUME StoredByOwner, src' = src, range' = range, dest' = dest
  PROVE  StoredByOwner'
BY DEF StoredByOwner, Owns, LastOf, Whole, Max2, Stored, Bundles

\* A step of run r leaves to the others what they rely on.
LEMMA StepOf ==
  ASSUME CopyInv, NEW r \in Runs, TypeOK', src' = src, range' = range, StoredByOwner',
         \A f \in Bundles : dest'[f] = dest[f] \/ dest'[f] # {},
         \A s \in Runs \ {r} : /\ pc'[s] = pc[s] /\ pos'[s] = pos[s]
                               /\ low'[s] = low[s] /\ pending'[s] = pending[s],
         pc'[r] = "read" => RunInv(r)',
         pc'[r] = "done" => pc[r] = "done" \/ RangeDone(r)'
  PROVE  CopyInv'
<1>1. \A n \in Numbers : Copied(n) => Copied(n)'
  BY CopiedKept
<1>2. \A n : Stored(n)' <=> Stored(n)
  BY DEF Stored
<1>3. SourceInv'
  BY DEF CopyInv, SourceInv
<1>4. ASSUME NEW s \in Runs, pc'[s] = "read"
      PROVE  RunInv(s)'
  BY <1>1, <1>4, RunKept DEF CopyInv
<1>5. ASSUME NEW s \in Runs, RangeDone(s)
      PROVE  RangeDone(s)'
  <2>1. BundleOf(range'[s].stop) = BundleOf(range[s].stop)
    OBVIOUS
  <2>2. \A n : Stored(n) => n \in Numbers
    BY DEF Stored
  <2>3. QED
    BY <1>1, <1>2, <1>5, <2>1, <2>2 DEF RangeDone, BundleOf
<1>6. ASSUME NEW s \in Runs, pc'[s] = "done"
      PROVE  RangeDone(s)'
  <2>1. \A t \in Runs : pc[t] = "done" => RangeDone(t)
    BY DEF CopyInv, RangeCopied, RangeDone, Copied
  <2>2. QED
    BY <1>5, <1>6, <2>1
<1>7. RangeCopied'
  BY <1>6 DEF RangeCopied, RangeDone, Copied
<1>8. QED
  BY <1>3, <1>4, <1>7 DEF CopyInv

LEMMA ReadStep ==
  ASSUME CopyInv, NEW r \in Runs, ReadBlock(r)
  PROVE  CopyInv'
<1>0. TypeOK /\ SourceInv /\ RunInv(r) /\ TypeOK'
  BY TypeStep DEF CopyInv, ReadBlock, Next, Step
<1>a. PICK n, begin : n = pos[r] /\ begin = IF low[r] = Absent THEN BundleOf(n) ELSE low[r]
  OBVIOUS
<1>1. /\ n \in Numbers /\ n \in Nat /\ Stored(n) /\ src[n] = "broken"
      /\ src' = src /\ range' = range /\ pc' = pc /\ pos' = [pos EXCEPT ![r] = n + 1]
      /\ range[r] \in Range
  BY <1>0, <1>a, AssignmentsAssumption DEF ReadBlock, FixBlock, Stored, Numbers, TypeOK
<1>2. begin \in Nat /\ begin % BundleSize = 0 /\ begin <= n /\ n < begin + BundleSize
  BY <1>0, <1>1, <1>a, BundleBegins DEF RunInv, Collected, TypeOK
<1>b. /\ range[r].start \in Nat /\ range[r].start <= n /\ n < range[r].stop
      /\ range[r].stop \in Nat
  BY <1>0, <1>1, <1>a DEF RunInv, ReadBlock, Range, Numbers
<1>c. range[r].start <= begin \/ range[r].start = range[r].first
  <2>1. CASE low[r] = Absent
    <3>1. SUFFICES ASSUME range[r].start % BundleSize = 0, begin < range[r].start
                   PROVE  FALSE
      BY <1>0, <1>2, <1>b DEF RunInv
    <3>2. BundleOf(n) = range[r].start
      BY <1>1, <1>2, <1>b, <3>1, BundleUnique, SizeAssumption
    <3>3. QED
      BY <1>2, <1>a, <1>b, <2>1, <3>1, <3>2
  <2>2. CASE low[r] # Absent
    BY <1>0, <1>a, <2>2 DEF RunInv, Collected
  <2>3. QED
    BY <2>1, <2>2
<1> DEFINE from == Max2(begin, range[r].start)
<1>d. from \in Nat /\ begin <= from /\ range[r].start <= from /\ from <= n
  BY <1>1, <1>2, <1>b DEF Max2
<1>3. /\ pending[r] = Whole(from, n - 1)
      /\ \A m \in from..(n - 1) : Stored(m) => src[m] = "broken"
  <2>1. CASE low[r] = Absent
    <3>1. \A m \in from..(n - 1) : ~Stored(m)
      BY <1>0, <1>1, <1>a, <1>b, <1>d, <2>1 DEF RunInv, Nothing
    <3>2. Whole(from, n - 1) = {}
      BY <3>1 DEF Whole
    <3>3. QED
      BY <1>0, <1>a, <2>1, <3>1, <3>2 DEF RunInv, Nothing
  <2>2. CASE low[r] # Absent
    BY <1>0, <1>a, <2>2 DEF RunInv, Collected
  <2>3. QED
    BY <2>1, <2>2
<1> HIDE DEF from
<1>4. \A m \in range[r].start..(begin - 1) : Stored(m) => Copied(m)
  <2>1. CASE low[r] = Absent
    BY <1>0, <1>1, <1>2, <1>a, <2>1 DEF RunInv, Nothing, Range, Numbers
  <2>2. CASE low[r] # Absent
    BY <1>0, <1>a, <2>2 DEF RunInv, Collected
  <2>3. QED
    BY <2>1, <2>2
<1>5. \A m \in Numbers : m >= n + 1 => Stored(m)
  BY <1>0, <1>1 DEF SourceInv, Stored, Numbers
<1>6. pending[r] \union {<<n, src[n]>>} = Whole(from, n)
  BY <1>1, <1>d, <1>3 DEF Whole
<1>7. \A m : Stored(m)' <=> Stored(m)
  BY <1>1 DEF Stored
<1>8. \A m \in from..n : Stored(m) => src[m] = "broken"
  BY <1>1, <1>d, <1>3
<1>9. \A m : Stored(m) => m \in Numbers /\ m \in Nat
  BY DEF Stored, Numbers
<1>e. /\ range[r].start <= pos'[r]
      /\ range[r].start % BundleSize = 0 \/ range[r].start = range[r].first
      /\ pos'[r] = n + 1
  <2>1. pos'[r] = n + 1
    BY <1>0, <1>1 DEF TypeOK
  <2>2. QED
    BY <1>0, <1>1, <1>b, <2>1 DEF RunInv
<1>f. \A s \in Runs \ {r} : pc'[s] = pc[s] /\ pos'[s] = pos[s]
  BY <1>0, <1>1 DEF TypeOK
<1>10. CASE n = begin + BundleSize - 1
  <2>1. /\ dest' = [dest EXCEPT ![begin] = Whole(from, n)]
        /\ low' = [low EXCEPT ![r] = begin + BundleSize]
        /\ pending' = [pending EXCEPT ![r] = {}]
    BY <1>a, <1>6, <1>10 DEF ReadBlock, Write
  <2>2. begin \in Bundles
    BY <1>1, <1>2, SizeAssumption DEF Bundles, Numbers
  <2>3. Whole(from, n) # {}
    <3>1. n \in {k \in from..n : Stored(k)}
      BY <1>1, <1>d
    <3>2. QED
      BY <3>1 DEF Whole
  <2>4. \A f \in Bundles : dest'[f] = IF f = begin THEN Whole(from, n) ELSE dest[f]
    BY <1>0, <2>1 DEF TypeOK
  <2>a. LastOf(begin) = n /\ Owns(r, begin)
    BY <1>2, <1>10, <1>b, <1>c, SizeAssumption DEF LastOf, Owns
  <2>5. StoredByOwner'
    <3>1. ASSUME NEW f \in Bundles, dest'[f] # {}
          PROVE  \E s \in Runs : Owns(s, f)' /\ dest'[f] = Whole(Max2(f, range[s].start), LastOf(f))'
      <4>1. CASE f = begin
        <5>1. Owns(r, f)'
          BY <1>1, <2>a, <4>1 DEF Owns, LastOf
        <5>2. Whole(Max2(f, range[r].start), LastOf(f))' = Whole(from, n)
          <6>1. Max2(f, range[r].start)' = from /\ LastOf(f)' = n
            BY <1>1, <2>a, <4>1 DEF Max2, LastOf, from
          <6>2. QED
            BY <1>7, <6>1 DEF Whole
        <5>3. QED
          BY <2>4, <4>1, <5>1, <5>2
      <4>2. CASE f # begin
        <5>1. dest[f] # {} /\ dest'[f] = dest[f]
          BY <2>4, <3>1, <4>2
        <5>2. PICK s \in Runs : Owns(s, f) /\ dest[f] = Whole(Max2(f, range[s].start), LastOf(f))
          BY <5>1 DEF CopyInv, StoredByOwner
        <5>3. Owns(s, f)'
          BY <1>1, <5>2 DEF Owns, LastOf
        <5>4. Whole(Max2(f, range[s].start), LastOf(f))' = Whole(Max2(f, range[s].start), LastOf(f))
          BY <1>1, <1>7 DEF Whole, Max2, LastOf
        <5>5. QED
          BY <5>1, <5>2, <5>3, <5>4
      <4>3. QED
        BY <4>1, <4>2
    <3>2. QED
      BY <3>1 DEF StoredByOwner, Bundles
  <2>6. \A f \in Bundles : dest'[f] = dest[f] \/ dest'[f] # {}
    BY <2>3, <2>4
  <2>7. \A m \in Numbers : Copied(m) => Copied(m)'
    BY <1>1, <2>5, <2>6, CopiedKept
  <2>8. ASSUME NEW m \in from..n, Stored(m)
        PROVE  Copied(m)'
    <3>1. BundleOf(m) = begin
      <4>1. m \in Nat /\ begin <= m /\ m < begin + BundleSize
        BY <1>1, <1>2, <1>9, <1>d, <2>8, SizeAssumption
      <4>2. QED
        BY <1>2, <4>1, BundleUnique
    <3>2. BundleOf(m)' = begin
      BY <3>1 DEF BundleOf
    <3>3. <<m, "broken">> \in Whole(from, n)
      BY <2>8 DEF Whole
    <3>4. QED
      BY <1>1, <1>8, <2>2, <2>4, <2>8, <3>2, <3>3 DEF Copied
  <2>9. /\ low'[r] = begin + BundleSize /\ pending'[r] = {} /\ low'[r] # Absent
    <3>1. /\ low \in [Runs -> Nat \union {Absent}]
          /\ pending = [s \in Runs |-> pending[s]]
      BY <1>0 DEF TypeOK
    <3>2. begin + BundleSize \in Nat /\ Absent \notin Nat
      BY <1>2, SizeAssumption, KindsAssumption
    <3>3. QED
      BY <2>1, <3>1, <3>2
  <2>10. (begin + BundleSize) % BundleSize = 0
    BY <1>2, NextBundle
  <2>11. Max2(begin + BundleSize, range[r].start) = begin + BundleSize
    BY <1>2, <1>10, <1>b, SizeAssumption DEF Max2
  <2>12. Whole(begin + BundleSize, n)' = {}
    BY <1>1, <1>2, <1>10, SizeAssumption DEF Whole
  <2>13. \A m \in range[r].start..(begin + BundleSize - 1) : Stored(m) => Copied(m)'
    <3>1. ASSUME NEW m \in range[r].start..(begin + BundleSize - 1), Stored(m)
          PROVE  Copied(m)'
      <4>1. CASE m < begin
        BY <1>2, <1>4, <1>9, <1>b, <2>7, <3>1, <4>1
      <4>2. CASE m >= begin
        <5>1. m \in from..n
          BY <1>2, <1>9, <1>10, <1>b, <1>d, <3>1, <4>2, SizeAssumption DEF from, Max2
        <5>2. QED
          BY <2>8, <3>1, <5>1
      <4>3. QED
        BY <1>2, <1>9, <3>1, <4>1, <4>2
    <3>2. QED
      BY <3>1
  <2>14. Collected(r)'
    <3>1. /\ low'[r] % BundleSize = 0 /\ low'[r] <= pos'[r] /\ pos'[r] < low'[r] + BundleSize
          /\ range[r].start <= low'[r]
      BY <1>1, <1>2, <1>10, <1>b, <1>e, <2>9, <2>10, SizeAssumption
    <3>2. Max2(low[r], range[r].start)' = begin + BundleSize
      BY <1>1, <2>9, <2>11 DEF Max2
    <3>3. pending'[r] = Whole(Max2(low[r], range[r].start), pos[r] - 1)'
      BY <1>1, <1>e, <2>9, <2>12, <3>2 DEF Whole
    <3>4. \A m \in Max2(low[r], range[r].start)'..(pos'[r] - 1) : Stored(m) => src[m] = "broken"
      BY <1>1, <1>2, <1>10, <1>e, <3>2, SizeAssumption
    <3>5. \A m \in range'[r].start..(low'[r] - 1) : Stored(m) => Copied(m)'
      <4>1. range'[r].start = range[r].start /\ low'[r] - 1 = begin + BundleSize - 1
        BY <1>1, <1>2, <2>9, SizeAssumption
      <4>2. QED
        BY <2>13, <4>1
    <3>6. QED
      BY <1>1, <1>5, <1>7, <1>e, <2>9, <3>1, <3>3, <3>4, <3>5 DEF Collected
  <2>15. RunInv(r)'
    BY <1>1, <1>e, <2>9, <2>14 DEF RunInv
  <2>16. \A s \in Runs \ {r} : low'[s] = low[s] /\ pending'[s] = pending[s]
    BY <1>0, <2>1 DEF TypeOK
  <2>17. QED
    BY <1>0, <1>1, <1>f, <2>5, <2>6, <2>15, <2>16, StepOf
<1>11. CASE n # begin + BundleSize - 1
  <2>1. /\ dest' = dest
        /\ low' = [low EXCEPT ![r] = begin]
        /\ pending' = [pending EXCEPT ![r] = Whole(from, n)]
    BY <1>a, <1>6, <1>11 DEF ReadBlock, Write
  <2>2. StoredByOwner'
    BY <1>1, <2>1, StoreKept DEF CopyInv
  <2>3. \A m : Copied(m)' <=> Copied(m)
    BY <1>1, <2>1 DEF Copied, BundleOf
  <2>4. /\ low'[r] = begin /\ pending'[r] = Whole(from, n) /\ low'[r] # Absent
    <3>1. /\ low \in [Runs -> Nat \union {Absent}]
          /\ pending = [s \in Runs |-> pending[s]]
      BY <1>0 DEF TypeOK
    <3>2. Absent \notin Nat
      BY KindsAssumption
    <3>3. QED
      BY <1>2, <2>1, <3>1, <3>2
  <2>5. Max2(low[r], range[r].start)' = from
    BY <1>1, <2>4 DEF Max2, from
  <2>6. Whole(Max2(low[r], range[r].start), pos[r] - 1)' = Whole(from, n)
    BY <1>1, <1>7, <1>e, <2>5 DEF Whole
  <2>7. Collected(r)'
    <3>1. /\ low'[r] % BundleSize = 0 /\ low'[r] <= pos'[r] /\ pos'[r] < low'[r] + BundleSize
          /\ range'[r].start <= low'[r] \/ range'[r].start = range'[r].first
      BY <1>1, <1>2, <1>11, <1>c, <1>e, <2>4, SizeAssumption
    <3>2. \A m \in Max2(low[r], range[r].start)'..(pos'[r] - 1) : Stored(m) => src[m] = "broken"
      BY <1>1, <1>8, <1>e, <2>5
    <3>3. QED
      BY <1>1, <1>4, <1>5, <1>7, <1>e, <2>3, <2>4, <2>6, <3>1, <3>2 DEF Collected
  <2>8. RunInv(r)'
    BY <1>1, <1>e, <2>4, <2>7 DEF RunInv
  <2>9. \A s \in Runs \ {r} : low'[s] = low[s] /\ pending'[s] = pending[s]
    BY <1>0, <2>1 DEF TypeOK
  <2>10. QED
    BY <1>0, <1>1, <1>f, <2>1, <2>2, <2>8, <2>9, StepOf
<1>12. QED
  BY <1>10, <1>11

\* A run ends that has copied its range.
LEMMA EndKept ==
  ASSUME CopyInv, NEW r \in Runs, TypeOK', RangeDone(r),
         pc' = [pc EXCEPT ![r] = "done"],
         UNCHANGED <<src, range, pos, low, pending, dest>>
  PROVE  CopyInv'
<1>1. StoredByOwner'
  BY StoreKept DEF CopyInv
<1>2. RangeDone(r)'
  BY DEF RangeDone, Copied, Stored, BundleOf
<1>3. pc'[r] = "done" /\ \A s \in Runs \ {r} : pc'[s] = pc[s]
  BY DEF CopyInv, TypeOK
<1>4. QED
  BY <1>1, <1>2, <1>3, StepOf

LEMMA EndStep ==
  ASSUME CopyInv, NEW r \in Runs, End(r)
  PROVE  CopyInv'
<1>1. /\ TypeOK /\ SourceInv /\ RunInv(r) /\ TypeOK' /\ range[r] \in Range
      /\ pos[r] >= range[r].stop /\ UNCHANGED <<src, range, pos, low, pending, dest, faults>>
      /\ pc' = [pc EXCEPT ![r] = "done"]
  BY TypeStep, AssignmentsAssumption DEF CopyInv, End, Next, Step, TypeOK
<1>2. /\ range[r].stop \in Nat /\ range[r].start \in Nat /\ pos[r] \in Nat
      /\ BundleOf(range[r].stop) \in Nat /\ BundleOf(range[r].stop) <= range[r].stop
  <2>1. range[r].stop \in Nat /\ range[r].start \in Nat /\ pos[r] \in Nat
    BY <1>1, SizeAssumption DEF Range, Numbers, TypeOK
  <2>2. QED
    BY <2>1, BundleBegins
<1>3. CASE low[r] = Absent
  <2>1. RangeDone(r)
    BY <1>1, <1>2, <1>3 DEF RunInv, Nothing, RangeDone
  <2>2. QED
    BY <1>1, <2>1, EndKept
<1>4. CASE low[r] # Absent
  <2>1. low[r] \in Nat /\ low[r] = BundleOf(pos[r])
    BY <1>1, <1>2, <1>4, BundleUnique DEF RunInv, Collected, TypeOK
  <2>2. BundleOf(range[r].stop) <= low[r]
    BY <1>1, <1>2, <2>1, BundleMonotone
  <2>3. RangeDone(r)
    BY <1>1, <1>2, <1>4, <2>1, <2>2 DEF RunInv, Collected, RangeDone
  <2>4. QED
    BY <1>1, <2>3, EndKept
<1>5. QED
  BY <1>3, <1>4

LEMMA CopyStep ==
  ASSUME CopyInv, [Next]_vars
  PROVE  CopyInv'
<1>0. TypeOK /\ TypeOK' /\ \A r \in Runs : range[r] \in Range
  BY TypeStep, AssignmentsAssumption DEF CopyInv, TypeOK
<1>1. ASSUME NEW r \in Runs, Begin(r)
      PROVE  CopyInv'
  <2>1. /\ range'[r].start \in Nat /\ pos'[r] = range'[r].start /\ low'[r] = Absent
        /\ pending'[r] = {} /\ pc'[r] # "done"
        /\ src' = src /\ dest' = dest /\ range' = range
        /\ pc'[r] = "read" => range[r].start % BundleSize = 0 \/ range[r].start = range[r].first
    BY <1>0, <1>1 DEF Begin, TypeOK, Range, Numbers
  <2>2. pc'[r] = "read" => RunInv(r)'
    BY <2>1 DEF RunInv, Nothing
  <2>3. \A s \in Runs \ {r} : /\ pc'[s] = pc[s] /\ pos'[s] = pos[s]
                              /\ low'[s] = low[s] /\ pending'[s] = pending[s]
    BY <1>0, <1>1 DEF Begin, TypeOK
  <2>4. StoredByOwner'
    BY <2>1, StoreKept DEF CopyInv
  <2>5. QED
    BY <1>0, <2>1, <2>2, <2>3, <2>4, StepOf
<1>2. ASSUME NEW r \in Runs, SkipNothing(r)
      PROVE  CopyInv'
  <2>1. /\ RunInv(r) /\ ~Stored(pos[r]) /\ pos[r] \in Numbers /\ pc[r] = "read"
        /\ pos' = [pos EXCEPT ![r] = pos[r] + 1]
        /\ UNCHANGED <<src, range, pc, low, pending, dest, faults>>
    BY <1>0, <1>2, SizeAssumption DEF CopyInv, SkipNothing, TypeOK, Range, Numbers
  <2>2. low[r] = Absent
    BY <2>1 DEF RunInv, Collected, Numbers
  <2>3. \A n \in range[r].start..pos[r] : ~Stored(n)
    BY <1>0, <2>1, <2>2 DEF RunInv, Nothing, Numbers, Range
  <2>4. pos'[r] = pos[r] + 1 /\ \A s \in Runs \ {r} : pos'[s] = pos[s]
    BY <1>0, <2>1 DEF TypeOK
  <2>5. RunInv(r)'
    BY <1>0, <2>1, <2>2, <2>3, <2>4 DEF RunInv, Nothing, Stored, Numbers, Range
  <2>6. StoredByOwner'
    BY <2>1, StoreKept DEF CopyInv
  <2>7. QED
    BY <1>0, <2>1, <2>4, <2>5, <2>6, StepOf
<1>3. ASSUME NEW r \in Runs, RefuseBlock(r)
      PROVE  CopyInv'
  <2>1. /\ pc'[r] = "failed" /\ \A s \in Runs \ {r} : pc'[s] = pc[s]
        /\ UNCHANGED <<src, range, pos, low, pending, dest>>
    BY <1>0, <1>3 DEF RefuseBlock, TypeOK
  <2>2. StoredByOwner'
    BY <2>1, StoreKept DEF CopyInv
  <2>3. QED
    BY <1>0, <2>1, <2>2, StepOf
<1>4. ASSUME NEW r \in Runs, Fault(r)
      PROVE  CopyInv'
  <2>1. /\ pc'[r] = "idle" /\ \A s \in Runs \ {r} : pc'[s] = pc[s]
        /\ UNCHANGED <<src, range, pos, low, pending, dest>>
    BY <1>0, <1>4 DEF Fault, TypeOK
  <2>2. StoredByOwner'
    BY <2>1, StoreKept DEF CopyInv
  <2>3. QED
    BY <1>0, <2>1, <2>2, StepOf
<1>5. CASE UNCHANGED vars
  <2>1. UNCHANGED <<src, range, pc, pos, low, pending, dest>>
    BY <1>5 DEF vars
  <2>2. SourceInv' /\ StoredByOwner' /\ RangeCopied'
    BY <2>1, StoreKept DEF CopyInv, SourceInv, RangeCopied, Stored, BundleOf
  <2>3. \A n \in Numbers : Copied(n) => Copied(n)'
    BY <2>1 DEF Copied, BundleOf
  <2>4. ASSUME NEW r \in Runs, pc'[r] = "read"
        PROVE  RunInv(r)'
    BY <2>1, <2>3, <2>4, RunKept DEF CopyInv
  <2>5. QED
    BY <1>0, <2>2, <2>4 DEF CopyInv
<1>6. QED
  BY <1>1, <1>2, <1>3, <1>4, <1>5, ReadStep, EndStep DEF Next, Step

\* A bundle that its owner stored begins where it may.
LEMMA OwnerWhole ==
  ASSUME TypeOK, NEW f \in Bundles, NEW r \in Runs, Owns(r, f)
  PROVE  Max2(f, range[r].start) \in BundleFirsts(f)
<1>1. range[r].start \in Nat /\ f \in Nat
  BY AssignmentsAssumption, SizeAssumption DEF TypeOK, Range, Numbers, Bundles
<1>2. CASE range[r].start <= f
  BY <1>1, <1>2 DEF Max2, BundleFirsts
<1>3. CASE range[r].start > f
  <2>1. /\ range[r].start \in f..(f + BundleSize - 1)
        /\ range[r].first = range[r].start
    BY <1>1, <1>3, SizeAssumption DEF Owns, LastOf
  <2>2. Max2(f, range[r].start) = range[r].start
    BY <1>1, <1>3 DEF Max2
  <2>3. QED
    BY <2>1, <2>2 DEF BundleFirsts
<1>4. QED
  BY <1>1, <1>2, <1>3

\* Whatever runs go on next to each other, fail or are killed and begin again, on
\* any ranges that do not overlap: a bundle of the destination holds all blocks
\* the source has in it, each recovered, or those from a block on that a run
\* was told is the first streamable one, and began at.
THEOREM WholeCorrect == Spec => []BundlesWhole
<1>1. CopyInv => BundlesWhole
  BY OwnerWhole DEF CopyInv, StoredByOwner, BundlesWhole, LastOf
<1>2. QED
  BY <1>1, CopyInit, CopyStep, PTL DEF Spec

\* No run is told of a first streamable block above the first one the source has.
Documented ==
  \A r \in Runs : range[r].first = 0
                  \/ \A n \in Numbers : Stored(n) => range[r].first <= n

\* As the help describes the flag (lines 60-66), for the chain's first
\* streamable block and nothing else, every stored bundle is whole.
THEOREM DocumentedWhole ==
  Spec => [](Documented =>
               \A f \in Bundles : dest[f] # {} => dest[f] = Whole(f, f + BundleSize - 1))
<1>1. ASSUME TypeOK, BundlesWhole, Documented, NEW f \in Bundles, dest[f] # {}
      PROVE  dest[f] = Whole(f, f + BundleSize - 1)
  <2>1. PICK c \in BundleFirsts(f) : dest[f] = Whole(c, f + BundleSize - 1)
    BY <1>1 DEF BundlesWhole
  <2>2. f \in Nat
    BY SizeAssumption DEF Bundles, Numbers
  <2>3. CASE c = f
    BY <2>1, <2>3
  <2>4. CASE c # f
    <3>1. PICK r \in Runs : range[r].first = c /\ c \in f..(f + BundleSize - 1)
      BY <2>4 DEF BundleFirsts
    <3>2. c # 0
      BY <2>2, <2>4, <3>1
    <3>3. \A n \in Numbers : Stored(n) => c <= n
      BY <1>1, <3>1, <3>2 DEF Documented
    <3>4. \A n : Stored(n) => n \in Numbers
      BY DEF Stored
    <3>5. {k \in c..(f + BundleSize - 1) : Stored(k)} = {k \in f..(f + BundleSize - 1) : Stored(k)}
      BY <2>2, <3>1, <3>3, <3>4, SizeAssumption DEF Numbers
    <3>6. QED
      BY <2>1, <3>5 DEF Whole
  <2>5. QED
    BY <2>3, <2>4
<1>2. Spec => []BundlesWhole
  BY WholeCorrect
<1>3. Spec => []TypeOK
  BY TypeCorrect
<1>4. TypeOK /\ BundlesWhole =>
        (Documented => \A f \in Bundles : dest[f] # {} => dest[f] = Whole(f, f + BundleSize - 1))
  BY <1>1
<1>5. QED
  BY <1>2, <1>3, <1>4, PTL

\* A run that ends well has copied its range up to the bundle its range ends in,
\* and nothing that others do later takes that back.
THEOREM RangeCorrect == Spec => []RangeCopied
<1>1. CopyInv => RangeCopied
  BY DEF CopyInv
<1>2. QED
  BY <1>1, CopyInit, CopyStep, PTL DEF Spec

----------------------------------------------------------------------------
(* Runs end: what is left of a run is lessened by its steps and by nobody  *)
(* else's, and begins anew only when the run is killed.                    *)

PhasesLeft(r) == IF pc[r] = "idle" THEN 2 ELSE IF pc[r] = "read" THEN 1 ELSE 0

BlocksLeft(r) == IF pos[r] < range[r].stop THEN range[r].stop - pos[r] ELSE 0

Lessens(r) ==
  \/ PhasesLeft(r)' < PhasesLeft(r)
  \/ PhasesLeft(r)' = PhasesLeft(r) /\ BlocksLeft(r)' < BlocksLeft(r)

LEMMA ProgressStep ==
  ASSUME TypeOK, NEW r \in Runs, Step(r)
  PROVE  Lessens(r) /\ \A s \in Runs \ {r} : UNCHANGED <<PhasesLeft(s), BlocksLeft(s)>>
<1> USE DEF PhasesLeft, BlocksLeft, Lessens
<1>1. /\ pc \in [Runs -> {"idle", "read", "refused", "failed", "done"}]
      /\ pos \in [Runs -> 0..(MaxBlock + 1)] /\ range \in [Runs -> Range]
  BY AssignmentsAssumption DEF TypeOK
<1>2. range' = range
  BY DEF Step, Begin, SkipNothing, ReadBlock, RefuseBlock, End
<1>3. range[r].stop \in Int /\ pos[r] \in Int
  BY <1>1, SizeAssumption DEF Range
<1>4. CASE Begin(r)
  BY <1>1, <1>2, <1>4 DEF Begin
<1>5. CASE SkipNothing(r) \/ ReadBlock(r)
  <2>1. pos[r] < range[r].stop /\ pos' = [pos EXCEPT ![r] = @ + 1] /\ pc' = pc
    BY <1>5 DEF SkipNothing, ReadBlock
  <2>2. pos'[r] = pos[r] + 1 /\ \A s \in Runs \ {r} : pos'[s] = pos[s]
    BY <1>1, <2>1
  <2>3. BlocksLeft(r)' < BlocksLeft(r)
    BY <1>2, <1>3, <2>1, <2>2
  <2>4. QED
    BY <1>2, <2>1, <2>2, <2>3
<1>6. CASE RefuseBlock(r) \/ End(r)
  <2>1. /\ pc[r] = "read" /\ pos' = pos
        /\ pc' = [pc EXCEPT ![r] = "failed"] \/ pc' = [pc EXCEPT ![r] = "done"]
    BY <1>6 DEF RefuseBlock, End
  <2>2. QED
    BY <1>1, <1>2, <2>1
<1>7. QED
  BY <1>4, <1>5, <1>6 DEF Step

\* Every step lessens what is left of one run, which is counted in natural
\* numbers, and leaves that of the others alone, or is the end of a process
\* that was killed: a run that is not killed for ever ends, whatever the
\* others do.
THEOREM EveryStepLessens ==
  Spec => /\ [](\A r \in Runs : PhasesLeft(r) \in Nat /\ BlocksLeft(r) \in Nat)
          /\ [][\E r \in Runs :
                  \/ Fault(r)
                  \/ /\ Lessens(r)
                     /\ \A s \in Runs \ {r} : UNCHANGED <<PhasesLeft(s), BlocksLeft(s)>>]_vars
<1>1. TypeOK => \A r \in Runs : PhasesLeft(r) \in Nat /\ BlocksLeft(r) \in Nat
  <2> SUFFICES ASSUME TypeOK, NEW r \in Runs
               PROVE  PhasesLeft(r) \in Nat /\ BlocksLeft(r) \in Nat
    OBVIOUS
  <2>1. pos \in [Runs -> 0..(MaxBlock + 1)] /\ range \in [Runs -> Range]
    BY AssignmentsAssumption DEF TypeOK
  <2>2. range[r].stop \in Int /\ pos[r] \in Int
    BY <2>1, SizeAssumption DEF Range
  <2>3. QED
    BY <2>2 DEF PhasesLeft, BlocksLeft
<1>2. TypeOK /\ [Next]_vars =>
        [\E r \in Runs :
           \/ Fault(r)
           \/ /\ Lessens(r)
              /\ \A s \in Runs \ {r} : UNCHANGED <<PhasesLeft(s), BlocksLeft(s)>>]_vars
  BY ProgressStep DEF Next
<1>3. QED
  BY <1>1, <1>2, TypeCorrect, PTL DEF Spec
=============================================================================
