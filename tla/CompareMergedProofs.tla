------------------------- MODULE CompareMergedProofs -------------------------
(***************************************************************************)
(* Theorems about CompareMerged, for every bundle size, any two stores and *)
(* any range: the types, that "Block ranges match." is printed exactly     *)
(* when the blocks of the range agree, that the summary counts each block  *)
(* once, that an early stop has counted the blocks up to the first         *)
(* difference, and that every step brings the end nearer.                  *)
(***************************************************************************)
EXTENDS CompareMerged, FiniteSetTheorems, TLAPS

\* What a block adds keeps the totals natural numbers.
LEMMA TallyNat ==
  ASSUME TypeOK, NEW n, Tally(n)
  PROVE  /\ totalCompared' \in Nat /\ totalDifferent' \in Nat
         /\ totalMissingInCur' \in Nat /\ totalMissingInRef' \in Nat
<1>1. (IF Differs(n) THEN 1 ELSE 0) \in {0, 1}
  OBVIOUS
<1>2. QED
  BY <1>1 DEF Tally, TypeOK, totals

\* Every step keeps the types.
LEMMA TypeStep ==
  ASSUME TypeOK, [Next]_vars
  PROVE  TypeOK'
<1> USE SizeAssumption DEF TypeOK, States, Numbers
<1>1. CASE PassBundle
  BY <1>1 DEF PassBundle, inputs, totals
<1>2. CASE OpenBundle
  <2>1. FirstOf(fileStart) \in startBlock..stopBlock
    BY <1>2 DEF OpenBundle, FirstOf, Max2
  <2>2. QED
    BY <1>2, <2>1 DEF OpenBundle, inputs, totals
<1>3. CASE CompareBlock
  <2>1. blockNum < stopBlock
    BY <1>3 DEF CompareBlock, LastOf, Min2
  <2>2. /\ totalCompared' \in Nat /\ totalDifferent' \in Nat
        /\ totalMissingInCur' \in Nat /\ totalMissingInRef' \in Nat
    BY <1>3, TallyNat DEF CompareBlock
  <2>3. /\ pc' \in States /\ blockNum' \in startBlock..stopBlock
        /\ UNCHANGED inputs /\ UNCHANGED <<fileStart, visited>>
    BY <1>3, <2>1 DEF CompareBlock
  <2>4. QED
    BY <2>2, <2>3 DEF inputs
<1>4. CASE CloseBundle
  BY <1>4 DEF CloseBundle, inputs, totals
<1>5. CASE EndWalk
  BY <1>5 DEF EndWalk, inputs, totals
<1>6. CASE PassCurrent
  BY <1>6 DEF PassCurrent, inputs, totals
<1>7. CASE OpenCurrent
  <2>1. FirstOf(fileStart) \in startBlock..stopBlock
    BY <1>7 DEF OpenCurrent, FirstOf, Max2
  <2>2. QED
    BY <1>7, <2>1 DEF OpenCurrent, inputs, totals
<1>8. CASE CountBlock
  <2>1. blockNum < stopBlock
    BY <1>8 DEF CountBlock, LastOf, Min2
  <2>2. QED
    BY <1>8, <2>1 DEF CountBlock, inputs
<1>9. CASE CloseCurrent
  BY <1>9 DEF CloseCurrent, inputs, totals
<1>10. CASE Summarize
  BY <1>10 DEF Summarize, inputs, totals
<1>11. CASE LoadOneblocks
  BY <1>11 DEF LoadOneblocks, inputs, totals
<1>12. CASE ScanBlock
  <2>1. /\ totalCompared' \in Nat /\ totalDifferent' \in Nat
        /\ totalMissingInCur' \in Nat /\ totalMissingInRef' \in Nat
    BY <1>12, TallyNat DEF ScanBlock
  <2>2. /\ pc' \in States /\ blockNum' \in startBlock..stopBlock
        /\ UNCHANGED inputs /\ UNCHANGED <<fileStart, visited>>
    BY <1>12 DEF ScanBlock
  <2>3. QED
    BY <2>1, <2>2 DEF inputs
<1>13. CASE EndScan
  BY <1>13 DEF EndScan, inputs, totals
<1>14. CASE ReadFails
  BY <1>14 DEF ReadFails, inputs, totals
<1>15. CASE UNCHANGED vars
  BY <1>15 DEF vars, inputs, totals
<1>16. QED
  BY <1>1, <1>2, <1>3, <1>4, <1>5, <1>6, <1>7, <1>8, <1>9, <1>10, <1>11,
     <1>12, <1>13, <1>14, <1>15 DEF Next

LEMMA TypeInit ==
  ASSUME Init
  PROVE  TypeOK
BY SizeAssumption, BlocksAssumption, OptionsAssumption
   DEF Init, TypeOK, States, Numbers

\* Every variable of the comparison has its type, for every bundle size, any
\* stores and any range.
THEOREM TypeCorrect == Spec => []TypeOK
BY TypeInit, TypeStep, PTL DEF Spec

----------------------------------------------------------------------------
(* The verdict.                                                            *)

Clean == totalDifferent = 0 /\ totalMissingInCur = 0 /\ totalMissingInRef = 0

\* The block numbers at which bundles start.
Boundary(f) == \E k \in Nat : f = k * BundleSize

\* Blocks of the bundles the walk over the reference has visited.
Covered(n) == \E f \in visited : n \in Bundle(f)

\* Blocks of those bundles but the one that is being compared.
CoveredBefore(n) == \E f \in visited \ {fileStart} : n \in Bundle(f)

\* Block numbers the tool has settled in each of its phases.
Settled(n) ==
  CASE pc = "walk" -> Covered(n)
    [] pc = "compare" ->
         CoveredBefore(n) \/ (n \in Bundle(fileStart) /\ n < blockNum)
    [] pc = "walkCurrent" -> Covered(n) \/ n < fileStart
    [] pc = "count" ->
         Covered(n) \/ n < fileStart \/ (n \in Bundle(fileStart) /\ n < blockNum)
    [] pc = "scan" -> n < blockNum
    [] pc = "load" -> FALSE
    [] OTHER -> TRUE

\* The totals tell whether the settled blocks agree.
TotalsTell == pc # "error" => (Clean <=> \A n \in InRange : Settled(n) => Agree(n))

\* Bundles start at boundaries; what the first walk left behind the
\* reference does not have.
WalkPosition ==
  /\ Boundary(fileStart)
  /\ \A f \in visited : Boundary(f)
  /\ pc = "load" => blockNum = startBlock
  /\ pc \in {"compare", "count"} => blockNum >= fileStart
  /\ pc = "compare" => fileStart \in visited
  /\ pc = "walk" => \A f \in visited : f < fileStart
  /\ pc = "compare" => \A f \in visited : f <= fileStart
  /\ pc = "walk" =>
       \A n \in InRange : n < fileStart => Covered(n) \/ ref[n] = Absent
  /\ pc = "compare" =>
       \A n \in InRange : n < fileStart => Covered(n) \/ ref[n] = Absent
  /\ pc \in {"walkCurrent", "count"} =>
       \A n \in InRange : Covered(n) \/ ref[n] = Absent
  /\ pc = "count" => fileStart \notin visited

VerdictInv == TypeOK /\ TotalsTell /\ WalkPosition

\* Two bundles do not overlap.
LEMMA BundlesDisjoint ==
  ASSUME NEW f, NEW g, Boundary(f), Boundary(g), f # g, NEW n \in Bundle(f)
  PROVE  n \notin Bundle(g)
<1>1. PICK j \in Nat : f = j * BundleSize
  BY DEF Boundary
<1>2. PICK k \in Nat : g = k * BundleSize
  BY DEF Boundary
<1>3. BundleSize \in Nat /\ BundleSize > 0
  BY SizeAssumption
<1>4. CASE j < k
  <2>1. k - j - 1 \in Nat
    BY <1>4
  <2>2. (k - j - 1) * BundleSize >= 0
    BY <2>1, <1>3
  <2>3. k * BundleSize = (k - j - 1) * BundleSize + j * BundleSize + BundleSize
    BY <1>3
  <2>4. f \in Nat /\ g \in Nat
    BY <1>1, <1>2, <1>3
  <2>5. QED
    BY <1>1, <1>2, <1>3, <2>2, <2>3, <2>4 DEF Bundle
<1>5. CASE k < j
  <2>1. j - k - 1 \in Nat
    BY <1>5
  <2>2. (j - k - 1) * BundleSize >= 0
    BY <2>1, <1>3
  <2>3. j * BundleSize = (j - k - 1) * BundleSize + k * BundleSize + BundleSize
    BY <1>3
  <2>4. f \in Nat /\ g \in Nat
    BY <1>1, <1>2, <1>3
  <2>5. QED
    BY <1>1, <1>2, <1>3, <2>2, <2>3, <2>4 DEF Bundle
<1>6. QED
  BY <1>1, <1>2, <1>4, <1>5

\* The bundle after a boundary starts at a boundary.
LEMMA NextBoundary ==
  ASSUME NEW f, Boundary(f)
  PROVE  Boundary(f + BundleSize)
<1>1. PICK k \in Nat : f = k * BundleSize
  BY DEF Boundary
<1>2. f + BundleSize = (k + 1) * BundleSize
  BY <1>1, SizeAssumption
<1>3. QED
  BY <1>2 DEF Boundary

\* What compareSingleBlock names is what the stores do not agree on.
LEMMA DiffersMeans ==
  ASSUME TypeOK, NEW n \in InRange, ref[n] # Absent, cur[n] # Absent
  PROVE  Differs(n) <=> ~Agree(n)
<1>1. n \in Numbers
  BY SizeAssumption DEF TypeOK, InRange, Numbers
<1>2. ref[n] \in Block /\ cur[n] \in Block
  BY <1>1 DEF TypeOK
<1>3. opts \in Flags
  BY DEF TypeOK
<1>4. QED
  BY <1>2, <1>3, AbsentAssumption DEF Differs, Agree, Right, Normalized, Block, Flags

\* A block leaves the totals clean exactly when the stores agree on it.
LEMMA TallyTells ==
  ASSUME TypeOK, NEW n \in InRange, Tally(n)
  PROVE  Clean' <=> Clean /\ Agree(n)
<1>1. CASE ref[n] = Absent \/ cur[n] = Absent
  BY <1>1 DEF Tally, totals, Clean, Agree, TypeOK
<1>2. CASE ref[n] # Absent /\ cur[n] # Absent
  <2>1. Differs(n) <=> ~Agree(n)
    BY <1>2, DiffersMeans
  <2>2. CASE Agree(n)
    BY <1>2, <2>1, <2>2 DEF Tally, Clean, TypeOK
  <2>3. CASE ~Agree(n)
    BY <1>2, <2>1, <2>3 DEF Tally, Clean, TypeOK
  <2>4. QED
    BY <2>2, <2>3
<1>3. QED
  BY <1>1, <1>2
\* Blocks settled on top of others do not change what the totals tell when
\* the stores agree on them.
LEMMA SettleAgreed ==
  ASSUME TotalsTell, pc # "error", UNCHANGED inputs, UNCHANGED totals,
         \A n \in InRange :
           /\ Settled(n) => Settled(n)'
           /\ Settled(n)' => Settled(n) \/ Agree(n)
  PROVE  TotalsTell'
<1>1. InRange' = InRange /\ \A n : Agree(n)' <=> Agree(n)
  BY DEF InRange, Agree, Right, inputs
<1>2. Clean' <=> Clean
  BY DEF Clean, totals
<1>3. Clean <=> \A n \in InRange : Settled(n) => Agree(n)
  BY DEF TotalsTell
<1>4. (\A n \in InRange : Settled(n) => Agree(n))
        <=> (\A n \in InRange : Settled(n)' => Agree(n))
  OBVIOUS
<1>5. QED
  BY <1>1, <1>2, <1>3, <1>4 DEF TotalsTell

\* One more block settled, and tallied.
LEMMA SettleOne ==
  ASSUME TotalsTell, pc # "error", UNCHANGED inputs,
         NEW b \in InRange, Clean' <=> Clean /\ Agree(b),
         \A n \in InRange : Settled(n)' <=> Settled(n) \/ n = b
  PROVE  TotalsTell'
<1>1. InRange' = InRange /\ \A n : Agree(n)' <=> Agree(n)
  BY DEF InRange, Agree, Right, inputs
<1>2. Clean <=> \A n \in InRange : Settled(n) => Agree(n)
  BY DEF TotalsTell
<1>3. (\A n \in InRange : Settled(n)' => Agree(n))
        <=> (\A n \in InRange : Settled(n) => Agree(n)) /\ Agree(b)
  OBVIOUS
<1>4. QED
  BY <1>1, <1>2, <1>3 DEF TotalsTell

\* A difference that ends the comparison early.
LEMMA StopEarly ==
  ASSUME TotalsTell, pc # "error", UNCHANGED inputs, pc' = "done",
         NEW b \in InRange, Clean' <=> Clean /\ Agree(b), ~Clean'
  PROVE  TotalsTell'
<1>1. InRange' = InRange /\ \A n : Agree(n)' <=> Agree(n)
  BY DEF InRange, Agree, Right, inputs
<1>2. Clean <=> \A n \in InRange : Settled(n) => Agree(n)
  BY DEF TotalsTell
<1>3. \E n \in InRange : ~Agree(n)
  BY <1>2
<1>4. \A n \in InRange : Settled(n)'
  BY DEF Settled
<1>5. QED
  BY <1>1, <1>3, <1>4 DEF TotalsTell

\* A step after which the same blocks are settled, or some more that neither
\* store has.
Kept ==
  /\ pc # "error"
  /\ UNCHANGED inputs /\ UNCHANGED totals
  /\ \A n \in InRange :
       /\ Settled(n) => Settled(n)'
       /\ Settled(n)' => Settled(n) \/ (ref[n] = Absent /\ cur[n] = Absent)

\* A step that settles one more block, or tallies it and stops.
Settles(b) ==
  /\ pc # "error"
  /\ UNCHANGED inputs
  /\ ~Settled(b) /\ Tally(b)
  /\ \/ pc' = "done" /\ opts.stopFirst /\ ~Clean'
     \/ pc' # "done" /\ \A n \in InRange : Settled(n)' <=> Settled(n) \/ n = b

\* Every step does one or the other.
LEMMA SettledStep ==
  ASSUME VerdictInv, [Next]_vars
  PROVE  pc' = "error" \/ Kept \/ \E b \in InRange : Settles(b)
<1> USE SizeAssumption DEF VerdictInv
<1>1. CASE PassBundle
  <2>1. \A n \in InRange : Settled(n)' <=> Settled(n)
    BY <1>1 DEF PassBundle, Settled, Covered, Bundle
  <2>2. QED
    BY <1>1, <2>1 DEF PassBundle, Kept
<1>2. CASE OpenBundle
  <2>2. CASE pc' # "error"
    <3>1. /\ pc = "walk" /\ pc' = "compare" /\ blockNum' = FirstOf(fileStart)
          /\ fileStart' = fileStart /\ visited' \ {fileStart} = visited
      BY <1>2, <2>2 DEF OpenBundle, WalkPosition, TypeOK
    <3>2. \A n \in InRange : ~(n \in Bundle(fileStart) /\ n < FirstOf(fileStart))
      BY DEF InRange, Bundle, FirstOf, Max2, TypeOK, Numbers
    <3>3. \A n \in InRange : Settled(n)' <=> Settled(n)
      BY <3>1, <3>2 DEF Settled, Covered, CoveredBefore, Bundle
    <3>4. QED
      BY <1>2, <3>1, <3>3 DEF OpenBundle, Kept
  <2>3. QED
    BY <2>2
<1>3. CASE CompareBlock
  <2>1. blockNum \in InRange /\ blockNum \in Bundle(fileStart)
    BY <1>3 DEF CompareBlock, LastOf, Min2, InRange, Bundle, TypeOK, WalkPosition, Numbers
  <2>2. ~Settled(blockNum)
    <3>1. \A f \in visited \ {fileStart} : blockNum \notin Bundle(f)
      BY <1>3, <2>1, BundlesDisjoint DEF WalkPosition
    <3>2. pc = "compare" /\ ~(blockNum < blockNum)
      BY <1>3 DEF CompareBlock, TypeOK, Numbers
    <3>3. QED
      BY <3>1, <3>2 DEF Settled, CoveredBefore
  <2>3. CASE pc' = "done"
    <3>1. opts.stopFirst /\ totalDifferent' > totalDifferent
      BY <1>3, <2>3 DEF CompareBlock
    <3>2. ~Clean'
      BY <3>1 DEF Clean, TypeOK
    <3>3. QED
      BY <1>3, <2>1, <2>2, <2>3, <3>1, <3>2 DEF CompareBlock, Settles
  <2>4. CASE pc' # "done"
    <3>1. /\ pc = "compare" /\ pc' = "compare" /\ blockNum' = blockNum + 1
          /\ UNCHANGED <<fileStart, visited>>
      BY <1>3, <2>4 DEF CompareBlock
    <3>2. \A n \in InRange : Settled(n)' <=> Settled(n) \/ n = blockNum
      BY <2>1, <3>1 DEF Settled, CoveredBefore, Bundle, InRange, TypeOK, Numbers
    <3>3. QED
      BY <1>3, <2>1, <2>2, <2>4, <3>2 DEF CompareBlock, Settles
  <2>5. QED
    BY <2>3, <2>4
<1>4. CASE CloseBundle
  <2>1. \A n \in InRange : n \in Bundle(fileStart) => n < blockNum
    BY <1>4 DEF CloseBundle, LastOf, Min2, InRange, Bundle, TypeOK, Numbers
  <2>2. /\ pc = "compare" /\ pc' = "walk" /\ visited' = visited
        /\ fileStart \in visited
    BY <1>4 DEF CloseBundle, WalkPosition
  <2>3. \A n \in InRange : Settled(n)' <=> Settled(n)
    BY <2>1, <2>2 DEF Settled, Covered, CoveredBefore, Bundle
  <2>4. QED
    BY <1>4, <2>3 DEF CloseBundle, Kept
<1>5. CASE EndWalk
  <2>1. \A n \in InRange : Settled(n)' <=> Settled(n)
    BY <1>5 DEF EndWalk, Settled, Covered, Bundle, InRange, TypeOK, Numbers
  <2>2. QED
    BY <1>5, <2>1 DEF EndWalk, Kept
<1>6. CASE PassCurrent
  <2>1. /\ pc = "walkCurrent" /\ pc' = "walkCurrent" /\ visited' = visited
        /\ fileStart' = fileStart + BundleSize /\ ~OnlyInCurrent(fileStart)
    BY <1>6 DEF PassCurrent
  <2>2. ASSUME NEW n \in InRange, n >= fileStart, n < fileStart + BundleSize, ~Covered(n)
        PROVE  ref[n] = Absent /\ cur[n] = Absent
    <3>1. n \in Bundle(fileStart) /\ n \in Numbers
      BY <2>2 DEF InRange, Bundle, Numbers, TypeOK
    <3>2. fileStart \notin visited /\ fileStart + BundleSize > startBlock
      BY <2>2, <3>1 DEF Covered, InRange, TypeOK, Numbers
    <3>3. ~FileExists(cur, fileStart)
      BY <2>1, <3>2 DEF OnlyInCurrent
    <3>4. cur[n] = Absent
      BY <3>1, <3>3 DEF FileExists
    <3>5. ref[n] = Absent
      BY <2>1, <2>2 DEF WalkPosition
    <3>6. QED
      BY <3>4, <3>5
  <2>3. \A n \in InRange :
          /\ Settled(n) => Settled(n)'
          /\ Settled(n)' => Settled(n) \/ (ref[n] = Absent /\ cur[n] = Absent)
    <3>1. ASSUME NEW n \in InRange
          PROVE  /\ Covered(n)' <=> Covered(n)
                 /\ n < fileStart => n < fileStart'
                 /\ n < fileStart' => n < fileStart \/ (n >= fileStart /\ n < fileStart + BundleSize)
      BY <2>1, <3>1 DEF Covered, Bundle, InRange, TypeOK, Numbers
    <3>2. \A n \in InRange : (Settled(n) <=> Covered(n) \/ n < fileStart)
                            /\ (Settled(n)' <=> Covered(n)' \/ n < fileStart')
      BY <2>1 DEF Settled
    <3>3. QED
      BY <2>2, <3>1, <3>2
  <2>4. QED
    BY <1>6, <2>1, <2>3 DEF PassCurrent, Kept
<1>7. CASE OpenCurrent
  <2>2. CASE pc' # "error"
    <3>1. /\ pc = "walkCurrent" /\ pc' = "count" /\ blockNum' = FirstOf(fileStart)
          /\ UNCHANGED <<fileStart, visited>>
      BY <1>7, <2>2 DEF OpenCurrent
    <3>2. \A n \in InRange : ~(n \in Bundle(fileStart) /\ n < FirstOf(fileStart))
      BY DEF InRange, Bundle, FirstOf, Max2, TypeOK, Numbers
    <3>3. \A n \in InRange : Settled(n)' <=> Settled(n)
      BY <3>1, <3>2 DEF Settled, Covered, Bundle
    <3>4. QED
      BY <1>7, <3>1, <3>3 DEF OpenCurrent, Kept
  <2>3. QED
    BY <2>2
<1>8. CASE CountBlock
  <2>1. blockNum \in InRange /\ blockNum \in Bundle(fileStart)
    BY <1>8 DEF CountBlock, LastOf, Min2, InRange, Bundle, TypeOK, WalkPosition, Numbers
  <2>2. ~Covered(blockNum)
    BY <1>8, <2>1, BundlesDisjoint DEF CountBlock, WalkPosition, Covered
  <2>3. ref[blockNum] = Absent
    BY <1>8, <2>1, <2>2 DEF CountBlock, WalkPosition
  <2>4. Tally(blockNum)
    BY <1>8, <2>3 DEF CountBlock, Tally, totals
  <2>5. ~Settled(blockNum)
    BY <1>8, <2>1, <2>2 DEF CountBlock, Settled, Bundle, TypeOK, Numbers
  <2>6. CASE pc' = "done"
    <3>1. opts.stopFirst /\ totalMissingInRef' = totalMissingInRef + 1
      BY <1>8, <2>6 DEF CountBlock
    <3>2. ~Clean'
      BY <3>1 DEF Clean, TypeOK
    <3>3. QED
      BY <1>8, <2>1, <2>4, <2>5, <2>6, <3>1, <3>2 DEF CountBlock, Settles
  <2>7. CASE pc' # "done"
    <3>1. /\ pc = "count" /\ pc' = "count" /\ blockNum' = blockNum + 1
          /\ UNCHANGED <<fileStart, visited>>
      BY <1>8, <2>7 DEF CountBlock
    <3>2. \A n \in InRange : Settled(n)' <=> Settled(n) \/ n = blockNum
      BY <2>1, <3>1 DEF Settled, Covered, Bundle, InRange, TypeOK, Numbers
    <3>3. QED
      BY <1>8, <2>1, <2>4, <2>5, <2>7, <3>2 DEF CountBlock, Settles
  <2>8. QED
    BY <2>6, <2>7
<1>9. CASE CloseCurrent
  <2>1. \A n \in InRange : n \in Bundle(fileStart) => n < blockNum
    BY <1>9 DEF CloseCurrent, LastOf, Min2, InRange, Bundle, TypeOK, Numbers
  <2>2. /\ pc = "count" /\ pc' = "walkCurrent" /\ visited' = visited
        /\ fileStart' = fileStart + BundleSize
    BY <1>9 DEF CloseCurrent
  <2>3. \A n \in InRange : Settled(n)' <=> Settled(n)
    BY <2>1, <2>2 DEF Settled, Covered, Bundle, InRange, TypeOK, Numbers
  <2>4. QED
    BY <1>9, <2>3 DEF CloseCurrent, Kept
<1>10. CASE Summarize
  <2>1. \A n \in InRange : Settled(n)' <=> Settled(n)
    BY <1>10 DEF Summarize, Settled, InRange, TypeOK, Numbers
  <2>2. QED
    BY <1>10, <2>1 DEF Summarize, Kept
<1>11. CASE LoadOneblocks
  <2>2. CASE pc' # "error"
    <3>1. pc = "load" /\ pc' = "scan" /\ blockNum' = startBlock
      BY <1>11, <2>2 DEF LoadOneblocks, WalkPosition
    <3>2. \A n \in InRange : Settled(n)' <=> Settled(n)
      BY <3>1 DEF Settled, InRange, TypeOK, Numbers
    <3>3. QED
      BY <1>11, <3>1, <3>2 DEF LoadOneblocks, Kept
  <2>3. QED
    BY <2>2
<1>12. CASE ScanBlock
  <2>1. blockNum \in InRange
    BY <1>12 DEF ScanBlock, InRange, TypeOK, Numbers
  <2>2. ~Settled(blockNum)
    BY <1>12 DEF ScanBlock, Settled, TypeOK, Numbers
  <2>3. CASE pc' = "done"
    <3>1. /\ opts.stopFirst
          /\ <<totalDifferent, totalMissingInCur, totalMissingInRef>>'
               # <<totalDifferent, totalMissingInCur, totalMissingInRef>>
      BY <1>12, <2>3 DEF ScanBlock
    <3>2. ~Clean'
      BY <1>12, <3>1 DEF ScanBlock, Tally, Clean, TypeOK, totals
    <3>3. QED
      BY <1>12, <2>1, <2>2, <2>3, <3>1, <3>2 DEF ScanBlock, Settles
  <2>4. CASE pc' # "done"
    <3>1. pc = "scan" /\ pc' = "scan" /\ blockNum' = blockNum + 1
      BY <1>12, <2>4 DEF ScanBlock
    <3>2. \A n \in InRange : Settled(n)' <=> Settled(n) \/ n = blockNum
      BY <2>1, <3>1 DEF Settled, InRange, TypeOK, Numbers
    <3>3. QED
      BY <1>12, <2>1, <2>2, <2>4, <3>2 DEF ScanBlock, Settles
  <2>5. QED
    BY <2>3, <2>4
<1>13. CASE EndScan
  <2>1. \A n \in InRange : Settled(n)' <=> Settled(n)
    BY <1>13 DEF EndScan, Settled, InRange, TypeOK, Numbers
  <2>2. QED
    BY <1>13, <2>1 DEF EndScan, Kept
<1>14. CASE ReadFails
  BY <1>14 DEF ReadFails
<1>15. CASE UNCHANGED vars
  <2>1. \A n \in InRange : Settled(n)' <=> Settled(n)
    BY <1>15 DEF vars, Settled, Covered, CoveredBefore, Bundle
  <2>2. CASE pc = "error"
    BY <1>15, <2>2 DEF vars
  <2>3. CASE pc # "error"
    BY <1>15, <2>1, <2>3 DEF vars, Kept
  <2>4. QED
    BY <2>2, <2>3
<1>16. QED
  BY <1>1, <1>2, <1>3, <1>4, <1>5, <1>6, <1>7, <1>8, <1>9, <1>10, <1>11,
     <1>12, <1>13, <1>14, <1>15 DEF Next

\* TotalsTell is preserved by every step.
LEMMA TotalsStep ==
  ASSUME VerdictInv, [Next]_vars
  PROVE  TotalsTell'
<1>1. TypeOK /\ TotalsTell
  BY DEF VerdictInv
<1>2. CASE pc' = "error"
  BY <1>2 DEF TotalsTell
<1>3. CASE Kept
  <2>1. \A n \in InRange : ref[n] = Absent /\ cur[n] = Absent => Agree(n)
    BY DEF Agree
  <2>2. QED
    BY <1>1, <1>3, <2>1, SettleAgreed DEF Kept
<1>4. CASE \E b \in InRange : Settles(b)
  <2>1. PICK b \in InRange : Settles(b)
    BY <1>4
  <2>2. Clean' <=> Clean /\ Agree(b)
    BY <1>1, <2>1, TallyTells DEF Settles
  <2>3. CASE pc' = "done"
    BY <1>1, <2>1, <2>2, <2>3, StopEarly DEF Settles
  <2>4. CASE pc' # "done"
    BY <1>1, <2>1, <2>2, <2>4, SettleOne DEF Settles
  <2>5. QED
    BY <2>3, <2>4
<1>5. QED
  BY <1>2, <1>3, <1>4, SettledStep

\* A block number of the range belongs to the bundle or to none left out: what
\* a passed bundle held the reference does not have.
LEMMA PassedAbsent ==
  ASSUME TypeOK, PassBundle, NEW n \in InRange,
         n >= fileStart, n < fileStart + BundleSize
  PROVE  ref[n] = Absent
<1>1. n \in Bundle(fileStart) /\ n \in Numbers /\ fileStart + BundleSize > startBlock
  BY SizeAssumption DEF TypeOK, InRange, Numbers, Bundle
<1>2. ~FileExists(ref, fileStart)
  BY <1>1, SizeAssumption DEF PassBundle, TypeOK, Numbers
<1>3. QED
  BY <1>1, <1>2 DEF FileExists

\* WalkPosition is preserved by every step.
LEMMA PositionStep ==
  ASSUME VerdictInv, [Next]_vars
  PROVE  WalkPosition'
<1> USE SizeAssumption DEF VerdictInv
<1>0. Boundary(fileStart) /\ Boundary(fileStart + BundleSize)
  BY NextBoundary DEF WalkPosition
<1>a. ASSUME UNCHANGED inputs
      PROVE  InRange' = InRange /\ ref' = ref
  BY <1>a DEF inputs, InRange
<1>1. CASE PassBundle
  <2>1. /\ pc = "walk" /\ pc' = "walk" /\ visited' = visited
        /\ fileStart' = fileStart + BundleSize /\ InRange' = InRange /\ ref' = ref
    BY <1>1, <1>a DEF PassBundle
  <2>2. \A n \in InRange : n < fileStart' => Covered(n) \/ ref[n] = Absent
    <3>1. ASSUME NEW n \in InRange, n < fileStart + BundleSize
          PROVE  Covered(n) \/ ref[n] = Absent
      <4>1. CASE n < fileStart
        BY <2>1, <4>1 DEF WalkPosition
      <4>2. CASE n >= fileStart
        BY <1>1, <3>1, <4>2, PassedAbsent
      <4>3. QED
        BY <4>1, <4>2 DEF InRange, TypeOK, Numbers
    <3>2. QED
      BY <2>1, <3>1
  <2>3. \A n : Covered(n)' <=> Covered(n)
    BY <2>1 DEF Covered, Bundle
  <2>4. \A f \in visited' : f < fileStart'
    BY <2>1 DEF WalkPosition, TypeOK
  <2>5. Boundary(fileStart)' /\ \A f \in visited' : Boundary(f)
    BY <1>0, <2>1 DEF WalkPosition, Boundary
  <2>6. QED
    BY <2>1, <2>2, <2>3, <2>4, <2>5 DEF WalkPosition, Boundary
<1>2. CASE OpenBundle
  <2>1. /\ pc = "walk" /\ pc' \in {"compare", "error"}
        /\ fileStart' = fileStart /\ visited' = visited \union {fileStart}
        /\ pc' = "compare" => blockNum' = FirstOf(fileStart)
        /\ InRange' = InRange /\ ref' = ref
    BY <1>2, <1>a DEF OpenBundle
  <2>2. FirstOf(fileStart) >= fileStart
    BY DEF FirstOf, Max2, TypeOK, Numbers
  <2>3. \A n : Covered(n) => Covered(n)'
    BY <2>1 DEF Covered, Bundle
  <2>4. \A n \in InRange : n < fileStart => Covered(n)' \/ ref[n] = Absent
    BY <2>1, <2>3 DEF WalkPosition
  <2>5. \A f \in visited' : f <= fileStart /\ Boundary(f)
    BY <1>0, <2>1 DEF WalkPosition, TypeOK
  <2>6. QED
    BY <1>0, <2>1, <2>2, <2>4, <2>5 DEF WalkPosition, Boundary
<1>3. CASE CompareBlock
  <2>1. /\ pc = "compare" /\ pc' \in {"compare", "done"}
        /\ UNCHANGED <<fileStart, visited>> /\ InRange' = InRange /\ ref' = ref
        /\ pc' = "compare" => blockNum' = blockNum + 1
    BY <1>3, <1>a DEF CompareBlock
  <2>2. pc' = "compare" => blockNum' >= fileStart
    BY <2>1 DEF WalkPosition, TypeOK, Numbers
  <2>3. \A n : Covered(n)' <=> Covered(n)
    BY <2>1 DEF Covered, Bundle
  <2>4. QED
    BY <2>1, <2>2, <2>3 DEF WalkPosition, Boundary
<1>4. CASE CloseBundle
  <2>1. /\ pc = "compare" /\ pc' = "walk" /\ visited' = visited
        /\ fileStart' = fileStart + BundleSize /\ InRange' = InRange /\ ref' = ref
    BY <1>4, <1>a DEF CloseBundle
  <2>2. \A n : Covered(n)' <=> Covered(n)
    BY <2>1 DEF Covered, Bundle
  <2>3. ASSUME NEW n \in InRange, n < fileStart + BundleSize
        PROVE  Covered(n) \/ ref[n] = Absent
    <3>1. CASE n < fileStart
      BY <2>1, <3>1 DEF WalkPosition
    <3>2. CASE n >= fileStart
      <4>1. n \in Bundle(fileStart)
        BY <2>3, <3>2 DEF Bundle, InRange, TypeOK, Numbers
      <4>2. QED
        BY <2>1, <4>1 DEF WalkPosition, Covered
    <3>3. QED
      BY <3>1, <3>2 DEF InRange, TypeOK, Numbers
  <2>4. \A f \in visited : f < fileStart'
    BY <2>1 DEF WalkPosition, TypeOK
  <2>5. Boundary(fileStart)' /\ \A f \in visited' : Boundary(f)
    BY <1>0, <2>1 DEF WalkPosition, Boundary
  <2>6. QED
    BY <2>1, <2>2, <2>3, <2>4, <2>5 DEF WalkPosition, Boundary
<1>5. CASE EndWalk
  <2>1. /\ pc = "walk" /\ pc' = "walkCurrent" /\ visited' = visited
        /\ fileStart >= stopBlock /\ fileStart' = 0 /\ InRange' = InRange /\ ref' = ref
    BY <1>5, <1>a DEF EndWalk
  <2>2. \A n \in InRange : Covered(n) \/ ref[n] = Absent
    BY <2>1 DEF WalkPosition, InRange, TypeOK, Numbers
  <2>3. \A n : Covered(n)' <=> Covered(n)
    BY <2>1 DEF Covered, Bundle
  <2>4. \E k \in Nat : 0 = k * BundleSize
    <3>1. 0 \in Nat /\ 0 = 0 * BundleSize
      OBVIOUS
    <3>2. QED
      BY <3>1
  <2>5. \A f \in visited' : Boundary(f)
    BY <2>1 DEF WalkPosition
  <2>6. QED
    BY <2>1, <2>2, <2>3, <2>4, <2>5 DEF WalkPosition, Boundary
<1>6. CASE PassCurrent \/ CloseCurrent
  <2>1. /\ pc \in {"walkCurrent", "count"} /\ pc' = "walkCurrent" /\ visited' = visited
        /\ fileStart' = fileStart + BundleSize /\ InRange' = InRange /\ ref' = ref
    BY <1>6, <1>a DEF PassCurrent, CloseCurrent
  <2>2. \A n : Covered(n)' <=> Covered(n)
    BY <2>1 DEF Covered, Bundle
  <2>3. Boundary(fileStart)' /\ \A f \in visited' : Boundary(f)
    BY <1>0, <2>1 DEF WalkPosition, Boundary
  <2>4. QED
    BY <2>1, <2>2, <2>3 DEF WalkPosition, Boundary
<1>7. CASE OpenCurrent
  <2>1. /\ pc = "walkCurrent" /\ pc' \in {"count", "error"}
        /\ UNCHANGED <<fileStart, visited>> /\ fileStart \notin visited
        /\ pc' = "count" => blockNum' = FirstOf(fileStart)
        /\ InRange' = InRange /\ ref' = ref
    BY <1>7, <1>a DEF OpenCurrent, OnlyInCurrent
  <2>2. FirstOf(fileStart) >= fileStart
    BY DEF FirstOf, Max2, TypeOK, Numbers
  <2>3. \A n : Covered(n)' <=> Covered(n)
    BY <2>1 DEF Covered, Bundle
  <2>4. QED
    BY <2>1, <2>2, <2>3 DEF WalkPosition, Boundary
<1>8. CASE CountBlock
  <2>1. /\ pc = "count" /\ pc' \in {"count", "done"}
        /\ UNCHANGED <<fileStart, visited>> /\ InRange' = InRange /\ ref' = ref
        /\ pc' = "count" => blockNum' = blockNum + 1
    BY <1>8, <1>a DEF CountBlock
  <2>2. pc' = "count" => blockNum' >= fileStart
    BY <2>1 DEF WalkPosition, TypeOK, Numbers
  <2>3. \A n : Covered(n)' <=> Covered(n)
    BY <2>1 DEF Covered, Bundle
  <2>4. QED
    BY <2>1, <2>2, <2>3 DEF WalkPosition, Boundary
<1>9. CASE Summarize \/ LoadOneblocks \/ ScanBlock \/ EndScan \/ ReadFails
  <2>1. pc' \in {"done", "error", "scan"} /\ UNCHANGED <<fileStart, visited>>
    BY <1>9 DEF Summarize, LoadOneblocks, ScanBlock, EndScan, ReadFails
  <2>2. QED
    BY <2>1 DEF WalkPosition, Boundary
<1>10. CASE UNCHANGED vars
  <2>1. \A n : Covered(n)' <=> Covered(n)
    BY <1>10 DEF vars, Covered, Bundle
  <2>2. InRange' = InRange
    BY <1>10, <1>a DEF vars
  <2>3. QED
    BY <1>10, <2>1, <2>2 DEF vars, inputs, WalkPosition, Boundary
<1>11. QED
  BY <1>1, <1>2, <1>3, <1>4, <1>5, <1>6, <1>7, <1>8, <1>9, <1>10 DEF Next

LEMMA VerdictInit ==
  ASSUME Init
  PROVE  VerdictInv
<1>1. TypeOK
  BY TypeInit
<1>2. pc \in {"walk", "load"} /\ fileStart = 0 /\ visited = {} /\ blockNum = startBlock
  BY DEF Init
<1>3. WalkPosition
  <2>1. 0 \in Nat /\ 0 = 0 * BundleSize
    BY SizeAssumption
  <2>2. Boundary(fileStart)
    BY <1>2, <2>1 DEF Boundary
  <2>3. \A n \in InRange : ~(n < fileStart)
    BY <1>1, <1>2 DEF InRange, TypeOK, Numbers
  <2>4. QED
    BY <1>2, <2>2, <2>3 DEF WalkPosition
<1>4. \A n \in InRange : ~Settled(n)
  BY <1>2 DEF Settled, Covered
<1>5. Clean
  BY DEF Init, Clean
<1>6. QED
  BY <1>1, <1>3, <1>4, <1>5 DEF VerdictInv, TotalsTell

\* "Block ranges match." is printed exactly when the stores agree on every
\* block of the range: for every bundle size, any stores, any range, and
\* whatever the flags.
THEOREM VerdictRight == Spec => []VerdictCorrect
<1>1. VerdictInv /\ [Next]_vars => VerdictInv'
  BY TypeStep, TotalsStep, PositionStep DEF VerdictInv
<1>2. VerdictInv => VerdictCorrect
  BY DEF VerdictInv, TotalsTell, Settled, VerdictCorrect, Match, Clean
<1>3. QED
  BY VerdictInit, <1>1, <1>2, PTL DEF Spec

----------------------------------------------------------------------------
(* The summary.                                                            *)

SettledBlocks == {n \in InRange : Settled(n)}

\* How many of the blocks settled so far are in a set.
Count(blocks) == Cardinality(SettledBlocks \cap blocks)

\* The totals count the settled blocks, each once.
TotalsCount ==
  /\ totalCompared = Count(InBoth)
  /\ totalDifferent = Count(Different)
  /\ totalMissingInCur = Count(OnlyInRef)
  /\ totalMissingInRef = Count(OnlyInCur)

\* A walk that is stopped has counted the block it was stopped at as well.
SummaryInv ==
  VerdictInv /\ (pc # "error" /\ ~(pc = "done" /\ opts.stopFirst) => TotalsCount)

\* Of the blocks in a set, a block newly settled adds one if it is among them.
LEMMA CountOneMore ==
  ASSUME TypeOK, NEW S, NEW b \in InRange, b \notin SettledBlocks
  PROVE  Cardinality((SettledBlocks \union {b}) \cap S)
           = Count(S) + (IF b \in S THEN 1 ELSE 0)
<1>1. IsFiniteSet(SettledBlocks \cap S)
  <2>1. IsFiniteSet(InRange)
    BY FS_Interval DEF InRange, TypeOK, Numbers
  <2>2. SettledBlocks \cap S \subseteq InRange
    BY DEF SettledBlocks
  <2>3. QED
    BY <2>1, <2>2, FS_Subset
<1>2. Cardinality(SettledBlocks \cap S) \in Nat
  BY <1>1, FS_CardinalityType
<1>3. CASE b \in S
  <2>1. (SettledBlocks \union {b}) \cap S = (SettledBlocks \cap S) \union {b}
    BY <1>3
  <2>2. b \notin SettledBlocks \cap S
    OBVIOUS
  <2>3. QED
    BY <1>1, <1>2, <1>3, <2>1, <2>2, FS_AddElement DEF Count
<1>4. CASE b \notin S
  <2>1. (SettledBlocks \union {b}) \cap S = SettledBlocks \cap S
    BY <1>4
  <2>2. QED
    BY <1>2, <1>4, <2>1 DEF Count
<1>5. QED
  BY <1>3, <1>4

\* The classes of blocks are those of the stores, which do not change.
LEMMA ClassesStay ==
  ASSUME UNCHANGED inputs
  PROVE  UNCHANGED <<InRange, InBoth, Different, OnlyInRef, OnlyInCur>>
<1>1. UNCHANGED InRange
  BY DEF inputs, InRange
<1>2. UNCHANGED <<InBoth, OnlyInRef, OnlyInCur>>
  BY <1>1 DEF inputs, InBoth, OnlyInRef, OnlyInCur
<1>3. \A n : Agree(n)' <=> Agree(n)
  BY DEF inputs, Agree, Right
<1>4. QED
  BY <1>1, <1>2, <1>3 DEF Different

\* SummaryInv is inductive.
LEMMA SummaryStep ==
  ASSUME SummaryInv, [Next]_vars
  PROVE  SummaryInv'
<1>0. VerdictInv /\ VerdictInv' /\ TypeOK
  BY TypeStep, TotalsStep, PositionStep DEF SummaryInv, VerdictInv
<1>a. pc = "done" => pc' = "done"
  BY DEF Next, PassBundle, OpenBundle, CompareBlock, CloseBundle, EndWalk, PassCurrent,
         OpenCurrent, CountBlock, CloseCurrent, Summarize, LoadOneblocks, ScanBlock,
         EndScan, ReadFails, vars
<1>1. CASE pc' = "error"
  BY <1>0, <1>1 DEF SummaryInv
<1>2. CASE Kept
  <2>1. UNCHANGED <<InRange, InBoth, Different, OnlyInRef, OnlyInCur>>
    BY <1>2, ClassesStay DEF Kept
  <2>2. /\ SettledBlocks' \cap InBoth = SettledBlocks \cap InBoth
        /\ SettledBlocks' \cap Different = SettledBlocks \cap Different
        /\ SettledBlocks' \cap OnlyInRef = SettledBlocks \cap OnlyInRef
        /\ SettledBlocks' \cap OnlyInCur = SettledBlocks \cap OnlyInCur
    BY <1>2, <2>1 DEF Kept, SettledBlocks, InBoth, Different, OnlyInRef, OnlyInCur
  <2>3. UNCHANGED totals /\ opts' = opts /\ pc # "error"
    BY <1>2 DEF Kept, inputs
  <2>4. TotalsCount => TotalsCount'
    BY <2>1, <2>2, <2>3 DEF TotalsCount, Count, totals
  <2>5. QED
    BY <1>0, <1>a, <2>3, <2>4 DEF SummaryInv
<1>3. CASE \E b \in InRange : Settles(b)
  <2>1. PICK b \in InRange : Settles(b)
    BY <1>3
  <2>2. opts' = opts /\ pc # "error"
    BY <2>1 DEF Settles, inputs
  <2>3. CASE pc' = "done"
    <3>1. opts.stopFirst
      BY <2>1, <2>3 DEF Settles
    <3>2. QED
      BY <1>0, <2>2, <2>3, <3>1 DEF SummaryInv
  <2>4. CASE pc' # "done"
    <3>1. UNCHANGED <<InRange, InBoth, Different, OnlyInRef, OnlyInCur>>
      BY <2>1, ClassesStay DEF Settles
    <3>2. SettledBlocks' = SettledBlocks \union {b} /\ b \notin SettledBlocks
      BY <2>1, <2>4, <3>1 DEF Settles, SettledBlocks
    <3>3. /\ Count(InBoth)' = Count(InBoth) + (IF b \in InBoth THEN 1 ELSE 0)
          /\ Count(Different)' = Count(Different) + (IF b \in Different THEN 1 ELSE 0)
          /\ Count(OnlyInRef)' = Count(OnlyInRef) + (IF b \in OnlyInRef THEN 1 ELSE 0)
          /\ Count(OnlyInCur)' = Count(OnlyInCur) + (IF b \in OnlyInCur THEN 1 ELSE 0)
      BY <1>0, <3>1, <3>2, CountOneMore DEF Count
    <3>4. /\ totalCompared' = totalCompared + (IF b \in InBoth THEN 1 ELSE 0)
          /\ totalDifferent' = totalDifferent + (IF b \in Different THEN 1 ELSE 0)
          /\ totalMissingInCur' = totalMissingInCur + (IF b \in OnlyInRef THEN 1 ELSE 0)
          /\ totalMissingInRef' = totalMissingInRef + (IF b \in OnlyInCur THEN 1 ELSE 0)
      <4>1. CASE ref[b] = Absent \/ cur[b] = Absent
        BY <1>0, <2>1, <4>1 DEF Settles, Tally, totals, TypeOK, InBoth, Different, OnlyInRef, OnlyInCur
      <4>2. CASE ref[b] # Absent /\ cur[b] # Absent
        <5>1. Differs(b) <=> ~Agree(b)
          BY <1>0, <4>2, DiffersMeans
        <5>2. QED
          BY <1>0, <2>1, <4>2, <5>1 DEF Settles, Tally, TypeOK, InBoth, Different, OnlyInRef, OnlyInCur
      <4>3. QED
        BY <4>1, <4>2
    <3>5. TotalsCount => TotalsCount'
      BY <3>3, <3>4 DEF TotalsCount
    <3>6. QED
      BY <1>0, <1>a, <2>2, <2>4, <3>5 DEF SummaryInv
  <2>5. QED
    BY <2>3, <2>4
<1>4. QED
  BY <1>0, <1>1, <1>2, <1>3, SettledStep

\* Nothing is counted at the beginning.
LEMMA SummaryInit ==
  ASSUME Init
  PROVE  SummaryInv
<1>1. \A n \in InRange : ~Settled(n)
  <2>1. pc \in {"walk", "load"} /\ visited = {}
    BY DEF Init
  <2>2. QED
    BY <2>1 DEF Settled, Covered
<1>2. SettledBlocks = {}
  BY <1>1 DEF SettledBlocks
<1>3. \A S : Cardinality(SettledBlocks \cap S) = 0
  <2> SUFFICES ASSUME NEW S PROVE Cardinality(SettledBlocks \cap S) = 0
    OBVIOUS
  <2>1. SettledBlocks \cap S = {}
    BY <1>2
  <2>2. QED
    BY <2>1, FS_EmptySet
<1>4. TotalsCount
  BY <1>3 DEF Init, TotalsCount, Count
<1>5. QED
  BY <1>4, VerdictInit DEF SummaryInv

\* Unless it stops early, the summary counts every block of the range once,
\* in its class.
THEOREM SummaryRight == Spec => []SummaryExact
<1>1. Init => SummaryInv
  BY SummaryInit
<1>2. SummaryInv /\ [Next]_vars => SummaryInv'
  BY SummaryStep
<1>3. SummaryInv => SummaryExact
  <2> SUFFICES ASSUME SummaryInv, pc = "done", ~opts.stopFirst PROVE SummaryExact
    BY DEF SummaryExact
  <2>1. SettledBlocks = InRange
    BY DEF SettledBlocks, Settled
  <2>2. /\ SettledBlocks \cap InBoth = InBoth /\ SettledBlocks \cap Different = Different
        /\ SettledBlocks \cap OnlyInRef = OnlyInRef /\ SettledBlocks \cap OnlyInCur = OnlyInCur
    BY <2>1 DEF InBoth, Different, OnlyInRef, OnlyInCur
  <2>3. TotalsCount
    BY DEF SummaryInv
  <2>4. QED
    BY <2>2, <2>3 DEF TotalsCount, Count, SummaryExact, InBoth, Different, OnlyInRef, OnlyInCur
<1>4. QED
  BY <1>1, <1>2, <1>3, PTL DEF Spec

----------------------------------------------------------------------------
(* The early stop.                                                         *)

\* What the walk has visited are bundles of the reference, and of those that
\* it has passed it has left out none of the range.
Visits ==
  /\ \A f \in visited : FileExists(ref, f)
  /\ pc \in {"walk", "compare"} =>
       \A f \in Nat : /\ Boundary(f) /\ f < fileStart
                      /\ FileExists(ref, f) /\ f + BundleSize > startBlock
                      => f \in visited

\* As long as it goes on, a tool that is to stop has met no difference, and in
\* the scan of one-block files no missing block either.
StopInv ==
  /\ SummaryInv
  /\ Visits
  /\ pc \notin {"done", "error"} /\ opts.stopFirst => totalDifferent = 0
  /\ pc \in {"load", "scan"} /\ opts.stopFirst => Clean
  /\ StopsAtFirst

\* Between two boundaries there is a bundle.
LEMMA BoundaryGap ==
  ASSUME NEW f, NEW g, Boundary(f), Boundary(g), f < g
  PROVE  f + BundleSize <= g
<1>1. PICK j \in Nat : f = j * BundleSize
  BY DEF Boundary
<1>2. PICK k \in Nat : g = k * BundleSize
  BY DEF Boundary
<1>3. BundleSize \in Nat /\ BundleSize > 0
  BY SizeAssumption
<1>4. j < k
  <2>1. SUFFICES ASSUME k <= j PROVE FALSE
    BY <1>1, <1>2
  <2>2. j - k \in Nat
    BY <2>1
  <2>3. (j - k) * BundleSize >= 0
    BY <2>2, <1>3
  <2>4. j * BundleSize = (j - k) * BundleSize + k * BundleSize
    BY <1>3
  <2>5. j * BundleSize \in Nat /\ k * BundleSize \in Nat /\ (j - k) * BundleSize \in Int
    BY <1>3
  <2>6. QED
    BY <1>1, <1>2, <2>3, <2>4, <2>5
<1>5. k - j - 1 \in Nat
  BY <1>4
<1>6. (k - j - 1) * BundleSize >= 0
  BY <1>5, <1>3
<1>7. k * BundleSize = (k - j - 1) * BundleSize + j * BundleSize + BundleSize
  BY <1>3
<1>8. j * BundleSize \in Nat /\ k * BundleSize \in Nat /\ (k - j - 1) * BundleSize \in Nat
  BY <1>3, <1>5, <1>6
<1>9. QED
  BY <1>1, <1>2, <1>3, <1>6, <1>7, <1>8

\* A boundary with a bundle of the reference makes its blocks blocks of a
\* bundle of the reference.
LEMMA InRefBundle ==
  ASSUME TypeOK, NEW n \in InRange, NEW f, Boundary(f), n \in Bundle(f), FileExists(ref, f)
  PROVE  BundleInRef(n)
<1>1. PICK k \in Nat : f = k * BundleSize
  BY DEF Boundary
<1>2. n \in Nat /\ n <= MaxBlock /\ BundleSize \in Nat /\ BundleSize > 0 /\ MaxBlock \in Nat
  BY SizeAssumption DEF TypeOK, InRange, Numbers
<1>3. f \in Nat
  BY <1>1, <1>2
<1>4. f <= n
  BY <1>2, <1>3 DEF Bundle
<1>5. k <= k * BundleSize
  <2>1. k * (BundleSize - 1) >= 0
    <3>1. BundleSize - 1 \in Nat
      BY <1>2
    <3>2. QED
      BY <3>1
  <2>2. k * BundleSize = k * (BundleSize - 1) + k
    BY <1>2
  <2>3. k * BundleSize \in Nat /\ k * (BundleSize - 1) \in Int
    BY <1>2
  <2>4. QED
    BY <2>1, <2>2, <2>3
<1>6. k \in Numbers
  BY <1>1, <1>2, <1>3, <1>4, <1>5 DEF Numbers
<1>7. QED
  BY <1>1, <1>6 DEF BundleInRef

\* Visits is preserved by every step.
LEMMA VisitsStep ==
  ASSUME VerdictInv, Visits, [Next]_vars
  PROVE  Visits'
<1> USE DEF VerdictInv
<1>0. Boundary(fileStart) /\ fileStart \in Nat /\ BundleSize \in Nat
  BY SizeAssumption DEF WalkPosition, TypeOK
<1>a. ASSUME NEW f \in Nat, Boundary(f), f < fileStart + BundleSize
      PROVE  f < fileStart \/ f = fileStart
  <2>1. CASE fileStart < f
    <3>1. fileStart + BundleSize <= f
      BY <1>0, <1>a, <2>1, BoundaryGap
    <3>2. QED
      BY <1>0, <1>a, <3>1
  <2>2. QED
    BY <1>0, <2>1
<1>1. CASE PassBundle
  <2>1. /\ pc = "walk" /\ pc' = "walk" /\ visited' = visited /\ ref' = ref
        /\ startBlock' = startBlock /\ fileStart' = fileStart + BundleSize
        /\ ~FileExists(ref, fileStart) \/ fileStart + BundleSize <= startBlock
    BY <1>1 DEF PassBundle, inputs
  <2>2. \A f \in visited' : FileExists(ref', f)
    BY <2>1 DEF Visits
  <2>3. ASSUME NEW f \in Nat, Boundary(f), f < fileStart',
               FileExists(ref', f), f + BundleSize > startBlock'
        PROVE  f \in visited'
    <3>1. f # fileStart
      BY <1>0, <2>1, <2>3 DEF TypeOK, Numbers
    <3>2. f < fileStart
      BY <1>a, <2>1, <2>3, <3>1
    <3>3. QED
      BY <2>1, <2>3, <3>2 DEF Visits
  <2>4. QED
    BY <2>2, <2>3 DEF Visits, Boundary
<1>2. CASE OpenBundle
  <2>1. /\ pc = "walk" /\ visited' = visited \union {fileStart} /\ ref' = ref
        /\ startBlock' = startBlock /\ fileStart' = fileStart /\ FileExists(ref, fileStart)
    BY <1>2 DEF OpenBundle, inputs
  <2>2. QED
    BY <2>1 DEF Visits, Boundary
<1>3. CASE CloseBundle
  <2>1. /\ pc = "compare" /\ pc' = "walk" /\ visited' = visited /\ ref' = ref
        /\ startBlock' = startBlock /\ fileStart' = fileStart + BundleSize
        /\ fileStart \in visited
    BY <1>3 DEF CloseBundle, inputs, WalkPosition
  <2>2. \A f \in visited' : FileExists(ref', f)
    BY <2>1 DEF Visits
  <2>3. ASSUME NEW f \in Nat, Boundary(f), f < fileStart',
               FileExists(ref', f), f + BundleSize > startBlock'
        PROVE  f \in visited'
    <3>1. f < fileStart \/ f = fileStart
      BY <1>a, <2>1, <2>3
    <3>2. QED
      BY <2>1, <2>3, <3>1 DEF Visits
  <2>4. QED
    BY <2>2, <2>3 DEF Visits, Boundary
<1>4. CASE CompareBlock \/ UNCHANGED vars
  <2>1. /\ visited' = visited /\ ref' = ref /\ startBlock' = startBlock
        /\ fileStart' = fileStart
        /\ pc' \in {"walk", "compare"} => pc \in {"walk", "compare"}
    BY <1>4 DEF CompareBlock, vars, inputs
  <2>2. QED
    BY <2>1 DEF Visits, Boundary
<1>5. CASE \/ EndWalk \/ PassCurrent \/ OpenCurrent \/ CountBlock \/ CloseCurrent \/ Summarize
           \/ LoadOneblocks \/ ScanBlock \/ EndScan \/ ReadFails
  <2>1. visited' = visited /\ ref' = ref /\ pc' \notin {"walk", "compare"}
    BY <1>5 DEF EndWalk, PassCurrent, OpenCurrent, CountBlock, CloseCurrent, Summarize,
                LoadOneblocks, ScanBlock, EndScan, ReadFails, inputs
  <2>2. QED
    BY <2>1 DEF Visits
<1>6. QED
  BY <1>1, <1>2, <1>3, <1>4, <1>5 DEF Next

\* The blocks the stop finds settled are those before it: the totals, and the
\* block that differs, are what StopsAtFirst says.
LEMMA StopHere ==
  ASSUME TypeOK, TotalsCount, UNCHANGED inputs, blockNum \in InRange, Tally(blockNum),
         totalDifferent = 0, totalDifferent' > totalDifferent,
         \A n \in InBoth \union OnlyInRef : Settled(n) <=> n < blockNum,
         \A n \in OnlyInCur : Settled(n) <=> n < blockNum /\ BundleInRef(n)
  PROVE  StopsAtFirst'
<1> DEFINE b == blockNum
<1>0. \A n \in InRange : n \in Nat
  BY DEF InRange, TypeOK, Numbers
<1>1. ref[b] # Absent /\ cur[b] # Absent /\ Differs(b)
  BY DEF Tally, totals, TypeOK
<1>2. b \in Different /\ b \in InBoth
  BY <1>1, DiffersMeans DEF Different, InBoth
<1>3. /\ totalDifferent' = 1 /\ totalCompared' = totalCompared + 1
      /\ totalMissingInCur' = totalMissingInCur /\ totalMissingInRef' = totalMissingInRef
  BY <1>1 DEF Tally, TypeOK
<1>4. IsFiniteSet(InRange)
  BY FS_Interval DEF InRange, TypeOK, Numbers
<1>5. \A n \in Different : b <= n
  <2>1. IsFiniteSet(SettledBlocks \cap Different)
    <3>1. SettledBlocks \cap Different \subseteq InRange
      BY DEF SettledBlocks
    <3>2. QED
      BY <1>4, <3>1, FS_Subset
  <2>2. Cardinality(SettledBlocks \cap Different) = 0
    BY DEF TotalsCount, Count
  <2>3. SettledBlocks \cap Different = {}
    BY <2>1, <2>2, FS_EmptySet
  <2>4. \A n \in Different : n \in InRange /\ n \in InBoth
    BY DEF Different, InBoth
  <2>5. \A n \in Different : ~(n < b)
    BY <2>3, <2>4 DEF SettledBlocks
  <2>6. QED
    BY <1>0, <2>4, <2>5
<1>6. totalCompared' = Cardinality({n \in InBoth : n <= b})
  <2>1. SettledBlocks \cap InBoth = {n \in InBoth : n < b}
    BY DEF SettledBlocks, InBoth
  <2>2. IsFiniteSet({n \in InBoth : n < b})
    <3>1. {n \in InBoth : n < b} \subseteq InRange
      BY DEF InBoth
    <3>2. QED
      BY <1>4, <3>1, FS_Subset
  <2>3. {n \in InBoth : n <= b} = {n \in InBoth : n < b} \union {b}
    BY <1>0, <1>2 DEF InBoth
  <2>4. b \notin {n \in InBoth : n < b}
    BY <1>0
  <2>5. Cardinality({n \in InBoth : n < b} \union {b}) = Cardinality({n \in InBoth : n < b}) + 1
    BY <2>2, <2>4, FS_AddElement
  <2>6. totalCompared = Cardinality({n \in InBoth : n < b})
    BY <2>1 DEF TotalsCount, Count
  <2>7. QED
    BY <1>3, <2>3, <2>5, <2>6
<1>7. totalMissingInCur' = Cardinality({n \in OnlyInRef : n < b})
  <2>1. SettledBlocks \cap OnlyInRef = {n \in OnlyInRef : n < b}
    BY DEF SettledBlocks, OnlyInRef
  <2>2. QED
    BY <1>3, <2>1 DEF TotalsCount, Count
<1>8. totalMissingInRef' = Cardinality({n \in OnlyInCur : n < b /\ BundleInRef(n)})
  <2>1. SettledBlocks \cap OnlyInCur = {n \in OnlyInCur : n < b /\ BundleInRef(n)}
    BY DEF SettledBlocks, OnlyInCur
  <2>2. QED
    BY <1>3, <2>1 DEF TotalsCount, Count
<1>9. UNCHANGED <<InRange, InBoth, Different, OnlyInRef, OnlyInCur>>
  BY ClassesStay
<1>10. \A n : BundleInRef(n)' <=> BundleInRef(n)
  BY DEF inputs, BundleInRef, FileExists, Bundle
<1>11. {n \in OnlyInCur : n < b /\ BundleInRef(n)}' = {n \in OnlyInCur : n < blockNum' /\ BundleInRef(n)}
  BY <1>9, <1>10
<1>12. /\ \A n \in Different' : b <= n
       /\ totalDifferent' = 1
       /\ totalCompared' = Cardinality({n \in InBoth' : n <= b})
       /\ totalMissingInCur' = Cardinality({n \in OnlyInRef' : n < b})
       /\ totalMissingInRef' = Cardinality({n \in OnlyInCur' : n < b /\ BundleInRef(n)'})
  BY <1>3, <1>5, <1>6, <1>7, <1>8, <1>9, <1>10
<1>13. b \in Different'
  BY <1>2, <1>9
<1>14. QED
  BY <1>12, <1>13 DEF StopsAtFirst

\* At a block that is being compared, the blocks settled are those before it,
\* in bundles of the reference.
LEMMA ComparedBefore ==
  ASSUME VerdictInv, Visits, pc = "compare", blockNum < fileStart + BundleSize
  PROVE  /\ \A n \in InBoth \union OnlyInRef : Settled(n) <=> n < blockNum
         /\ \A n \in OnlyInCur : Settled(n) <=> n < blockNum /\ BundleInRef(n)
<1> USE SizeAssumption DEF VerdictInv
<1>0. /\ Boundary(fileStart) /\ fileStart \in visited /\ fileStart \in Nat
      /\ BundleSize \in Nat /\ blockNum \in Nat /\ blockNum >= fileStart
      /\ \A f \in visited : Boundary(f) /\ f \in Nat /\ f <= fileStart
      /\ \A n \in InRange : n \in Nat /\ n >= startBlock
      /\ startBlock \in Nat
  BY DEF WalkPosition, TypeOK, InRange, Numbers
<1>1. \A n \in InRange : Settled(n) <=> CoveredBefore(n) \/ (n \in Bundle(fileStart) /\ n < blockNum)
  BY DEF Settled
<1>2. ASSUME NEW n \in InRange, CoveredBefore(n)
      PROVE  n < blockNum /\ BundleInRef(n)
  <2>1. PICK f \in visited \ {fileStart} : n \in Bundle(f)
    BY <1>2 DEF CoveredBefore
  <2>2. f + BundleSize <= fileStart
    <3>1. Boundary(f) /\ Boundary(fileStart) /\ f < fileStart
      BY <1>0, <2>1
    <3>2. QED
      BY <3>1, BoundaryGap
  <2>3. FileExists(ref, f)
    BY DEF Visits
  <2>4. BundleInRef(n)
    BY <1>0, <2>1, <2>3, InRefBundle
  <2>5. n < blockNum
    BY <1>0, <2>1, <2>2 DEF Bundle
  <2>6. QED
    BY <2>4, <2>5
<1>3. ASSUME NEW n \in InRange, n \in Bundle(fileStart)
      PROVE  BundleInRef(n)
  <2>1. FileExists(ref, fileStart)
    BY <1>0 DEF Visits
  <2>2. QED
    BY <1>0, <1>3, <2>1, InRefBundle
<1>4. ASSUME NEW n \in InRange, n < blockNum, n >= fileStart
      PROVE  n \in Bundle(fileStart)
  BY <1>0, <1>4 DEF Bundle
<1>5. ASSUME NEW n \in InRange, n < fileStart, ref[n] # Absent
      PROVE  CoveredBefore(n)
  <2>1. Covered(n)
    BY <1>5 DEF WalkPosition
  <2>2. PICK f \in visited : n \in Bundle(f)
    BY <2>1 DEF Covered
  <2>3. f # fileStart
    BY <1>0, <1>5, <2>2 DEF Bundle
  <2>4. QED
    BY <2>2, <2>3 DEF CoveredBefore
<1>6. ASSUME NEW n \in InRange, n < fileStart, BundleInRef(n)
      PROVE  CoveredBefore(n)
  <2>1. PICK k \in Numbers : n \in Bundle(k * BundleSize) /\ FileExists(ref, k * BundleSize)
    BY <1>6 DEF BundleInRef
  <2>2. k * BundleSize \in Nat /\ Boundary(k * BundleSize)
    BY DEF Boundary, Numbers
  <2>3. k * BundleSize < fileStart /\ k * BundleSize + BundleSize > startBlock
    BY <1>0, <1>6, <2>1, <2>2 DEF Bundle
  <2>4. k * BundleSize \in visited
    BY <2>1, <2>2, <2>3 DEF Visits
  <2>5. k * BundleSize # fileStart
    BY <1>0, <2>2, <2>3
  <2>6. QED
    BY <2>1, <2>4, <2>5 DEF CoveredBefore
<1>7. \A n \in InBoth \union OnlyInRef : n \in InRange /\ ref[n] # Absent
  BY DEF InBoth, OnlyInRef
<1>8. \A n \in OnlyInCur : n \in InRange
  BY DEF OnlyInCur
<1>9. \A n \in InRange : n < fileStart \/ n >= fileStart
  BY <1>0
<1>10. QED
  BY <1>1, <1>2, <1>3, <1>4, <1>5, <1>6, <1>7, <1>8, <1>9

\* What a block adds can only raise the totals.
LEMMA TallyRaises ==
  ASSUME TypeOK, NEW n, Tally(n)
  PROVE  totalDifferent' >= totalDifferent
<1>1. (IF Differs(n) THEN 1 ELSE 0) \in {0, 1}
  OBVIOUS
<1>2. QED
  BY <1>1 DEF Tally, TypeOK, totals

\* StopInv is inductive.
LEMMA StopStep ==
  ASSUME StopInv, [Next]_vars
  PROVE  StopInv'
<1> USE DEF StopInv
<1>1. VerdictInv /\ TypeOK /\ TypeOK'
  BY TypeStep DEF SummaryInv, VerdictInv
<1>2. SummaryInv' /\ Visits'
  BY <1>1, SummaryStep, VisitsStep
<1>3. CASE UNCHANGED vars
  <2>1. UNCHANGED <<inputs, pc, totals>>
    BY <1>3 DEF vars
  <2>2. UNCHANGED <<InRange, InBoth, Different, OnlyInRef, OnlyInCur>>
    BY <2>1, ClassesStay
  <2>3. \A n : BundleInRef(n)' <=> BundleInRef(n)
    BY <2>1 DEF inputs, BundleInRef, FileExists, Bundle
  <2>4. StopsAtFirst'
    BY <2>1, <2>2, <2>3 DEF StopsAtFirst, totals, inputs
  <2>5. QED
    BY <1>2, <2>1, <2>4 DEF totals, inputs, Clean
<1>4. CASE CompareBlock
  <2>1. /\ pc = "compare" /\ UNCHANGED inputs /\ Tally(blockNum)
        /\ blockNum < LastOf(fileStart)
        /\ \/ pc' = "done" /\ opts.stopFirst /\ totalDifferent' > totalDifferent
           \/ pc' = "compare" /\ ~(opts.stopFirst /\ totalDifferent' > totalDifferent)
    BY <1>4 DEF CompareBlock
  <2>2. opts' = opts
    BY <2>1 DEF inputs
  <2>3. CASE pc' = "done"
    <3>1. blockNum \in InRange /\ blockNum < fileStart + BundleSize
      <4>1. /\ startBlock \in Nat /\ stopBlock \in Nat /\ fileStart \in Nat
            /\ BundleSize \in Nat /\ blockNum \in startBlock..stopBlock
        BY <1>1, SizeAssumption DEF TypeOK, Numbers
      <4>2. blockNum < stopBlock /\ blockNum < fileStart + BundleSize
        BY <2>1, <4>1 DEF LastOf, Min2
      <4>3. QED
        BY <4>1, <4>2 DEF InRange
    <3>2. /\ \A n \in InBoth \union OnlyInRef : Settled(n) <=> n < blockNum
          /\ \A n \in OnlyInCur : Settled(n) <=> n < blockNum /\ BundleInRef(n)
      BY <1>1, <2>1, <3>1, ComparedBefore
    <3>3. TotalsCount
      BY <2>1 DEF SummaryInv
    <3>4. StopsAtFirst'
      BY <1>1, <2>1, <2>3, <3>1, <3>2, <3>3, StopHere
    <3>5. QED
      BY <1>2, <2>3, <3>4
  <2>4. CASE pc' = "compare"
    <3>1. opts.stopFirst => totalDifferent' = totalDifferent
      BY <1>1, <2>1, <2>4, TallyRaises DEF TypeOK
    <3>2. QED
      BY <1>2, <2>1, <2>2, <2>4, <3>1 DEF StopsAtFirst
  <2>5. QED
    BY <2>1, <2>3, <2>4
<1>5. CASE ScanBlock
  <2>1. /\ pc = "scan" /\ UNCHANGED inputs /\ Tally(blockNum) /\ blockNum < stopBlock
        /\ \/ pc' = "done" /\ opts.stopFirst
           \/ /\ pc' = "scan"
              /\ opts.stopFirst =>
                   <<totalDifferent, totalMissingInCur, totalMissingInRef>>'
                     = <<totalDifferent, totalMissingInCur, totalMissingInRef>>
    BY <1>5 DEF ScanBlock
  <2>2. opts' = opts
    BY <2>1 DEF inputs
  <2>3. CASE pc' = "done" /\ totalDifferent' = 0
    BY <1>2, <2>3 DEF StopsAtFirst
  <2>4. CASE pc' = "done" /\ totalDifferent' # 0
    <3>1. blockNum \in InRange
      BY <1>1, <2>1 DEF InRange, TypeOK, Numbers
    <3>2. \A n \in InRange : Settled(n) <=> n < blockNum
      BY <2>1 DEF Settled
    <3>3. Clean /\ TotalsCount
      BY <2>1, <2>4 DEF SummaryInv
    <3>4. SettledBlocks \cap OnlyInCur = {}
      <4>1. IsFiniteSet(InRange)
        BY <1>1, FS_Interval DEF InRange, TypeOK, Numbers
      <4>2. IsFiniteSet(SettledBlocks \cap OnlyInCur)
        <5>1. SettledBlocks \cap OnlyInCur \subseteq InRange
          BY DEF SettledBlocks
        <5>2. QED
          BY <4>1, <5>1, FS_Subset
      <4>3. Cardinality(SettledBlocks \cap OnlyInCur) = 0
        BY <3>3 DEF TotalsCount, Count, Clean
      <4>4. QED
        BY <4>2, <4>3, FS_EmptySet
    <3>5. \A n \in OnlyInCur : ~Settled(n) /\ ~(n < blockNum)
      BY <3>2, <3>4 DEF SettledBlocks, OnlyInCur
    <3>6. \A n \in InBoth \union OnlyInRef : Settled(n) <=> n < blockNum
      BY <3>2 DEF InBoth, OnlyInRef
    <3>7. totalDifferent = 0 /\ totalDifferent' > totalDifferent
      BY <1>1, <2>4, <3>3 DEF Clean, TypeOK
    <3>8. StopsAtFirst'
      BY <1>1, <2>1, <3>1, <3>3, <3>5, <3>6, <3>7, StopHere
    <3>9. QED
      BY <1>2, <2>4, <3>8
  <2>5. CASE pc' = "scan"
    BY <1>2, <2>1, <2>2, <2>5 DEF StopsAtFirst, Clean
  <2>6. QED
    BY <2>1, <2>3, <2>4, <2>5
<1>6. CASE CountBlock
  <2>1. /\ pc = "count" /\ pc' \in {"count", "done"}
        /\ opts' = opts /\ totalDifferent' = totalDifferent
    BY <1>6 DEF CountBlock, inputs
  <2>2. QED
    BY <1>2, <2>1 DEF StopsAtFirst
<1>7. CASE \/ PassBundle \/ OpenBundle \/ CloseBundle \/ EndWalk \/ PassCurrent \/ OpenCurrent
           \/ CloseCurrent \/ Summarize \/ LoadOneblocks \/ EndScan \/ ReadFails
  <2>1. /\ pc \notin {"done", "error"} /\ opts' = opts /\ UNCHANGED totals
        /\ pc' \in {"load", "scan"} => pc \in {"load", "scan"}
    BY <1>7 DEF PassBundle, OpenBundle, CloseBundle, EndWalk, PassCurrent, OpenCurrent,
                CloseCurrent, Summarize, LoadOneblocks, EndScan, ReadFails, inputs
  <2>2. QED
    BY <1>1, <1>2, <2>1 DEF StopsAtFirst, totals, Clean
<1>8. QED
  BY <1>3, <1>4, <1>5, <1>6, <1>7 DEF Next

\* A tool that was told to stop at the first difference, and met one, has
\* counted exactly the lowest difference of the range and the blocks before
\* it: for every bundle size, any stores, any range and whatever else the
\* flags are.
THEOREM StopRight == Spec => []StopsAtFirst
<1>1. Init => StopInv
  BY SummaryInit DEF Init, StopInv, Visits, TypeOK, Clean, StopsAtFirst
<1>2. StopInv /\ [Next]_vars => StopInv'
  BY StopStep
<1>3. StopInv => StopsAtFirst
  BY DEF StopInv
<1>4. QED
  BY <1>1, <1>2, <1>3, PTL DEF Spec

----------------------------------------------------------------------------
(* The tool ends: every step lessens what is left to do, which is counted  *)
(* in phases, in numbers of the walk and in numbers of the bundle, and     *)
(* cannot be lessened for ever.                                            *)

PhasesLeft ==
  IF pc \in {"done", "error"} THEN 0
  ELSE IF pc \in {"walk", "compare", "load"} THEN 2 ELSE 1

FilesLeft == IF fileStart < stopBlock THEN stopBlock - fileStart ELSE 0

BlocksLeft ==
  IF pc \in {"compare", "count", "scan"} THEN stopBlock - blockNum ELSE MaxBlock + 2

Lessens ==
  \/ PhasesLeft' < PhasesLeft
  \/ PhasesLeft' = PhasesLeft /\ FilesLeft' < FilesLeft
  \/ PhasesLeft' = PhasesLeft /\ FilesLeft' = FilesLeft /\ BlocksLeft' < BlocksLeft

\* A bundle that is open is one of the range.
ProgressInv == TypeOK /\ (pc \in {"compare", "count"} => fileStart < stopBlock)

LEMMA ProgressStep ==
  ASSUME ProgressInv, Next
  PROVE  ProgressInv' /\ Lessens
<1> USE SizeAssumption DEF ProgressInv, PhasesLeft, FilesLeft, BlocksLeft, Lessens
<1>1. TypeOK /\ TypeOK'
  BY TypeStep
<1>2. /\ BundleSize \in Nat \ {0} /\ MaxBlock \in Nat /\ fileStart \in Nat /\ pc \in States
      /\ startBlock \in Nat /\ blockNum \in Nat /\ stopBlock \in Nat
      /\ blockNum <= stopBlock /\ stopBlock <= MaxBlock + 1
  BY <1>1 DEF TypeOK, Numbers
<1>3. CASE PassBundle \/ PassCurrent
  BY <1>1, <1>2, <1>3 DEF PassBundle, PassCurrent, inputs
<1>4. CASE OpenBundle
  <2>1. /\ pc \in {"walk", "walkCurrent"} /\ fileStart < stopBlock
        /\ UNCHANGED <<fileStart, stopBlock>>
        /\ \/ pc' = "error"
           \/ pc = "walk" /\ pc' = "compare"
           \/ pc = "walkCurrent" /\ pc' = "count"
    BY <1>4 DEF OpenBundle, inputs
  <2>2. blockNum' \in Nat
    BY <1>1 DEF TypeOK, Numbers
  <2>3. CASE pc' = "error"
    BY <1>1, <1>2, <2>1, <2>3
  <2>4. CASE pc' # "error"
    <3>1. PhasesLeft' = PhasesLeft
      BY <2>1, <2>4
    <3>2. FilesLeft' = FilesLeft
      BY <2>1
    <3>3. BlocksLeft' < BlocksLeft
      <4>1. BlocksLeft = MaxBlock + 2
        BY <2>1
      <4>2. BlocksLeft' = stopBlock - blockNum'
        BY <2>1, <2>4
      <4>3. QED
        BY ONLY <1>2, <2>2, <4>1, <4>2
    <3>4. QED
      BY <1>1, <2>1, <3>1, <3>2, <3>3
  <2>5. QED
    BY <2>3, <2>4
<1>5. CASE OpenCurrent
  <2>1. /\ pc \in {"walk", "walkCurrent"} /\ fileStart < stopBlock
        /\ UNCHANGED <<fileStart, stopBlock>>
        /\ \/ pc' = "error"
           \/ pc = "walk" /\ pc' = "compare"
           \/ pc = "walkCurrent" /\ pc' = "count"
    BY <1>5 DEF OpenCurrent, inputs
  <2>2. blockNum' \in Nat
    BY <1>1 DEF TypeOK, Numbers
  <2>3. CASE pc' = "error"
    BY <1>1, <1>2, <2>1, <2>3
  <2>4. CASE pc' # "error"
    <3>1. PhasesLeft' = PhasesLeft
      BY <2>1, <2>4
    <3>2. FilesLeft' = FilesLeft
      BY <2>1
    <3>3. BlocksLeft' < BlocksLeft
      <4>1. BlocksLeft = MaxBlock + 2
        BY <2>1
      <4>2. BlocksLeft' = stopBlock - blockNum'
        BY <2>1, <2>4
      <4>3. QED
        BY ONLY <1>2, <2>2, <4>1, <4>2
    <3>4. QED
      BY <1>1, <2>1, <3>1, <3>2, <3>3
  <2>5. QED
    BY <2>3, <2>4
<1>6. CASE CompareBlock
  <2>1. /\ pc \in {"compare", "count"} /\ UNCHANGED <<fileStart, stopBlock>>
        /\ pc' = "done" \/ (pc' = pc /\ blockNum' = blockNum + 1)
    BY <1>6 DEF CompareBlock, inputs
  <2>2. QED
    BY <1>1, <1>2, <2>1
<1>7. CASE CountBlock
  <2>1. /\ pc \in {"compare", "count"} /\ UNCHANGED <<fileStart, stopBlock>>
        /\ pc' = "done" \/ (pc' = pc /\ blockNum' = blockNum + 1)
    BY <1>7 DEF CountBlock, inputs
  <2>2. QED
    BY <1>1, <1>2, <2>1
<1>8. CASE CloseBundle \/ CloseCurrent
  BY <1>1, <1>2, <1>8 DEF CloseBundle, CloseCurrent, inputs
<1>9. CASE EndWalk \/ Summarize \/ LoadOneblocks \/ EndScan \/ ReadFails
  BY <1>1, <1>2, <1>9 DEF EndWalk, Summarize, LoadOneblocks, EndScan, ReadFails, inputs
<1>10. CASE ScanBlock
  BY <1>1, <1>2, <1>10 DEF ScanBlock, inputs
<1>11. QED
  BY <1>3, <1>4, <1>5, <1>6, <1>7, <1>8, <1>9, <1>10 DEF Next

\* Every step lessens what is left, which is counted in natural numbers: the
\* tool takes no infinite number of steps, whatever the stores hold.
THEOREM EveryStepLessens ==
  Spec => /\ [](PhasesLeft \in Nat /\ FilesLeft \in Nat /\ BlocksLeft \in Nat)
          /\ [][Lessens]_vars
<1>1. Init => ProgressInv
  BY TypeInit DEF Init, ProgressInv
<1>2. ProgressInv /\ [Next]_vars => ProgressInv'
  <2>1. CASE Next
    BY <2>1, ProgressStep
  <2>2. CASE UNCHANGED vars
    BY <2>2, TypeStep DEF vars, inputs, ProgressInv
  <2>3. QED
    BY <2>1, <2>2
<1>3. ProgressInv /\ [Next]_vars => [Lessens]_vars
  BY ProgressStep
<1>4. ProgressInv => PhasesLeft \in Nat /\ FilesLeft \in Nat /\ BlocksLeft \in Nat
  BY SizeAssumption DEF ProgressInv, TypeOK, Numbers, PhasesLeft, FilesLeft, BlocksLeft
<1>5. QED
  BY <1>1, <1>2, <1>3, <1>4, PTL DEF Spec
=============================================================================
