------------------------- MODULE CaptiveFetchProofs -------------------------
(***************************************************************************)
(* Proofs about CaptiveFetch, for every set of command lines, every pipe   *)
(* and every number of ledgers and failures: what a process writes and     *)
(* keeps, what its reader is given, which lines are repeated, and what     *)
(* becomes of a truncated cursor.                                          *)
(***************************************************************************)
EXTENDS CaptiveFetch, FiniteSetTheorems, TLAPS

USE LaunchesAssumption, BoundsAssumption, FileAssumption
    DEF LaunchOptions, Starts

----------------------------------------------------------------------------
(* Type correctness.                                                       *)

\* Every step keeps the type of every variable.
LEMMA TypeStep ==
  ASSUME TypeOK, [Next]_vars
  PROVE  TypeOK'
<1> USE DEF TypeOK, States, lineVars, procVars, Exit, Goto, NextBlock
<1>1. ASSUME NEW o \in Launches, Launch(o)
      PROVE  TypeOK'
  BY <1>1 DEF Launch, StartBlock
<1>2. CASE LoadCursor
  BY <1>2 DEF LoadCursor, ResumeSeq, UsesCursor
<1>3. CASE RefuseCursor
  BY <1>3 DEF RefuseCursor
<1>4. CASE PrepareRange
  BY <1>4 DEF PrepareRange
<1>5. CASE RefuseRange
  BY <1>5 DEF RefuseRange
<1>6. CASE CheckContext
  BY <1>6 DEF CheckContext
<1>7. CASE GetBlock
  BY <1>7 DEF GetBlock
<1>8. CASE RefuseBlock
  BY <1>8 DEF RefuseBlock
<1>9. CASE AbortCall
  BY <1>9 DEF AbortCall
<1>10. CASE Handle
  BY <1>10 DEF Handle
<1>11. CASE SkipSave
  BY <1>11 DEF SkipSave
<1>12. CASE SaveTruncate
  BY <1>12 DEF SaveTruncate
<1>13. CASE SaveWrite
  BY <1>13 DEF SaveWrite
<1>14. CASE CallFails
  BY <1>14 DEF CallFails
<1>15. CASE SaveFails
  BY <1>15 DEF SaveFails
<1>16. CASE Cancel
  BY <1>16 DEF Cancel
<1>17. CASE Crash
  BY <1>17 DEF Crash
<1>18. CASE PodDies
  BY <1>18 DEF PodDies
<1>19. CASE CloseLedger
  BY <1>19 DEF CloseLedger
<1>20. CASE ReadLine
  <2>1. read + 1 \in 1..Len(fired) /\ fired[read + 1] \in Nat
    BY <1>20 DEF ReadLine
  <2>2. delivered' \subseteq Nat /\ newest' \in Nat
    BY <1>20, <2>1 DEF ReadLine
  <2>3. QED
    BY <1>20, <2>1, <2>2 DEF ReadLine
<1>21. CASE UNCHANGED vars
  BY <1>21 DEF vars
<1>22. QED
  BY <1>1, <1>2, <1>3, <1>4, <1>5, <1>6, <1>7, <1>8, <1>9, <1>10, <1>11, <1>12,
     <1>13, <1>14, <1>15, <1>16, <1>17, <1>18, <1>19, <1>20, <1>21
     DEF Next, Run, Fault

\* Every variable keeps its type whatever happens.
THEOREM TypeCorrect == Spec => []TypeOK
<1>1. Init => TypeOK
  BY DEF Init, TypeOK, States
<1>2. TypeOK /\ [Next]_vars => TypeOK'
  BY TypeStep
<1>3. QED
  BY <1>1, <1>2, PTL DEF Spec

----------------------------------------------------------------------------
(* No ledger is skipped on standard output.                                *)

\* A block the process may fire next without skipping one.
Follows(n) == n \in Starts \/ n - 1 \in Fired

\* While the process is looking for a block, its position follows what was
\* fired; from Handle's output to the end of Save its block was fired.
Position ==
  /\ pc \in {"load", "prepare", "check", "get", "handle"} => Follows(seq)
  /\ pc = "handle" => blk = seq
  /\ pc \in {"save", "write"} => blk = seq /\ blk \in Fired

\* What outlives the process was fired: the cursor it resumes from and the
\* position a supervisor restarts it at.
Memory ==
  /\ CursorNamesFiredBlock
  /\ delivered \subseteq Fired
  /\ newest > 0 => newest \in Fired

OutputInv == TypeOK /\ NoLedgerSkipped /\ Position /\ Memory

\* Handle adds its block to the fired ones, nothing else changes them.
LEMMA FiredStep ==
  ASSUME TypeOK
  PROVE  /\ fired' = fired => Fired' = Fired
         /\ fired' = Append(fired, blk) => Fired' = Fired \union {blk}
<1>1. fired' = fired => Fired' = Fired
  BY DEF Fired
<1>2. ASSUME fired' = Append(fired, blk)
      PROVE  Fired' = Fired \union {blk}
  <2>1. fired \in Seq(Nat) /\ blk \in Nat
    BY DEF TypeOK
  <2>2. /\ DOMAIN fired = 1..Len(fired)
        /\ DOMAIN fired' = 1..(Len(fired) + 1)
        /\ \A i \in 1..Len(fired) : fired'[i] = fired[i]
        /\ fired'[Len(fired) + 1] = blk
        /\ Len(fired) \in Nat
    BY <1>2, <2>1
  <2>3. \A n : n \in Fired' <=> n \in Fired \/ n = blk
    BY <2>2 DEF Fired
  <2>4. QED
    BY <2>3
<1>3. QED
  BY <1>1, <1>2

\* The lines stay gap-free when the line appended follows the others.
LEMMA AppendSkipsNothing ==
  ASSUME TypeOK, NoLedgerSkipped, Follows(blk), fired' = Append(fired, blk)
  PROVE  NoLedgerSkipped'
<1>1. fired \in Seq(Nat) /\ blk \in Nat
  BY DEF TypeOK
<1>2. /\ DOMAIN fired = 1..Len(fired)
      /\ DOMAIN fired' = 1..(Len(fired) + 1)
      /\ \A i \in 1..Len(fired) : fired'[i] = fired[i]
      /\ fired'[Len(fired) + 1] = blk
      /\ Len(fired) \in Nat
  BY <1>1
<1>3. SUFFICES ASSUME NEW i \in 1..(Len(fired) + 1)
               PROVE  \/ fired'[i] \in Starts
                      \/ \E j \in 1..(i - 1) : fired'[j] = fired'[i] - 1
  BY <1>2 DEF NoLedgerSkipped
<1>4. CASE i \in 1..Len(fired)
  BY <1>2, <1>4 DEF NoLedgerSkipped
<1>5. CASE i = Len(fired) + 1
  BY <1>2, <1>5 DEF Follows, Fired
<1>6. QED
  BY <1>4, <1>5, <1>2

\* A step that fires nothing and leaves the cursor and the reader alone can
\* only disturb the process's own position.
LEMMA OutputFrame ==
  ASSUME NoLedgerSkipped, Memory, UNCHANGED <<fired, file, delivered, newest>>
  PROVE  NoLedgerSkipped' /\ Memory' /\ Fired' = Fired
BY DEF NoLedgerSkipped, Memory, CursorNamesFiredBlock, Fired

\* OutputInv is inductive.
LEMMA OutputStep ==
  ASSUME OutputInv, [Next]_vars
  PROVE  OutputInv'
<1> USE DEF OutputInv
<1>0. TypeOK'
  BY TypeStep
<1> SUFFICES NoLedgerSkipped' /\ Position' /\ Memory'
  BY <1>0
<1>a. ASSUME pc' = "down", UNCHANGED <<fired, file, delivered, newest>>
      PROVE  NoLedgerSkipped' /\ Position' /\ Memory'
  BY <1>a, OutputFrame DEF Position
<1>1. ASSUME NEW o \in Launches, Launch(o)
      PROVE  NoLedgerSkipped' /\ Position' /\ Memory'
  <2>1. NoLedgerSkipped' /\ Memory' /\ Fired' = Fired
    BY <1>1, OutputFrame DEF Launch
  <2>2. Follows(StartBlock(o))
    BY DEF StartBlock, Follows, Memory, TypeOK
  <2>3. QED
    BY <1>1, <2>1, <2>2 DEF Launch, Position, Follows
<1>2. CASE LoadCursor
  <2>1. NoLedgerSkipped' /\ Memory' /\ Fired' = Fired
    BY <1>2, OutputFrame DEF LoadCursor, lineVars
  <2>2. Follows(ResumeSeq)
    BY <1>2 DEF LoadCursor, ResumeSeq, Follows, Memory, CursorNamesFiredBlock, Position, TypeOK
  <2>3. QED
    BY <1>2, <2>1, <2>2 DEF LoadCursor, Goto, Position, Follows
<1>3. CASE RefuseCursor \/ RefuseRange \/ RefuseBlock \/ AbortCall
  BY <1>3, <1>a DEF RefuseCursor, RefuseRange, RefuseBlock, AbortCall, Exit, lineVars
<1>4. CASE PrepareRange \/ CheckContext
  <2>1. NoLedgerSkipped' /\ Memory' /\ Fired' = Fired
    BY <1>4, OutputFrame DEF PrepareRange, CheckContext, lineVars
  <2>2. QED
    BY <1>4, <2>1 DEF PrepareRange, CheckContext, Exit, Goto, Position, Follows
<1>5. CASE GetBlock
  <2>1. NoLedgerSkipped' /\ Memory' /\ Fired' = Fired
    BY <1>5, OutputFrame DEF GetBlock, lineVars
  <2>2. QED
    BY <1>5, <2>1 DEF GetBlock, Goto, Position, Follows
<1>6. CASE Handle
  <2>1. Follows(blk) /\ blk = seq
    BY <1>6 DEF Handle, Position
  <2>2. NoLedgerSkipped'
    BY <1>6, <2>1, AppendSkipsNothing DEF Handle
  <2>3. Fired' = Fired \union {blk}
    BY <1>6, FiredStep DEF Handle
  <2>4. Memory'
    BY <1>6, <2>3 DEF Handle, Memory, CursorNamesFiredBlock
  <2>5. Position'
    BY <1>6, <2>1, <2>3 DEF Handle, Goto, Position
  <2>6. QED
    BY <2>2, <2>4, <2>5
<1>7. CASE SkipSave
  <2>1. NoLedgerSkipped' /\ Memory' /\ Fired' = Fired
    BY <1>7, OutputFrame DEF SkipSave, lineVars
  <2>2. QED
    BY <1>7, <2>1 DEF SkipSave, NextBlock, Goto, Position, Follows, TypeOK
<1>8. CASE SaveTruncate
  <2>1. Fired' = Fired
    BY <1>8 DEF SaveTruncate, lineVars, Fired
  <2>2. NoLedgerSkipped' /\ Memory'
    BY <1>8, <2>1
       DEF SaveTruncate, lineVars, NoLedgerSkipped, Memory, CursorNamesFiredBlock
  <2>3. QED
    BY <1>8, <2>1, <2>2 DEF SaveTruncate, Goto, Position
<1>9. CASE SaveWrite
  <2>1. Fired' = Fired
    BY <1>9 DEF SaveWrite, lineVars, Fired
  <2>2. NoLedgerSkipped' /\ Memory'
    BY <1>9, <2>1
       DEF SaveWrite, lineVars, NoLedgerSkipped, Memory, CursorNamesFiredBlock, Position
  <2>3. QED
    BY <1>9, <2>1, <2>2 DEF SaveWrite, NextBlock, Goto, Position, Follows, TypeOK
<1>10. CASE CallFails \/ SaveFails \/ Crash \/ PodDies
  BY <1>10, <1>a DEF CallFails, SaveFails, Crash, PodDies, Exit, lineVars
<1>11. CASE Cancel \/ CloseLedger \/ UNCHANGED vars
  <2>1. NoLedgerSkipped' /\ Memory' /\ Fired' = Fired
    BY <1>11, OutputFrame DEF Cancel, CloseLedger, vars, lineVars
  <2>2. QED
    BY <1>11, <2>1 DEF Cancel, CloseLedger, vars, procVars, Position, Follows
<1>12. CASE ReadLine
  <2>1. fired[read + 1] \in Fired
    BY <1>12 DEF ReadLine, TypeOK, Fired
  <2>2. Fired' = Fired
    BY <1>12 DEF ReadLine, Fired
  <2>3. NoLedgerSkipped' /\ Memory'
    BY <1>12, <2>1, <2>2 DEF ReadLine, NoLedgerSkipped, Memory, CursorNamesFiredBlock
  <2>4. QED
    BY <1>12, <2>2, <2>3 DEF ReadLine, procVars, Position, Follows
<1>13. QED
  BY <1>1, <1>2, <1>3, <1>4, <1>5, <1>6, <1>7, <1>8, <1>9, <1>10, <1>11, <1>12
     DEF Next, Run, Fault

\* Whatever the failures, restarts and command lines, standard output never
\* skips a ledger and cursor.json never runs ahead of it.
THEOREM OutputCorrect == Spec => [](NoLedgerSkipped /\ CursorNamesFiredBlock)
<1>1. Init => OutputInv
  BY DEF Init, OutputInv, TypeOK, States, NoLedgerSkipped, Position, Memory,
         CursorNamesFiredBlock
<1>2. OutputInv /\ [Next]_vars => OutputInv'
  BY OutputStep
<1>3. OutputInv => NoLedgerSkipped /\ CursorNamesFiredBlock
  BY DEF OutputInv, Memory
<1>4. QED
  BY <1>1, <1>2, <1>3, PTL DEF Spec

\* The cursor on disk never names a block that was not fired, whatever is
\* killed or fails in between.
THEOREM CursorCorrect == Spec => []CursorNamesFiredBlock
BY OutputCorrect, PTL

----------------------------------------------------------------------------
(* The reader is given what BlockStream promises.                          *)

\* Either lines are never lost, or no launch trusts the cursor: a pod that
\* dies takes lines with it that the cursor already counts as fired.
Lossless == ~PodMayDie \/ \A o \in Launches : o.ignore

\* The blocks the reader has or will find in the pipe.
Reach == delivered \union Unread

ReaderFollows(n) == n \in Starts \/ n - 1 \in Reach

\* What is left in the pipe can be taken in order.
PipeInOrder ==
  \A i \in (read + 1)..Len(fired) :
    \/ fired[i] \in Starts
    \/ fired[i] - 1 \in delivered
    \/ \E j \in (read + 1)..(i - 1) : fired[j] = fired[i] - 1

ReaderPosition ==
  /\ pc \in {"load", "prepare", "check", "get", "handle"} => ReaderFollows(seq)
  /\ pc = "handle" => blk = seq
  /\ pc \in {"save", "write"} => blk = seq /\ blk \in Reach

ReaderMemory ==
  /\ ~PodMayDie /\ file \in Nat => file \in Reach
  /\ newest > 0 => newest \in delivered

\* Only ledgers the network has closed are fetched, fired and delivered.
OnlyClosed ==
  /\ head \in 1..MaxHead
  /\ pc \in {"check", "get"} => seq >= 1
  /\ pc = "handle" => blk \in 1..head
  /\ \A i \in 1..Len(fired) : fired[i] \in 1..head
  /\ delivered \subseteq 1..head

DeliveryInv ==
  TypeOK /\ PipeInOrder /\ ReaderPosition /\ ReaderMemory /\ OnlyClosed

\* OnlyClosed is preserved by every step.
LEMMA ClosedStep ==
  ASSUME TypeOK, ReaderPosition, OnlyClosed, [Next]_vars
  PROVE  OnlyClosed'
<1> USE DEF OnlyClosed, TypeOK
<1>1. CASE Handle
  <2>1. /\ Len(fired') = Len(fired) + 1
        /\ \A i \in 1..Len(fired) : fired'[i] = fired[i]
        /\ fired'[Len(fired) + 1] = blk
    BY <1>1 DEF Handle
  <2>2. \A i \in 1..Len(fired') : fired'[i] \in 1..head
    BY <1>1, <2>1 DEF Handle
  <2>3. QED
    BY <1>1, <2>2 DEF Handle, Goto
<1>2. CASE ReadLine
  <2>1. fired[read + 1] \in 1..head
    BY <1>2 DEF ReadLine
  <2>2. QED
    BY <1>2, <2>1 DEF ReadLine, procVars
<1>3. CASE CloseLedger
  BY <1>3 DEF CloseLedger, procVars, lineVars
<1>4. CASE \E o \in Launches : Launch(o)
  BY <1>4 DEF Launch
<1>5. CASE LoadCursor
  BY <1>5 DEF LoadCursor, Goto, lineVars
<1>6. CASE PrepareRange
  BY <1>6 DEF PrepareRange, Goto, lineVars
<1>7. CASE CheckContext
  BY <1>7 DEF CheckContext, Exit, Goto, lineVars
<1>8. CASE GetBlock
  BY <1>8 DEF GetBlock, Goto, lineVars
<1>9. ASSUME pc \in {"save", "write"}
      PROVE  seq >= 1
  BY <1>9 DEF ReaderPosition, Reach, Unread
<1>10. CASE SkipSave
  BY <1>9, <1>10 DEF SkipSave, NextBlock, Goto, lineVars
<1>11. CASE SaveTruncate
  BY <1>11 DEF SaveTruncate, Goto, lineVars
<1>12. CASE SaveWrite
  BY <1>9, <1>12 DEF SaveWrite, NextBlock, Goto, lineVars
<1>13. CASE RefuseCursor \/ RefuseRange \/ RefuseBlock \/ AbortCall
  BY <1>13 DEF RefuseCursor, RefuseRange, RefuseBlock, AbortCall, Exit, lineVars
<1>14. CASE CallFails \/ SaveFails \/ Crash \/ PodDies
  BY <1>14 DEF CallFails, SaveFails, Crash, PodDies, Exit, lineVars
<1>15. CASE Cancel \/ UNCHANGED vars
  BY <1>15 DEF Cancel, vars, procVars, lineVars
<1>16. QED
  BY <1>1, <1>2, <1>3, <1>4, <1>5, <1>6, <1>7, <1>8, <1>10, <1>11, <1>12, <1>13, <1>14, <1>15
     DEF Next, Run, Fault

\* A step that leaves the pipe, the reader and the cursor alone can only
\* disturb the process's own position.
LEMMA ReaderFrame ==
  ASSUME PipeInOrder, ReaderMemory, UNCHANGED <<fired, read, file, delivered, newest>>
  PROVE  PipeInOrder' /\ ReaderMemory' /\ Reach' = Reach
BY DEF PipeInOrder, ReaderMemory, Reach, Unread

\* Handle's line joins the pipe, in order.
LEMMA HandleReach ==
  ASSUME TypeOK, PipeInOrder, ReaderFollows(blk), Handle
  PROVE  PipeInOrder' /\ Reach' = Reach \union {blk}
<1>1. /\ Len(fired') = Len(fired) + 1
      /\ \A i \in 1..Len(fired) : fired'[i] = fired[i]
      /\ fired'[Len(fired) + 1] = blk
      /\ Len(fired) \in Nat
      /\ read \in 0..Len(fired)
      /\ read' = read /\ delivered' = delivered
  BY DEF Handle, TypeOK
<1>2. Reach' = Reach \union {blk}
  <2>1. \A n : n \in Unread' <=> n \in Unread \/ n = blk
    BY <1>1 DEF Unread
  <2>2. QED
    BY <1>1, <2>1 DEF Reach
<1>3. SUFFICES ASSUME NEW i \in (read + 1)..(Len(fired) + 1)
               PROVE  \/ fired'[i] \in Starts
                      \/ fired'[i] - 1 \in delivered
                      \/ \E j \in (read + 1)..(i - 1) : fired'[j] = fired'[i] - 1
  BY <1>1, <1>2 DEF PipeInOrder
<1>4. CASE i \in (read + 1)..Len(fired)
  BY <1>1, <1>4 DEF PipeInOrder
<1>5. CASE i = Len(fired) + 1
  BY <1>1, <1>5 DEF ReaderFollows, Reach, Unread
<1>6. QED
  BY <1>1, <1>4, <1>5

\* The reader takes the first line of the pipe, which follows what it has.
LEMMA ReadReach ==
  ASSUME TypeOK, PipeInOrder, ReadLine
  PROVE  /\ PipeInOrder' /\ Reach' = Reach
         /\ fired[read + 1] \in Starts \/ fired[read + 1] - 1 \in delivered
<1>1. /\ fired' = fired /\ read' = read + 1
      /\ read \in 0..Len(fired) /\ read + 1 \in 1..Len(fired) /\ Len(fired) \in Nat
      /\ delivered' = delivered \union {fired[read + 1]}
  BY DEF ReadLine, TypeOK
<1>2. fired[read + 1] \in Starts \/ fired[read + 1] - 1 \in delivered
  BY <1>1 DEF PipeInOrder
<1>3. PipeInOrder'
  <2> SUFFICES ASSUME NEW i \in (read + 2)..Len(fired)
               PROVE  \/ fired[i] \in Starts
                      \/ fired[i] - 1 \in delivered'
                      \/ \E j \in (read + 2)..(i - 1) : fired[j] = fired[i] - 1
    BY <1>1 DEF PipeInOrder
  <2>1. CASE \E j \in (read + 1)..(i - 1) : fired[j] = fired[i] - 1
    BY <1>1, <2>1
  <2>2. CASE ~\E j \in (read + 1)..(i - 1) : fired[j] = fired[i] - 1
    BY <1>1, <2>2 DEF PipeInOrder
  <2>3. QED
    BY <2>1, <2>2
<1>4. Reach' = Reach
  <2>1. \A n : n \in Unread <=> n \in Unread' \/ n = fired[read + 1]
    BY <1>1 DEF Unread
  <2>2. QED
    BY <1>1, <2>1 DEF Reach
<1>5. QED
  BY <1>2, <1>3, <1>4

\* DeliveryInv is inductive when lines are not lost behind the cursor's back.
LEMMA DeliveryStep ==
  ASSUME Lossless, DeliveryInv, [Next]_vars
  PROVE  DeliveryInv'
<1> USE DEF DeliveryInv
<1>0. TypeOK' /\ OnlyClosed'
  BY TypeStep, ClosedStep
<1> SUFFICES PipeInOrder' /\ ReaderPosition' /\ ReaderMemory'
  BY <1>0
<1>a. ASSUME pc' = "down", UNCHANGED <<fired, read, file, delivered, newest>>
      PROVE  PipeInOrder' /\ ReaderPosition' /\ ReaderMemory'
  BY <1>a, ReaderFrame DEF ReaderPosition
<1>1. ASSUME NEW o \in Launches, Launch(o)
      PROVE  PipeInOrder' /\ ReaderPosition' /\ ReaderMemory'
  <2>1. PipeInOrder' /\ ReaderMemory' /\ Reach' = Reach
    BY <1>1, ReaderFrame DEF Launch
  <2>2. ReaderFollows(StartBlock(o))
    BY DEF StartBlock, ReaderFollows, ReaderMemory, Reach, TypeOK
  <2>3. QED
    BY <1>1, <2>1, <2>2 DEF Launch, ReaderPosition, ReaderFollows
<1>2. CASE LoadCursor
  <2>1. PipeInOrder' /\ ReaderMemory' /\ Reach' = Reach
    BY <1>2, ReaderFrame DEF LoadCursor, lineVars
  <2>2. ReaderFollows(seq)
    BY <1>2 DEF LoadCursor, ReaderPosition
  <2>3. UsesCursor => ~PodMayDie
    BY DEF UsesCursor, Lossless, TypeOK
  <2>4. ReaderFollows(ResumeSeq)
    BY <1>2, <2>2, <2>3
       DEF LoadCursor, ResumeSeq, ReaderFollows, ReaderMemory, TypeOK
  <2>5. QED
    BY <1>2, <2>1, <2>4 DEF LoadCursor, Goto, ReaderPosition, ReaderFollows
<1>3. CASE RefuseCursor \/ RefuseRange \/ RefuseBlock \/ AbortCall
  BY <1>3, <1>a DEF RefuseCursor, RefuseRange, RefuseBlock, AbortCall, Exit, lineVars
<1>4. CASE PrepareRange \/ CheckContext
  <2>1. PipeInOrder' /\ ReaderMemory' /\ Reach' = Reach
    BY <1>4, ReaderFrame DEF PrepareRange, CheckContext, lineVars
  <2>2. QED
    BY <1>4, <2>1 DEF PrepareRange, CheckContext, Exit, Goto, ReaderPosition, ReaderFollows
<1>5. CASE GetBlock
  <2>1. PipeInOrder' /\ ReaderMemory' /\ Reach' = Reach
    BY <1>5, ReaderFrame DEF GetBlock, lineVars
  <2>2. QED
    BY <1>5, <2>1 DEF GetBlock, Goto, ReaderPosition, ReaderFollows
<1>6. CASE Handle
  <2>1. ReaderFollows(blk) /\ blk = seq
    BY <1>6 DEF Handle, ReaderPosition
  <2>2. PipeInOrder' /\ Reach' = Reach \union {blk}
    BY <1>6, <2>1, HandleReach
  <2>3. ReaderMemory'
    BY <1>6, <2>2 DEF Handle, ReaderMemory
  <2>4. ReaderPosition'
    BY <1>6, <2>1, <2>2 DEF Handle, Goto, ReaderPosition
  <2>5. QED
    BY <2>2, <2>3, <2>4
<1>7. CASE SkipSave
  <2>1. PipeInOrder' /\ ReaderMemory' /\ Reach' = Reach
    BY <1>7, ReaderFrame DEF SkipSave, lineVars
  <2>2. QED
    BY <1>7, <2>1 DEF SkipSave, NextBlock, Goto, ReaderPosition, ReaderFollows, TypeOK
<1>8. CASE SaveTruncate \/ SaveWrite
  <2>1. UNCHANGED <<fired, read, delivered, newest>>
    BY <1>8 DEF SaveTruncate, SaveWrite, lineVars
  <2>2. PipeInOrder' /\ Reach' = Reach
    BY <2>1 DEF PipeInOrder, Reach, Unread
  <2>3. ReaderMemory'
    BY <1>8, <2>1, <2>2 DEF SaveTruncate, SaveWrite, ReaderMemory, ReaderPosition
  <2>4. ReaderPosition'
    BY <1>8, <2>2
       DEF SaveTruncate, SaveWrite, NextBlock, Goto, ReaderPosition, ReaderFollows, TypeOK
  <2>5. QED
    BY <2>2, <2>3, <2>4
<1>9. CASE CallFails \/ SaveFails \/ Crash
  BY <1>9, <1>a DEF CallFails, SaveFails, Crash, Exit, lineVars
<1>10. CASE PodDies
  <2>1. PodMayDie /\ pc' = "down" /\ read' = Len(fired')
    BY <1>10 DEF PodDies, Exit
  <2>2. PipeInOrder'
    BY <2>1, <1>0 DEF PipeInOrder, TypeOK
  <2>3. QED
    BY <1>10, <2>1, <2>2 DEF PodDies, ReaderPosition, ReaderMemory
<1>11. CASE Cancel \/ CloseLedger \/ UNCHANGED vars
  <2>1. PipeInOrder' /\ ReaderMemory' /\ Reach' = Reach
    BY <1>11, ReaderFrame DEF Cancel, CloseLedger, vars, lineVars
  <2>2. QED
    BY <1>11, <2>1 DEF Cancel, CloseLedger, vars, procVars, ReaderPosition, ReaderFollows
<1>12. CASE ReadLine
  <2>1. PipeInOrder' /\ Reach' = Reach
    BY <1>12, ReadReach
  <2>2. ReaderMemory'
    BY <1>12, <2>1 DEF ReadLine, ReaderMemory
  <2>3. QED
    BY <1>12, <2>1, <2>2 DEF ReadLine, procVars, ReaderPosition, ReaderFollows
<1>13. QED
  BY <1>1, <1>2, <1>3, <1>4, <1>5, <1>6, <1>7, <1>8, <1>9, <1>10, <1>11, <1>12
     DEF Next, Run, Fault

\* A step is a step of BlockStream or changes nothing BlockStream sees.
LEMMA StreamStep ==
  ASSUME DeliveryInv, [Next]_vars
  PROVE  [Stream!Next]_(Stream!vars)
<1> USE DEF Stream!vars
<1>1. CASE CloseLedger
  BY <1>1 DEF CloseLedger, lineVars, Stream!Next, Stream!CloseLedger
<1>2. CASE ReadLine
  <2> DEFINE n == fired[read + 1]
  <2>1. n \in 1..head /\ head <= MaxHead
    BY <1>2 DEF ReadLine, DeliveryInv, OnlyClosed, TypeOK
  <2>2. n \in Starts \/ n - 1 \in delivered
    BY <1>2, ReadReach DEF DeliveryInv
  <2>3. Stream!Deliver(n)
    BY <1>2, <2>1, <2>2 DEF ReadLine, Stream!Deliver
  <2>4. n \in 1..MaxHead
    BY <2>1 DEF DeliveryInv, OnlyClosed
  <2>5. QED
    BY <2>3, <2>4 DEF Stream!Next
<1>3. ASSUME Next, ~CloseLedger, ~ReadLine
      PROVE  UNCHANGED <<head, delivered>>
  BY <1>3 DEF Next, Run, Fault, Launch, LoadCursor, RefuseCursor, PrepareRange,
     RefuseRange, CheckContext, GetBlock, RefuseBlock, AbortCall, Handle, SkipSave,
     SaveTruncate, SaveWrite, CallFails, SaveFails, Cancel, Crash, PodDies, lineVars
<1>4. CASE UNCHANGED vars
  BY <1>4 DEF vars, lineVars
<1>5. QED
  BY <1>1, <1>2, <1>3, <1>4

\* The detailed specification implements the abstract one: with the cursor as
\* long as the pipe survives the process, and with --ignore-cursor under a
\* supervisor even when it does not.
THEOREM StreamImplemented ==
  ASSUME Lossless
  PROVE  Spec => StreamPromise
<1>1. Init => DeliveryInv /\ Stream!Init
  BY DEF Init, DeliveryInv, TypeOK, States, PipeInOrder, ReaderPosition,
         ReaderMemory, OnlyClosed, Stream!Init
<1>2. DeliveryInv /\ [Next]_vars => DeliveryInv'
  BY DeliveryStep
<1>3. DeliveryInv /\ [Next]_vars => [Stream!Next]_(Stream!vars)
  BY StreamStep
<1>4. QED
  BY <1>1, <1>2, <1>3, PTL DEF Spec, StreamPromise, Stream!Spec

\* The promise leaves no gaps, whatever operators start from.
LEMMA PromiseUnbroken ==
  ASSUME Starts \subseteq Nat
  PROVE  Stream!Spec => []Stream!Unbroken
<1> DEFINE Inv == delivered \subseteq Nat /\ Stream!Unbroken
<1>1. Stream!Init => Inv
  BY DEF Stream!Init, Stream!Unbroken
<1>2. Inv /\ [Stream!Next]_(Stream!vars) => Inv'
  <2> SUFFICES ASSUME Inv, [Stream!Next]_(Stream!vars)
               PROVE  Inv'
    OBVIOUS
  <2>1. CASE delivered' = delivered
    BY <2>1 DEF Stream!Unbroken
  <2>2. ASSUME NEW n \in 1..MaxHead, Stream!Deliver(n)
        PROVE  Inv'
    <3>1. delivered' = delivered \union {n} /\ n \in Nat
      BY <2>2 DEF Stream!Deliver
    <3>2. \E s \in Starts : s <= n /\ s..n \subseteq delivered'
      <4>1. CASE n \in Starts
        <5>1. n..n = {n}
          BY <3>1
        <5>2. QED
          BY <3>1, <4>1, <5>1
      <4>2. CASE n - 1 \in delivered
        <5>1. PICK s \in Starts : s <= n - 1 /\ s..(n - 1) \subseteq delivered
          BY <4>2 DEF Stream!Unbroken
        <5>2. s..n = (s..(n - 1)) \union {n} /\ s <= n
          BY <3>1, <5>1
        <5>3. QED
          BY <3>1, <5>1, <5>2
      <4>3. QED
        BY <2>2, <4>1, <4>2 DEF Stream!Deliver
    <3>3. ASSUME NEW m \in delivered
          PROVE  \E s \in Starts : s <= m /\ s..m \subseteq delivered'
      BY <3>1, <3>3 DEF Stream!Unbroken
    <3>4. QED
      BY <3>1, <3>2, <3>3 DEF Stream!Unbroken
  <2>3. QED
    BY <2>1, <2>2 DEF Stream!Next, Stream!CloseLedger, Stream!vars
<1>3. QED
  BY <1>1, <1>2, PTL DEF Stream!Spec

\* What the reader of the process has been given is made of intervals that
\* begin where operators asked to start; when they all ask for the same
\* block, it is one interval.
THEOREM ReaderUnbroken ==
  ASSUME Lossless
  PROVE  Spec => []Stream!Unbroken
<1>1. Starts \subseteq Nat
  BY DEF Starts, LaunchOptions
<1>2. QED
  BY <1>1, StreamImplemented, PromiseUnbroken, PTL DEF StreamPromise

----------------------------------------------------------------------------
(* One life of the process.                                                *)

LastLine == fired[Len(fired)]
HasFired == Len(fired) > lifeFrom

\* How seq, the block in hand and the cursor relate to the last line of the
\* present life.
LifePosition ==
  /\ pc \in {"load", "prepare"} => ~HasFired
  /\ pc \in {"check", "get", "handle"} /\ HasFired =>
       seq = LastLine + 1 /\ (opts.persist => file = LastLine)
  /\ pc = "handle" => blk = seq
  /\ pc \in {"save", "write"} => HasFired /\ blk = seq /\ LastLine = blk

LifeInv == TypeOK /\ LifeIsConsecutive /\ LifePosition

\* What Handle's line does to the end of the output.
LEMMA LastLineStep ==
  ASSUME TypeOK, fired' = Append(fired, blk)
  PROVE  /\ Len(fired') = Len(fired) + 1
         /\ \A i \in 1..Len(fired) : fired'[i] = fired[i]
         /\ LastLine' = blk
         /\ fired'[Len(fired) + 1] = blk
BY DEF TypeOK, LastLine

\* LifeInv is inductive.
LEMMA LifeStep ==
  ASSUME LifeInv, [Next]_vars
  PROVE  LifeInv'
<1> USE DEF LifeInv
<1>0. TypeOK'
  BY TypeStep
<1> SUFFICES LifeIsConsecutive' /\ LifePosition'
  BY <1>0
<1>f. ASSUME UNCHANGED <<fired, lifeFrom>>
      PROVE  LifeIsConsecutive' /\ LastLine' = LastLine /\ HasFired' = HasFired
  BY <1>f DEF LifeIsConsecutive, LastLine, HasFired
<1>a. ASSUME pc' = "down", UNCHANGED <<fired, lifeFrom>>
      PROVE  LifeIsConsecutive' /\ LifePosition'
  BY <1>a, <1>f DEF LifePosition
<1>1. CASE \E o \in Launches : Launch(o)
  BY <1>1 DEF Launch, LifeIsConsecutive, LifePosition, HasFired, TypeOK
<1>2. CASE LoadCursor \/ PrepareRange \/ CheckContext
  BY <1>2, <1>f
     DEF LoadCursor, PrepareRange, CheckContext, Goto, Exit, lineVars, LifePosition
<1>3. CASE GetBlock
  BY <1>3, <1>f DEF GetBlock, Goto, lineVars, LifePosition
<1>4. CASE RefuseCursor \/ RefuseRange \/ RefuseBlock \/ AbortCall
  BY <1>4, <1>a DEF RefuseCursor, RefuseRange, RefuseBlock, AbortCall, Exit, lineVars
<1>5. CASE Handle
  <2>1. /\ Len(fired') = Len(fired) + 1
        /\ \A i \in 1..Len(fired) : fired'[i] = fired[i]
        /\ LastLine' = blk
        /\ fired'[Len(fired) + 1] = blk
        /\ lifeFrom' = lifeFrom /\ lifeFrom \in 0..Len(fired)
    BY <1>5, LastLineStep DEF Handle, TypeOK
  <2>2. HasFired => blk = fired[Len(fired)] + 1
    BY <1>5 DEF Handle, LifePosition, LastLine
  <2>3. LifeIsConsecutive'
    <3> SUFFICES ASSUME NEW i \in (lifeFrom + 1)..Len(fired)
                 PROVE  fired'[i + 1] = fired'[i] + 1
      BY <2>1 DEF LifeIsConsecutive, TypeOK
    <3>1. i \in 1..Len(fired) /\ fired'[i] = fired[i] /\ Len(fired) \in Nat
      BY <2>1
    <3>2. CASE i = Len(fired)
      BY <2>1, <2>2, <3>1, <3>2 DEF HasFired
    <3>3. CASE i # Len(fired)
      BY <2>1, <3>1, <3>3 DEF LifeIsConsecutive
    <3>4. QED
      BY <3>2, <3>3
  <2>4. HasFired'
    BY <2>1 DEF HasFired
  <2>5. QED
    BY <1>5, <2>1, <2>3, <2>4 DEF Handle, Goto, LifePosition
<1>6. CASE SkipSave \/ SaveTruncate \/ SaveWrite
  BY <1>6, <1>f
     DEF SkipSave, SaveTruncate, SaveWrite, NextBlock, Goto, lineVars, LifePosition
<1>7. CASE CallFails \/ SaveFails \/ Crash \/ PodDies
  BY <1>7, <1>a DEF CallFails, SaveFails, Crash, PodDies, Exit, lineVars
<1>8. CASE Cancel \/ CloseLedger \/ ReadLine \/ UNCHANGED vars
  BY <1>8, <1>f
     DEF Cancel, CloseLedger, ReadLine, vars, procVars, lineVars, LifePosition
<1>9. QED
  BY <1>1, <1>2, <1>3, <1>4, <1>5, <1>6, <1>7, <1>8 DEF Next, Run, Fault

\* One life fires consecutive blocks, and between two of them cursor.json
\* names the last one fired.
THEOREM LifeCorrect == Spec => [](LifeIsConsecutive /\ CursorCaughtUp)
<1>1. Init => LifeInv
  BY DEF Init, LifeInv, TypeOK, States, LifeIsConsecutive, LifePosition, HasFired
<1>2. LifeInv /\ [Next]_vars => LifeInv'
  BY LifeStep
<1>3. LifeInv => LifeIsConsecutive /\ CursorCaughtUp
  BY DEF LifeInv, LifePosition, CursorCaughtUp, HasFired, LastLine
<1>4. QED
  BY <1>1, <1>2, <1>3, PTL DEF Spec

\* Between two blocks of a life, cursor.json names the last one fired.
THEOREM CaughtUpCorrect == Spec => []CursorCaughtUp
BY LifeCorrect, PTL

----------------------------------------------------------------------------
(* Restarts with one command line c that uses the cursor.                  *)

\* A readable cursor names the last line or the one before it; there is none
\* only while nothing but the first block was fired.
Disk(c) ==
  /\ fired # <<>> => LastLine >= c.start
  /\ file = Absent => fired = <<>> \/ LastLine = c.start
  /\ file \in Nat => file >= c.start /\ fired # <<>> /\ LastLine \in {file, file + 1}

ResumePosition(c) ==
  /\ pc = "load" => seq = c.start
  /\ pc \in {"prepare", "check", "get", "handle"} =>
       /\ file # Torn
       /\ seq = IF file = Absent THEN c.start ELSE file + 1
  /\ pc = "handle" => blk = seq
  /\ pc \in {"save", "write"} => fired # <<>> /\ blk = seq /\ LastLine = blk

ResumeInv(c) ==
  TypeOK /\ ReplaysOnlyLastBlock /\ Disk(c) /\ ResumePosition(c)

\* ResumeInv is inductive.
LEMMA ResumeStep ==
  ASSUME NEW c \in LaunchOptions, Launches = {c}, c.persist, ~c.ignore, ~c.tracked,
         ResumeInv(c), [Next]_vars
  PROVE  ResumeInv(c)'
<1> USE DEF ResumeInv
<1>0. TypeOK'
  BY TypeStep
<1> SUFFICES ReplaysOnlyLastBlock' /\ Disk(c)' /\ ResumePosition(c)'
  BY <1>0
<1>o. opts = c /\ UsesCursor
  BY DEF TypeOK, UsesCursor
<1>f. ASSUME UNCHANGED <<fired, file>>
      PROVE  ReplaysOnlyLastBlock' /\ Disk(c)' /\ LastLine' = LastLine
  BY <1>f DEF ReplaysOnlyLastBlock, Disk, LastLine
<1>a. ASSUME pc' = "down", UNCHANGED <<fired, file>>
      PROVE  ReplaysOnlyLastBlock' /\ Disk(c)' /\ ResumePosition(c)'
  BY <1>a, <1>f DEF ResumePosition
<1>1. CASE \E o \in Launches : Launch(o)
  BY <1>1, <1>f DEF Launch, StartBlock, ResumePosition
<1>2. CASE LoadCursor
  <2>1. file # Torn /\ file \in Nat \union {Absent}
    BY <1>2, <1>o DEF LoadCursor, TypeOK
  <2>2. seq' = IF file = Absent THEN c.start ELSE file + 1
    BY <1>2, <1>o, <2>1 DEF LoadCursor, ResumeSeq, ResumePosition, Disk
  <2>3. QED
    BY <1>2, <1>f, <2>1, <2>2 DEF LoadCursor, Goto, lineVars, ResumePosition
<1>3. CASE PrepareRange \/ CheckContext \/ GetBlock
  BY <1>3, <1>f
     DEF PrepareRange, CheckContext, GetBlock, Goto, Exit, lineVars, ResumePosition
<1>4. CASE RefuseCursor \/ RefuseRange \/ RefuseBlock \/ AbortCall
  BY <1>4, <1>a DEF RefuseCursor, RefuseRange, RefuseBlock, AbortCall, Exit, lineVars
<1>5. CASE Handle
  <2>1. /\ Len(fired') = Len(fired) + 1
        /\ \A i \in 1..Len(fired) : fired'[i] = fired[i]
        /\ LastLine' = blk
        /\ fired'[Len(fired) + 1] = blk
        /\ Len(fired) \in Nat
    BY <1>5, LastLineStep DEF Handle, TypeOK
  <2>2. file' = file /\ blk = seq /\ file \in Nat \union {Absent}
    BY <1>5 DEF Handle, ResumePosition, TypeOK
  <2>3. blk = IF file = Absent THEN c.start ELSE file + 1
    BY <1>5, <2>2 DEF Handle, ResumePosition
  <2>4. fired # <<>> => blk \in {LastLine, LastLine + 1}
    BY <2>2, <2>3 DEF Disk, TypeOK, LastLine
  <2>5. fired' # <<>>
    BY <2>1, <1>0 DEF TypeOK
  <2>6. Disk(c)'
    BY <2>1, <2>2, <2>3, <2>5 DEF Disk
  <2>7. ReplaysOnlyLastBlock'
    <3> SUFFICES ASSUME NEW i \in 1..Len(fired)
                 PROVE  fired'[i + 1] \in {fired'[i], fired'[i] + 1}
      BY <2>1 DEF ReplaysOnlyLastBlock
    <3>1. CASE i = Len(fired)
      BY <2>1, <2>4, <3>1 DEF LastLine
    <3>2. CASE i # Len(fired)
      BY <2>1, <3>2 DEF ReplaysOnlyLastBlock
    <3>3. QED
      BY <3>1, <3>2
  <2>8. QED
    BY <1>5, <2>1, <2>2, <2>5, <2>6, <2>7 DEF Handle, Goto, ResumePosition
<1>6. CASE SkipSave
  BY <1>6, <1>o DEF SkipSave
<1>7. CASE SaveTruncate
  <2>1. ReplaysOnlyLastBlock' /\ LastLine' = LastLine /\ fired' = fired
    BY <1>7 DEF SaveTruncate, lineVars, ReplaysOnlyLastBlock, LastLine
  <2>2. QED
    BY <1>7, <2>1 DEF SaveTruncate, Goto, Disk, ResumePosition
<1>8. CASE SaveWrite
  <2>1. ReplaysOnlyLastBlock' /\ LastLine' = LastLine /\ fired' = fired
    BY <1>8 DEF SaveWrite, lineVars, ReplaysOnlyLastBlock, LastLine
  <2>2. blk \in Nat
    BY DEF TypeOK
  <2>3. QED
    BY <1>8, <2>1, <2>2 DEF SaveWrite, NextBlock, Goto, Disk, ResumePosition
<1>9. CASE CallFails \/ SaveFails \/ Crash \/ PodDies
  BY <1>9, <1>a DEF CallFails, SaveFails, Crash, PodDies, Exit, lineVars
<1>10. CASE Cancel \/ CloseLedger \/ ReadLine \/ UNCHANGED vars
  BY <1>10, <1>f
     DEF Cancel, CloseLedger, ReadLine, vars, procVars, lineVars, ResumePosition
<1>11. QED
  BY <1>1, <1>2, <1>3, <1>4, <1>5, <1>6, <1>7, <1>8, <1>9, <1>10 DEF Next, Run, Fault

\* With one command line that uses the cursor, however the process is killed
\* and restarted, a line repeats at most the line before it.
THEOREM ReplayCorrect ==
  ASSUME NEW c \in LaunchOptions, Launches = {c}, c.persist, ~c.ignore, ~c.tracked
  PROVE  Spec => []ReplaysOnlyLastBlock
<1>1. Init => ResumeInv(c)
  BY DEF Init, ResumeInv, TypeOK, States, ReplaysOnlyLastBlock, Disk, ResumePosition
<1>2. ResumeInv(c) /\ [Next]_vars => ResumeInv(c)'
  BY ResumeStep
<1>3. ResumeInv(c) => ReplaysOnlyLastBlock
  BY DEF ResumeInv
<1>4. QED
  BY <1>1, <1>2, <1>3, PTL DEF Spec

----------------------------------------------------------------------------
(* What repeated lines cost.                                               *)

\* The cursor is one block behind the last line.
Behind(c) ==
  /\ fired # <<>> /\ file # Torn
  /\ (IF file = Absent THEN c.start ELSE file + 1) = LastLine

\* A repetition that is due: one that Save does not prevent any more.
Owed(c) == IF Behind(c) /\ pc \notin {"save", "write"} THEN 1 ELSE 0

Repeated == Len(fired) - Cardinality(Fired)

PaidInv(c) ==
  /\ ResumeInv(c)
  /\ IsFiniteSet(Fired)
  /\ \A i \in 1..Len(fired) : fired[i] <= LastLine
  /\ Repeated + Owed(c) <= unclean

\* A line adds a block to those fired, or repeats one that was due.
LEMMA RepeatedStep ==
  ASSUME NEW c \in LaunchOptions, Launches = {c}, c.persist, ~c.ignore, ~c.tracked,
         PaidInv(c), Handle
  PROVE  PaidInv(c)'
<1>0. ResumeInv(c) /\ ResumeInv(c)' /\ TypeOK /\ TypeOK'
  BY ResumeStep DEF Next, Run, ResumeInv, PaidInv
<1>1. /\ Len(fired') = Len(fired) + 1
      /\ \A i \in 1..Len(fired) : fired'[i] = fired[i]
      /\ LastLine' = blk
      /\ fired'[Len(fired) + 1] = blk
      /\ Len(fired) \in Nat
  BY <1>0, LastLineStep DEF Handle, TypeOK
<1>s. fired \in Seq(Nat)
  BY <1>0 DEF TypeOK
<1>d. DOMAIN fired = 1..Len(fired) /\ DOMAIN fired' = 1..(Len(fired) + 1)
  BY <1>0, <1>1 DEF TypeOK
<1>2. Fired' = Fired \union {blk}
  BY <1>1, <1>d DEF Fired
<1>3. /\ IsFiniteSet(Fired)'
      /\ Cardinality(Fired') = IF blk \in Fired THEN Cardinality(Fired) ELSE Cardinality(Fired) + 1
      /\ Cardinality(Fired) \in Nat
  BY <1>2, FS_AddElement, FS_CardinalityType DEF PaidInv
<1>4. /\ blk = (IF file = Absent THEN c.start ELSE file + 1) /\ file # Torn
      /\ blk \in Nat /\ unclean' = unclean /\ unclean \in Nat
  BY <1>0 DEF Handle, ResumeInv, ResumePosition, TypeOK
<1>5. fired # <<>> => LastLine \in Nat /\ blk \in {LastLine, LastLine + 1}
  BY <1>0, <1>4 DEF ResumeInv, Disk, TypeOK, LastLine
<1>e. ASSUME NEW i \in 1..Len(fired)
      PROVE  fired # <<>> /\ fired[i] \in Nat /\ fired[i] <= LastLine
  <2>1. fired[i] \in Nat
    BY <1>s
  <2>2. fired # <<>>
    BY <1>s
  <2>3. fired[i] <= LastLine
    BY DEF PaidInv
  <2>4. QED
    BY <2>1, <2>2, <2>3
<1>6. (\A i \in 1..Len(fired) : fired[i] <= LastLine)'
  <2> SUFFICES ASSUME NEW i \in 1..(Len(fired) + 1)
               PROVE  fired'[i] <= blk
    BY <1>1
  <2>1. CASE i = Len(fired) + 1
    BY <1>1, <1>4, <2>1
  <2>2. CASE i # Len(fired) + 1
    <3>1. i \in 1..Len(fired) /\ fired'[i] = fired[i]
      BY <1>1, <2>2
    <3>2. QED
      BY <1>4, <1>5, <1>e, <3>1
  <2>3. QED
    BY <2>1, <2>2
<1>7. ~Behind(c) => blk \notin Fired
  <2> SUFFICES ASSUME ~Behind(c), NEW i \in 1..Len(fired), fired[i] = blk
               PROVE  FALSE
    BY <1>d DEF Fired
  <2>1. blk # LastLine
    BY <1>4, <1>e DEF Behind
  <2>2. QED
    BY <1>4, <1>5, <1>e, <2>1
<1>8. Owed(c)' = 0
  BY DEF Handle, Goto, Owed
<1>9. Behind(c) => Owed(c) = 1
  BY DEF Handle, Owed
<1>10. Owed(c) \in {0, 1} /\ Len(fired) - Cardinality(Fired) + Owed(c) <= unclean
  BY DEF Owed, PaidInv, Repeated
<1>11. Repeated' = Len(fired') - Cardinality(Fired')
  BY DEF Repeated
<1>12. (Repeated + Owed(c) <= unclean)'
  BY <1>1, <1>3, <1>4, <1>7, <1>8, <1>9, <1>10, <1>11
<1>13. QED
  BY <1>0, <1>3, <1>6, <1>12 DEF PaidInv

\* PaidInv is inductive.
LEMMA PaidStep ==
  ASSUME NEW c \in LaunchOptions, Launches = {c}, c.persist, ~c.ignore, ~c.tracked,
         PaidInv(c), [Next]_vars
  PROVE  PaidInv(c)'
<1> USE DEF PaidInv
<1>0. ResumeInv(c)' /\ TypeOK
  BY ResumeStep DEF ResumeInv
<1>l. ASSUME UNCHANGED fired
      PROVE  /\ IsFiniteSet(Fired)'
             /\ (\A i \in 1..Len(fired) : fired[i] <= LastLine)'
             /\ Repeated' = Repeated /\ LastLine' = LastLine
  BY <1>l DEF Fired, Repeated, LastLine
<1>n. Repeated \in Int /\ unclean \in Nat /\ Owed(c) \in {0, 1} /\ Owed(c)' \in {0, 1}
  BY <1>0, FS_CardinalityType DEF Repeated, Owed, TypeOK
<1>k. ASSUME UNCHANGED <<fired, file, unclean>>, pc \notin {"save", "write"}
      PROVE  PaidInv(c)'
  <2>1. Behind(c)' = Behind(c)
    BY <1>k, <1>l DEF Behind
  <2>2. Owed(c)' <= Owed(c)
    BY <1>k, <2>1 DEF Owed
  <2>3. QED
    BY <1>0, <1>k, <1>l, <1>n, <2>2
<1>u. ASSUME UNCHANGED fired, unclean' = unclean + 1
      PROVE  PaidInv(c)'
  BY <1>0, <1>l, <1>n, <1>u
<1>z. ASSUME UNCHANGED fired, unclean' = unclean, Owed(c)' = 0
      PROVE  PaidInv(c)'
  BY <1>0, <1>l, <1>n, <1>z
<1>1. CASE \E o \in Launches : Launch(o)
  BY <1>1, <1>k DEF Launch
<1>2. CASE LoadCursor \/ PrepareRange \/ CheckContext \/ GetBlock
  BY <1>2, <1>k DEF LoadCursor, PrepareRange, CheckContext, GetBlock, lineVars
<1>3. CASE RefuseCursor \/ RefuseRange \/ RefuseBlock \/ AbortCall
  BY <1>3, <1>k DEF RefuseCursor, RefuseRange, RefuseBlock, AbortCall, lineVars
<1>4. CASE Handle
  BY <1>4, RepeatedStep
<1>5. CASE SkipSave
  BY <1>0, <1>5 DEF SkipSave, TypeOK
<1>6. CASE SaveTruncate
  <2>1. Owed(c)' = 0
    BY <1>6 DEF SaveTruncate, Goto, Owed
  <2>2. QED
    BY <1>6, <1>z, <2>1 DEF SaveTruncate, lineVars
<1>7. CASE SaveWrite
  <2>1. file' = LastLine /\ LastLine' = LastLine /\ LastLine \in Nat
    BY <1>0, <1>7 DEF SaveWrite, ResumeInv, ResumePosition, TypeOK, LastLine, lineVars
  <2>2. Owed(c)' = 0
    BY <2>1, FileAssumption DEF Owed, Behind
  <2>3. QED
    BY <1>7, <1>z, <2>2 DEF SaveWrite, lineVars
<1>8. CASE CallFails
  BY <1>8, <1>k DEF CallFails, lineVars
<1>9. CASE SaveFails \/ Crash \/ PodDies
  BY <1>9, <1>u DEF SaveFails, Crash, PodDies, lineVars
<1>10. CASE Cancel \/ CloseLedger \/ ReadLine \/ UNCHANGED vars
  <2>1. UNCHANGED <<fired, file, unclean, pc>>
    BY <1>10 DEF Cancel, CloseLedger, ReadLine, vars, procVars, lineVars
  <2>2. Behind(c)' = Behind(c) /\ Owed(c)' = Owed(c)
    BY <1>l, <2>1 DEF Behind, Owed
  <2>3. QED
    BY <1>0, <1>l, <1>n, <2>1, <2>2
<1>11. QED
  BY <1>1, <1>2, <1>3, <1>4, <1>5, <1>6, <1>7, <1>8, <1>9, <1>10 DEF Next, Run, Fault

\* With one command line that uses the cursor, no more lines are repeated than
\* lives ended by a crash or inside Save.
THEOREM PaidCorrect ==
  ASSUME NEW c \in LaunchOptions, Launches = {c}, c.persist, ~c.ignore, ~c.tracked
  PROVE  Spec => []ReplaysPaidByUncleanEnds
<1>1. Init => PaidInv(c)
  <2> SUFFICES ASSUME Init PROVE PaidInv(c)
    OBVIOUS
  <2>1. ResumeInv(c)
    BY DEF Init, ResumeInv, TypeOK, States, ReplaysOnlyLastBlock, Disk, ResumePosition
  <2>2. Fired = {} /\ Len(fired) = 0 /\ unclean = 0 /\ fired = <<>>
    BY DEF Init, Fired
  <2>3. IsFiniteSet(Fired) /\ Cardinality(Fired) = 0
    BY <2>2, FS_EmptySet
  <2>4. QED
    BY <2>1, <2>2, <2>3 DEF PaidInv, Repeated, Owed, Behind
<1>2. PaidInv(c) /\ [Next]_vars => PaidInv(c)'
  BY PaidStep
<1>3. PaidInv(c) => ReplaysPaidByUncleanEnds
  <2> SUFFICES ASSUME PaidInv(c) PROVE ReplaysPaidByUncleanEnds
    OBVIOUS
  <2>1. Repeated \in Int /\ unclean \in Nat /\ Owed(c) \in {0, 1}
    BY FS_CardinalityType DEF PaidInv, ResumeInv, TypeOK, Repeated, Owed
  <2>2. QED
    BY <2>1 DEF PaidInv, Repeated, ReplaysPaidByUncleanEnds
<1>4. QED
  BY <1>1, <1>2, <1>3, PTL DEF Spec

----------------------------------------------------------------------------
(* A truncated cursor.json.                                                *)

\* Every launch relies on the file.
Relied == \A o \in Launches : o.persist /\ ~o.ignore

\* Between the two halves of os.WriteFile, or after a life that ended there.
TornInv == TypeOK /\ (Relied /\ file = Torn => pc \in {"down", "load", "write"})

LEMMA TornStep ==
  ASSUME TornInv, [Next]_vars
  PROVE  /\ TornInv'
         /\ Relied /\ file = Torn /\ pc # "write" => UNCHANGED <<file, fired>>
<1>1. TypeOK'
  BY TypeStep DEF TornInv
<1>2. Relied => opts \in Launches /\ UsesCursor
  BY DEF TornInv, TypeOK, Relied, UsesCursor
<1>3. CASE \E o \in Launches : Launch(o)
  BY <1>1, <1>3 DEF Launch, TornInv
<1>4. CASE LoadCursor \/ RefuseCursor
  BY <1>1, <1>2, <1>4 DEF LoadCursor, RefuseCursor, Exit, Goto, lineVars, TornInv
<1>5. CASE PrepareRange \/ RefuseRange \/ CheckContext
  BY <1>1, <1>5 DEF PrepareRange, RefuseRange, CheckContext, Exit, Goto, lineVars, TornInv
<1>6. CASE GetBlock \/ RefuseBlock \/ AbortCall
  BY <1>1, <1>6 DEF GetBlock, RefuseBlock, AbortCall, Exit, Goto, lineVars, TornInv
<1>7. CASE Handle \/ SkipSave
  BY <1>1, <1>7 DEF Handle, SkipSave, NextBlock, Goto, lineVars, TornInv
<1>8. CASE SaveTruncate
  BY <1>1, <1>8 DEF SaveTruncate, Goto, lineVars, TornInv
<1>9. CASE SaveWrite
  BY <1>1, <1>9 DEF SaveWrite, NextBlock, Goto, lineVars, TornInv, TypeOK
<1>10. CASE Fault
  BY <1>1, <1>10
     DEF Fault, CallFails, SaveFails, Cancel, Crash, PodDies, Exit, lineVars, TornInv
<1>11. CASE CloseLedger \/ ReadLine
  BY <1>1, <1>11 DEF CloseLedger, ReadLine, procVars, lineVars, TornInv
<1>12. CASE UNCHANGED vars
  BY <1>1, <1>12 DEF vars, procVars, lineVars, TornInv
<1>13. QED
  BY <1>3, <1>4, <1>5, <1>6, <1>7, <1>8, <1>9, <1>10, <1>11, <1>12 DEF Next, Run

\* Where every launch relies on cursor.json, a process that was cut short
\* inside os.WriteFile has no successor that writes the file or a line.
THEOREM TornCorrect == Spec => TornIsFinal
<1>1. Init => TornInv
  BY DEF Init, TornInv, TypeOK, States
<1>2. TornInv /\ [Next]_vars
        => [Relied /\ file = Torn /\ pc # "write" => UNCHANGED <<file, fired>>]_vars
  BY TornStep
<1>3. QED
  BY <1>1, <1>2, TornStep, PTL DEF Spec, TornIsFinal, Relied
=============================================================================
