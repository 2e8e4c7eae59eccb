---------------------------- MODULE CaptiveFetch ----------------------------
(***************************************************************************)
(* `firestellar fetch captive-core`: the process that streams ledgers from *)
(* captive core to standard output and keeps its position in cursor.json   *)
(* (cmd/firestellar/fetcher_captive_core.go, cursor/cursor.go and the      *)
(* guards of captivecore/captivecore.go), together with what surrounds it: *)
(* the network closing ledgers, the reader at the other end of the pipe,   *)
(* the operator or supervisor that launches it again after it ends.        *)
(*                                                                         *)
(* One step of the process is one call of its loop; Save is two steps,     *)
(* because os.WriteFile truncates the file before it writes.  A process    *)
(* may die between any two of them.  Lines other than FIRE BLOCK carry no  *)
(* ledger and are left out.                                                *)
(***************************************************************************)
EXTENDS Integers, Sequences, FiniteSets

CONSTANTS
  Launches,     \* the command lines the process is launched with
  MaxSeq,       \* largest ledger sequence captive core takes (MaxUint32)
  PipeCap,      \* FIRE BLOCK lines the pipe to the reader holds
  PodMayDie,    \* whether process and reader can die together, with the pipe
  MaxHead,      \* bound: ledgers the network closes
  MaxFaults,    \* bound: lives of the process that end for a transient reason
  Absent,       \* content of cursor.json: no such file
  Torn          \* content of cursor.json: truncated, nothing written yet

\* start: the <first-streamable-block> argument; ignore: --ignore-cursor;
\* persist: --state-dir is not empty; tracked: a supervisor replaces start
\* by the ledger after the last one it read (README.md:44).
LaunchOptions ==
  [start: Nat, ignore: BOOLEAN, persist: BOOLEAN, tracked: BOOLEAN]

ASSUME LaunchesAssumption == Launches \subseteq LaunchOptions /\ Launches # {}
ASSUME BoundsAssumption ==
  /\ MaxSeq \in Nat
  /\ PipeCap \in Nat \ {0}
  /\ PodMayDie \in BOOLEAN
  /\ MaxHead \in Nat \ {0}
  /\ MaxFaults \in Nat
ASSUME FileAssumption == Absent \notin Nat /\ Torn \notin Nat /\ Absent # Torn

VARIABLES
  \* the process
  pc,           \* the call it is about to make, "down" when it does not run
  opts,         \* its command line
  seq,          \* seq of the loop
  blk,          \* number of the block GetBlock returned
  ctx,          \* its context, "live" or "cancelled"
  \* the disk
  file,         \* cursor.json: Absent, Torn or the last fired block's number
  \* standard output and its reader
  fired,        \* history: the blocks of all FIRE BLOCK lines, in order
  lifeFrom,     \* history: length of fired when the process was launched
  read,         \* how many lines of fired the reader took or the pipe lost
  delivered,    \* the blocks the reader took
  newest,       \* the highest of them, 0 when there is none
  \* the network
  head,         \* number of the last ledger closed
  \* history: lives that ended for a transient reason ...
  returned,     \* ... by returning from a step before Handle's output
  unclean       \* ... by a crash or by returning from Save

procVars == <<pc, opts, seq, blk, ctx>>
lineVars == <<fired, lifeFrom, read, delivered, newest>>
vars == <<procVars, file, lineVars, head, returned, unclean>>

States == {"down", "load", "prepare", "check", "get", "handle", "save", "write"}

SeqOrLess == 0..(MaxSeq + 1)

Fired == {fired[i] : i \in DOMAIN fired}
Unread == {fired[i] : i \in (read + 1)..Len(fired)}

----------------------------------------------------------------------------
(* The process.                                                            *)

\* Volatile state is lost when the process ends, however it ends.
Exit ==
  /\ pc' = "down"
  /\ seq' = 0
  /\ blk' = 0
  /\ ctx' = "live"
  /\ UNCHANGED opts

Goto(s) ==
  /\ pc' = s
  /\ UNCHANGED <<opts, ctx>>

\* Mutant: the start block is taken as the last block before the range.
StartBlockExclusive(o) == o.start - 1

\* A supervisor passes the block after the newest one its reader took.
StartBlock(o) ==
  IF o.tracked /\ newest > 0 /\ newest >= o.start THEN newest + 1 ELSE o.start

\* Flags are parsed and the backend is created.  A launch that fails here
\* ends without having changed anything.
Launch(o) ==
  /\ pc = "down"
  /\ pc' = "load"
  /\ opts' = o
  /\ seq' = StartBlock(o)
  /\ lifeFrom' = Len(fired)
  /\ UNCHANGED <<blk, ctx, file, fired, read, delivered, newest, head, returned, unclean>>

\* Mutant: --ignore-cursor is not looked at.
UsesCursorAlways == opts.persist

UsesCursor == ~opts.ignore /\ opts.persist

\* Mutants: resume after the block that follows the cursor, at the cursor
\* itself, or always at the start block.
ResumeSkippingOne ==
  IF UsesCursor /\ file # Absent /\ file + 1 > seq THEN file + 2 ELSE seq
ResumeAtCursor ==
  IF UsesCursor /\ file # Absent /\ file > seq THEN file ELSE seq
ResumeAtStart == seq

\* The block to start from, given what cursor.Load returned.
ResumeSeq ==
  IF UsesCursor /\ file # Absent /\ file + 1 > seq THEN file + 1 ELSE seq

\* Mutant: a cursor that cannot be decoded is taken for none.
LoadCursorForgiving ==
  /\ pc = "load"
  /\ seq' = IF UsesCursor /\ file = Torn THEN seq ELSE ResumeSeq
  /\ Goto("prepare")
  /\ UNCHANGED <<blk, file, lineVars, head, returned, unclean>>

LoadCursor ==
  /\ pc = "load"
  /\ UsesCursor => file # Torn
  /\ seq' = ResumeSeq
  /\ Goto("prepare")
  /\ UNCHANGED <<blk, file, lineVars, head, returned, unclean>>

\* "decode cursor": the file exists and is not the JSON of a cursor.
RefuseCursor ==
  /\ pc = "load"
  /\ UsesCursor /\ file = Torn
  /\ Exit
  /\ UNCHANGED <<file, lineVars, head, returned, unclean>>

PrepareRange ==
  /\ pc = "prepare"
  /\ 1 <= seq /\ seq <= MaxSeq
  /\ Goto("check")
  /\ UNCHANGED <<seq, blk, file, lineVars, head, returned, unclean>>

RefuseRange ==
  /\ pc = "prepare"
  /\ seq < 1 \/ seq > MaxSeq
  /\ Exit
  /\ UNCHANGED <<file, lineVars, head, returned, unclean>>

CheckContext ==
  /\ pc = "check"
  /\ IF ctx = "cancelled"
     THEN Exit
     ELSE Goto("get") /\ UNCHANGED <<seq, blk>>
  /\ UNCHANGED <<file, lineVars, head, returned, unclean>>

\* Blocks until the network has closed ledger seq.
GetBlock ==
  /\ pc = "get"
  /\ seq <= MaxSeq
  /\ seq <= head
  /\ blk' = seq
  /\ Goto("handle")
  /\ UNCHANGED <<seq, file, lineVars, head, returned, unclean>>

RefuseBlock ==
  /\ pc = "get"
  /\ seq > MaxSeq
  /\ Exit
  /\ UNCHANGED <<file, lineVars, head, returned, unclean>>

\* PrepareRange and GetBlock are given the context and return its error.
AbortCall ==
  /\ pc \in {"prepare", "get"}
  /\ ctx = "cancelled"
  /\ Exit
  /\ UNCHANGED <<file, lineVars, head, returned, unclean>>

\* Writes the FIRE BLOCK line; blocks while the pipe is full.
Handle ==
  /\ pc = "handle"
  /\ Len(fired) - read < PipeCap
  /\ fired' = Append(fired, blk)
  /\ Goto("save")
  /\ UNCHANGED <<seq, blk, file, lifeFrom, read, delivered, newest, head, returned, unclean>>

\* Mutant: seq is not incremented.
SameBlock ==
  /\ seq' = seq
  /\ blk' = 0
  /\ Goto("check")

NextBlock ==
  /\ seq' = seq + 1
  /\ blk' = 0
  /\ Goto("check")

\* Mutant: the block is not always saved.
SkipSaveAnyway ==
  /\ pc = "save"
  /\ NextBlock
  /\ UNCHANGED <<file, lineVars, head, returned, unclean>>

\* Save without a state directory is a no-op.
SkipSave ==
  /\ pc = "save"
  /\ ~opts.persist
  /\ NextBlock
  /\ UNCHANGED <<file, lineVars, head, returned, unclean>>

\* os.WriteFile, first half: open with O_CREATE and O_TRUNC.
SaveTruncate ==
  /\ pc = "save"
  /\ opts.persist
  /\ file' = Torn
  /\ Goto("write")
  /\ UNCHANGED <<seq, blk, lineVars, head, returned, unclean>>

\* Mutant: the next sequence is saved instead of the block fired.
SaveWriteNext ==
  /\ pc = "write"
  /\ file' = seq + 1
  /\ NextBlock
  /\ UNCHANGED <<lineVars, head, returned, unclean>>

\* os.WriteFile, second half: write the JSON.
SaveWrite ==
  /\ pc = "write"
  /\ file' = blk
  /\ NextBlock
  /\ UNCHANGED <<lineVars, head, returned, unclean>>

----------------------------------------------------------------------------
(* What can go wrong, within the bound MaxFaults.                          *)

MayFail == returned + unclean < MaxFaults

\* A call other than Save returns a transient error and the command returns:
\* a read error in Load, archives or stellar-core in PrepareRange and
\* GetBlock, conversion in GetBlock, serialisation in Handle.
CallFails ==
  /\ MayFail
  /\ pc \in {"load", "prepare", "get", "handle"}
  /\ pc = "load" => UsesCursor
  /\ Exit
  /\ returned' = returned + 1
  /\ UNCHANGED <<file, lineVars, head, unclean>>

\* MkdirAll or the opening of the file fails (at "save", the file is as it
\* was), or its writing does (at "write", the file is already truncated).
SaveFails ==
  /\ MayFail
  /\ opts.persist
  /\ pc \in {"save", "write"}
  /\ Exit
  /\ unclean' = unclean + 1
  /\ UNCHANGED <<file, lineVars, head, returned>>

\* The operator or supervisor asks the process to stop.
Cancel ==
  /\ MayFail
  /\ pc # "down"
  /\ ctx = "live"
  /\ ctx' = "cancelled"
  /\ returned' = returned + 1
  /\ UNCHANGED <<pc, opts, seq, blk, file, lineVars, head, unclean>>

\* The process is killed; the disk and the pipe outlive it.
Crash ==
  /\ MayFail
  /\ pc # "down"
  /\ Exit
  /\ unclean' = unclean + 1
  /\ UNCHANGED <<file, lineVars, head, returned>>

\* Process and reader die together: the lines still in the pipe are lost.
PodDies ==
  /\ PodMayDie
  /\ MayFail
  /\ Exit
  /\ read' = Len(fired)
  /\ unclean' = unclean + 1
  /\ UNCHANGED <<file, fired, lifeFrom, delivered, newest, head, returned>>

----------------------------------------------------------------------------
(* Around the process.                                                     *)

CloseLedger ==
  /\ head < MaxHead
  /\ head' = head + 1
  /\ UNCHANGED <<procVars, file, lineVars, returned, unclean>>

ReadLine ==
  /\ read < Len(fired)
  /\ read' = read + 1
  /\ delivered' = delivered \union {fired[read + 1]}
  /\ newest' = IF fired[read + 1] > newest THEN fired[read + 1] ELSE newest
  /\ UNCHANGED <<procVars, file, fired, lifeFrom, head, returned, unclean>>

----------------------------------------------------------------------------

Init ==
  /\ pc = "down"
  /\ opts \in Launches
  /\ seq = 0
  /\ blk = 0
  /\ ctx = "live"
  /\ file = Absent
  /\ fired = <<>>
  /\ lifeFrom = 0
  /\ read = 0
  /\ delivered = {}
  /\ newest = 0
  /\ head = 1
  /\ returned = 0
  /\ unclean = 0

\* One call of the process, failures aside.
Run ==
  \/ LoadCursor \/ RefuseCursor
  \/ PrepareRange \/ RefuseRange
  \/ CheckContext
  \/ GetBlock \/ RefuseBlock \/ AbortCall
  \/ Handle
  \/ SkipSave \/ SaveTruncate \/ SaveWrite

Fault == CallFails \/ SaveFails \/ Cancel \/ Crash \/ PodDies

Next ==
  \/ \E o \in Launches : Launch(o)
  \/ Run
  \/ Fault
  \/ CloseLedger
  \/ ReadLine

Spec == Init /\ [][Next]_vars

\* The process is relaunched whenever it ends, runs while it can, and its
\* output is read.  Nothing obliges the network to close another ledger, and
\* no failure is obliged to happen.
FairSpec ==
  /\ Spec
  /\ WF_vars(\E o \in Launches : Launch(o))
  /\ WF_vars(Run)
  /\ WF_vars(ReadLine)

----------------------------------------------------------------------------
(* Properties.                                                             *)

Starts == {o.start : o \in Launches}

\* Every variable has its type.
TypeOK ==
  /\ pc \in States
  /\ opts \in Launches
  /\ seq \in Nat
  /\ blk \in Nat
  /\ ctx \in {"live", "cancelled"}
  /\ file \in Nat \union {Absent, Torn}
  /\ fired \in Seq(Nat)
  /\ lifeFrom \in 0..Len(fired)
  /\ read \in 0..Len(fired)
  /\ delivered \subseteq Nat
  /\ newest \in Nat
  /\ head \in Nat
  /\ returned \in Nat
  /\ unclean \in Nat

\* Whatever sequence of crashes, failed calls, restarts and changes of the
\* command line happened, no ledger is skipped on standard output: a block
\* is fired only if it is one an operator asked to start from, or if its
\* predecessor was fired before it (README.md:41, "On restart, the fetcher
\* resumes at last_fired_block + 1").
NoLedgerSkipped ==
  \A i \in DOMAIN fired :
    \/ fired[i] \in Starts
    \/ \E j \in 1..(i - 1) : fired[j] = fired[i] - 1

\* cursor.json never names a block that was not fired: Save comes after
\* Handle, so a cursor cannot make a later life jump over a block.
CursorNamesFiredBlock == file \in Nat => file \in Fired

\* While a process is between two blocks, everything up to its position is
\* on disk: only a life cut short between Handle and the end of Save can
\* leave the cursor behind what was fired.
CursorCaughtUp ==
  /\ pc \in {"get", "handle"}
  /\ opts.persist
  /\ Len(fired) > lifeFrom
  => file = fired[Len(fired)]

\* One life of the process fires consecutive blocks, without a repetition.
LifeIsConsecutive ==
  \A i \in (lifeFrom + 1)..(Len(fired) - 1) : fired[i + 1] = fired[i] + 1

\* Run with one command line that uses the cursor, the process repeats at
\* most the last block it fired, however often it is restarted: the lines
\* go up by one, or stay where they are once.
ReplaysOnlyLastBlock ==
  \A i \in 1..(Len(fired) - 1) : fired[i + 1] \in {fired[i], fired[i] + 1}

\* A repeated line is always the price of a crash or of a failed Save: a life
\* that was cancelled, or that ended because a call before Handle failed,
\* never makes the next one fire a block again.
ReplaysPaidByUncleanEnds == Len(fired) - Cardinality(Fired) <= unclean

\* What the reader was given is what BlockStream promises: ledgers that were
\* closed, none before its predecessor unless an operator asked for it.
Stream ==
  INSTANCE BlockStream
    WITH Starts <- Starts, MaxHead <- MaxHead, head <- head, delivered <- delivered

StreamPromise == Stream!Spec

\* A process that relies on a truncated cursor.json ends before it fires.
Wedged == pc = "down" /\ file = Torn /\ \A o \in Launches : o.persist /\ ~o.ignore

\* There is no way out of that: where every launch relies on cursor.json, a
\* process that was cut short inside os.WriteFile is followed by none that
\* writes the file, or a line, again.
TornIsFinal ==
  [][(\A o \in Launches : o.persist /\ ~o.ignore) /\ file = Torn /\ pc # "write"
       => UNCHANGED <<file, fired>>]_vars

\* When failures stop, every ledger the network closes from the first
\* streamable block on reaches the reader, unless a failure inside
\* os.WriteFile has left a truncated cursor.json that every launch relies on.
EveryLedgerDelivered ==
  \A n \in 1..MaxHead :
    (head >= n /\ \A o \in Launches : n >= o.start)
      ~> (n \in delivered \/ Wedged)

\* fetcher_captive_core.go:37, "restarts resume where they stopped": a process
\* that ended is running its loop again after a while.
RestartsResume == (pc = "down") ~> (pc = "get")
=============================================================================
