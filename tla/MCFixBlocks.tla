----------------------------- MODULE MCFixBlocks -----------------------------
(* Ranges for the TLC runs of FixBlocks.                                   *)
EXTENDS FixBlocks

CONSTANTS r1, r2

\* Two ranges that do not overlap, next to each other or not.  Both runs are
\* told the same first streamable block or none, or each its own start,
\* whatever the source begins with.
Parallel ==
  {a \in [{r1, r2} -> Range] :
     /\ a[r1].start < a[r1].stop /\ a[r2].start < a[r2].stop
     /\ a[r1].stop <= a[r2].start
     /\ \/ a[r1].first = a[r2].first /\ a[r1].first \in {0, 3}
        \/ a[r1].first = a[r1].start /\ a[r2].first = a[r2].start}
=============================================================================
