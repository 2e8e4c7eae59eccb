---------------------------- MODULE BlockStream ----------------------------
(***************************************************************************)
(* What a block fetcher promises to whoever reads its standard output,     *)
(* independently of backends, cursor files, restarts and crashes: the      *)
(* reader is given ledgers the network has closed, and a ledger is only    *)
(* given to it once its predecessor was, unless it is one the operator     *)
(* asked to start from.  The reader may be given the same ledger again     *)
(* (delivery is at least once), which here is a stuttering step.           *)
(***************************************************************************)
EXTENDS Integers

CONSTANTS
  Starts,       \* the first streamable blocks operators ask for
  MaxHead       \* bound: ledgers the network closes

VARIABLES
  head,         \* number of the last ledger the network has closed
  delivered     \* ledgers the reader was given

vars == <<head, delivered>>

Init ==
  /\ head = 1
  /\ delivered = {}

CloseLedger ==
  /\ head < MaxHead
  /\ head' = head + 1
  /\ UNCHANGED delivered

Deliver(n) ==
  /\ n <= head
  /\ n \in Starts \/ n - 1 \in delivered
  /\ delivered' = delivered \union {n}
  /\ UNCHANGED head

Next ==
  \/ CloseLedger
  \/ \E n \in 1..MaxHead : Deliver(n)

Spec == Init /\ [][Next]_vars

\* What the reader has been given has no gaps: it is made of intervals, each
\* of which begins where an operator asked to start.
Unbroken == \A n \in delivered : \E s \in Starts : s <= n /\ s..n \subseteq delivered
=============================================================================
