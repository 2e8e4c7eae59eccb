------------------------------- MODULE Groups -------------------------------
(***************************************************************************)
(* The events of a transaction come in groups, one per operation.  Loops   *)
(* of the code copy the groups, or the events of one, and leave some out:  *)
(* those of the two fetchers and that of the comparison with stored        *)
(* blocks.                                                                 *)
(***************************************************************************)
EXTENDS Integers, Sequences

\* The groups without those that are unwanted, in their order.
Without(groups, unwanted) ==
  LET copied[n \in 0..Len(groups)] ==
        IF n = 0 THEN <<>>
        ELSE IF groups[n] \in unwanted THEN copied[n - 1]
        ELSE Append(copied[n - 1], groups[n])
  IN  copied[Len(groups)]
=============================================================================
