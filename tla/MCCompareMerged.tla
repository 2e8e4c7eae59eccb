--------------------------- MODULE MCCompareMerged ---------------------------
(* Blocks and flags for the TLC runs of CompareMerged.                     *)
EXTENDS CompareMerged

Stored(body, hash, id, noise, lib) ==
  [body |-> body, hash |-> hash, id |-> id, noise |-> noise, lib |-> lib]

Plainly == {Stored(1, "raw", 1, 0, 0)}

\* A v1 block, and one of a new fetcher that measured a call.
Reference == {Stored(1, "garbled", 1, 0, 0), Stored(1, "raw", 1, 7, 0)}

\* The same ledger, stored either way, with its own id or another ledger's,
\* and another ledger's block.
Current ==
  {Stored(1, hash, id, 0, 0) : hash \in {"raw", "garbled"}, id \in {1, 2}}
    \union {Stored(2, "raw", 2, 0, 0)}

\* LibNum, ParentNum or Timestamp differ.
OtherLib == {Stored(1, "raw", 1, 0, 0), Stored(1, "raw", 1, 0, 1)}

\* No normalisation.
Plain ==
  {f \in Flags : ~f.sanitizeRef /\ ~f.sanitizeCur /\ ~f.strip}
=============================================================================
