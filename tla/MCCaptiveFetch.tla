--------------------------- MODULE MCCaptiveFetch ---------------------------
(* Command lines for the TLC runs of CaptiveFetch.                         *)
EXTENDS CaptiveFetch

Cmd(start, ignore, persist, tracked) ==
  [start |-> start, ignore |-> ignore, persist |-> persist, tracked |-> tracked]

\* The documented standalone deployment: one command line, cursor in use.
Resume == {Cmd(2, FALSE, TRUE, FALSE)}

\* The documented supervised deployment: the reader's position is the start
\* block, the cursor is written but ignored.
Supervised == {Cmd(2, TRUE, TRUE, TRUE)}

\* Operators who change the command line between launches: another start
\* block (0 is refused), --ignore-cursor, no state directory.
Mixed ==
  {Cmd(1, FALSE, TRUE, FALSE), Cmd(3, FALSE, TRUE, FALSE),
   Cmd(1, TRUE, TRUE, FALSE), Cmd(3, FALSE, FALSE, FALSE), Cmd(0, TRUE, TRUE, FALSE)}
=============================================================================
