------------------------------ MODULE MCICache ------------------------------
(* Small instances of ICache for TLC. *)
EXTENDS ICache

CONSTANTS p1, p2

Instr(page, first, last, mode) == [page |-> page, first |-> first, last |-> last, mode |-> mode]

\* Code over the lines of p1 in two modes, and at the start of p2.
MCInstructions ==
  {Instr(p1, 0, 0, 1), Instr(p1, 0, 1, 0), Instr(p1, 1, 2, 1),
   Instr(p1, 2, 3, 0), Instr(p2, 0, 0, 0)}
MCBoundaries == {[page |-> p1, mode |-> 0], [page |-> p1, mode |-> 1]}
MCMasks == {{0}, {1, 2}, {3}}
=============================================================================
