------------------------------- MODULE MCXMem -------------------------------
(* Model checking of XMem and UmmHeap: a heap of a few blocks.             *)
EXTENDS XMem, TLC

Symmetry == Permutations(Ids)

(* States that differ only in memory nobody holds are the same state: the  *)
(* view keeps the headers of the block list, the links of the free list,   *)
(* the words the program may use and those that hold a shift.  A heap with *)
(* a broken pointer is looked at as it is.                                 *)
Kept(i) == Usable(i) \cup (IF Aligned(i) THEN {(address[i] - PayloadAt(ptr[i])) \div 8 - 1} ELSE {})
Held == UNION {{ptr[i] * 2 + w : w \in Kept(i)} : i \in Ids}
View ==
  LET starts == Starts
      free   == OnFreeList \cup {0}
      held   == Held
  IN  IF ~PointersHold THEN <<heap, ptr, want, address, lines, denied>>
      ELSE
      << [b \in Blocks |-> IF b \in starts \/ 2 * b - 1 \in held THEN heap.hdr[b] ELSE 0],
         [b \in Blocks |-> IF b \in free \/ 2 * b \in held THEN heap.body[b] ELSE 0],
         ptr, want, address, lines, denied >>
=============================================================================
