---------------------------- MODULE HeapAllocator ----------------------------
(***************************************************************************)
(* What the heap of umm_malloc.c promises its callers, with no lists and   *)
(* no headers: each pointer of the program owns an interval of blocks,     *)
(* disjoint from the others; a request fails only when no free interval is *)
(* long enough, and a new allocation is cut from a smallest gap that fits. *)
(***************************************************************************)
EXTENDS Integers, FiniteSets

CONSTANTS
  Cells,    \* the blocks that can be handed out, an interval of integers
  Ids,      \* the program's pointers
  Lengths   \* the numbers of blocks asked for

VARIABLES
  extent,   \* the blocks each pointer owns, {} for NULL
  denied    \* blocks the last call asked for in vain, 0 when it succeeded
vars == <<extent, denied>>

Init ==
  /\ extent = [i \in Ids |-> {}]
  /\ denied = 0

Unowned == Cells \ UNION {extent[i] : i \in Ids}

(* The places in the set s of blocks where k consecutive blocks begin *)
Places(s, k) == {c \in s : c .. c + k - 1 \subseteq s}

(* The gaps of s: its maximal intervals *)
Gaps(s) ==
  {g \in {a .. b : a \in s, b \in s} :
     /\ g # {} /\ g \subseteq s
     /\ \A c \in s \ g : c + 1 \notin g /\ c - 1 \notin g}

(* The first blocks of the smallest gaps that hold k blocks *)
BestPlaces(s, k) ==
  LET fits == {g \in Gaps(s) : Cardinality(g) >= k}
  IN  {c \in s : \E g \in fits :
                   /\ c \in g /\ \A x \in g : c <= x
                   /\ \A h \in fits : Cardinality(g) <= Cardinality(h)}

Alloc(i, k) ==
  /\ extent[i] = {}
  /\ \/ \E c \in BestPlaces(Unowned, k) :
          extent' = [extent EXCEPT ![i] = c .. c + k - 1] /\ denied' = 0
     \/ /\ Places(Unowned, k) = {}
        /\ UNCHANGED extent /\ denied' = k

Release(i) ==
  /\ extent[i] # {}
  /\ extent' = [extent EXCEPT ![i] = {}]
  /\ denied' = 0

(* The new interval may overlap the old one and lies outside the others;   *)
(* a failed call loses the old one.                                        *)
Resize(i, k) ==
  /\ extent[i] # {}
  /\ LET room == Unowned \cup extent[i] IN
     \/ \E c \in Places(room, k) :
          extent' = [extent EXCEPT ![i] = c .. c + k - 1] /\ denied' = 0
     \/ /\ Places(room, k) = {}
        /\ extent' = [extent EXCEPT ![i] = {}] /\ denied' = k

Next ==
  \E i \in Ids : Release(i) \/ \E k \in Lengths : Alloc(i, k) \/ Resize(i, k)

Spec == Init /\ [][Next]_vars
=============================================================================
