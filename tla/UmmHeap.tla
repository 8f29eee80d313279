------------------------------- MODULE UmmHeap -------------------------------
(***************************************************************************)
(* The heap of src/firmware/src/umm_malloc/umm_malloc.c: an array of       *)
(* 16-byte blocks, each a header and a body of 8 bytes.  Block 0 heads the *)
(* free list, the last block ends the block list.  Every operation runs    *)
(* with the scheduler suspended (UMM_CRITICAL_ENTRY), so it is one step.   *)
(* XMem and UmmIntegrity compose the operations into specifications.       *)
(*                                                                         *)
(* A header [next, free, prev, mark] is UMM_NBLOCK with its top bit free   *)
(* and UMM_PBLOCK with its top bit mark (only umm_integrity_check sets     *)
(* it).  umm_free indexes with the marked number too (lines 296 and 181):  *)
(* 16 times it wraps at 2^32 to the address of the block it marks, so the  *)
(* number is all that counts.                                              *)
(* A body [next, prev] is UMM_NFREE and UMM_PFREE.  The C unions are       *)
(* kept: the payload of an allocation is the body of its first block, then *)
(* the headers and bodies of its other blocks, in words of 8 bytes; the    *)
(* program stores [id, word] in them.                                      *)
(***************************************************************************)
EXTENDS Integers

CONSTANTS
  N,      \* umm_numblocks
  Ids,    \* the program's pointers
  Sizes   \* bytes asked for

ASSUME HeapAssumption == N \in Nat /\ N > 2 /\ Sizes \subseteq Nat

VARIABLES
  heap,   \* [hdr, body]: the memory
  ptr,    \* block number behind each pointer of the program, 0 for NULL
  want,   \* bytes last asked for through it
  denied  \* blocks the last call asked for in vain, 0 when it succeeded
vars == <<heap, ptr, want, denied>>

Blocks == 0 .. N - 1

Init ==
  /\ heap = [hdr  |-> [b \in Blocks |->
                         [next |-> IF b = 0 THEN 1 ELSE IF b = 1 THEN N - 1 ELSE 0,
                          free |-> b = 1,
                          prev |-> IF b = N - 1 THEN 1 ELSE 0,
                          mark |-> FALSE]],
             body |-> [b \in Blocks |->
                         [next |-> IF b = 0 THEN 1 ELSE 0,
                          prev |-> IF b = 0 THEN 1 ELSE 0]]]
  /\ ptr = [i \in Ids |-> 0] /\ want = [i \in Ids |-> 0]
  /\ denied = 0

-----------------------------------------------------------------------------
BlocksTight(size) == IF size <= 8 THEN 1 ELSE 1 + (size - 8) \div 16

(* umm_blocks: a block holds 8 bytes, each further block 16.               *)
UmmBlocks(size) == IF size <= 8 THEN 1 ELSE 2 + (size - 9) \div 16

(* Payload word w of the allocation at block c, and n words written there. *)
Word(m, c, w) == IF w % 2 = 0 THEN m.body[c + w \div 2] ELSE m.hdr[c + (w + 1) \div 2]
PutWords(m, c, lo, hi, val) ==
  [hdr  |-> [b \in Blocks |-> LET w == 2 * (b - c) - 1 IN
                IF w \in lo .. hi - 1 THEN val[w] ELSE m.hdr[b]],
   body |-> [b \in Blocks |-> LET w == 2 * (b - c) IN
                IF w \in lo .. hi - 1 THEN val[w] ELSE m.body[b]]]
WordsIn(size) == (size + 7) \div 8
Store(m, c, id, lo, hi) ==
  PutWords(m, c, lo, hi, [w \in lo .. hi - 1 |-> [id |-> id, word |-> w]])
(* memmove, memcpy of n words *)
Copy(m, from, to, n) == PutWords(m, to, 0, n, [w \in 0 .. n - 1 |-> Word(m, from, w)])

-----------------------------------------------------------------------------
DisconnectOneWay(m, c) ==
  [m EXCEPT !.body[m.body[c].prev].next = m.body[c].next, !.hdr[c].free = FALSE]

(* umm_disconnect_from_free_list *)
Disconnect(m, c) ==
  LET n == m.body[c].next
      p == m.body[c].prev
  IN  [hdr  |-> [m.hdr EXCEPT ![c].free = FALSE],
       body |-> [m.body EXCEPT ![p].next = n, ![n].prev = p]]

(* umm_assimilate_up: merge the used block c with a free block after it *)
AssimilateUp(m, c) ==
  LET n == m.hdr[c].next
      nn == m.hdr[n].next
      d == Disconnect(m, n)
  IN  IF ~m.hdr[n].free THEN m
      ELSE [hdr  |-> [d.hdr EXCEPT ![nn].prev = c, ![nn].mark = FALSE, ![c].next = nn],
            body |-> d.body]

(* umm_assimilate_down: merge the used block c into the block before it *)
AssimilateDown(m, c, free) ==
  LET n == m.hdr[c].next
      p == m.hdr[c].prev
  IN  [hdr  |-> [m.hdr EXCEPT ![p].next = n, ![p].free = free,
                              ![n].prev = p, ![n].mark = m.hdr[c].mark],
       body |-> m.body]

(* umm_split_block: c keeps k blocks and is used, c + k gets the others *)
SplitBlock(m, c, k, free) ==
  LET n == m.hdr[c].next
  IN  [hdr  |-> [m.hdr EXCEPT ![c + k] = [next |-> n, free |-> free, prev |-> c, mark |-> FALSE],
                              ![n].prev = c + k, ![n].mark = FALSE,
                              ![c].next = c + k, ![c].free = FALSE],
       body |-> m.body]

(* Put the used block c at the head of the free list *)
PushFree(m, c) ==
  LET first == m.body[0].next
  IN  [hdr  |-> [m.hdr EXCEPT ![c].free = TRUE],
       body |-> [m.body EXCEPT ![c] = [next |-> first, prev |-> 0],
                               ![first].prev = c, ![0].next = c]]

(* umm_free of the allocation at block c *)
UmmFree(m, c) ==
  LET u == AssimilateUp(m, c)
  IN  IF u.hdr[u.hdr[c].prev].free THEN AssimilateDown(u, c, TRUE)
                                   ELSE PushFree(u, c)

BlockSize(m, b) == m.hdr[b].next - b

(* The free list in the order malloc scans it: FreeAt(m)[k] is the k-th    *)
(* block, 0 past its end.                                                  *)
FreeAt(m) ==
  LET at[k \in 0 .. N] ==
        IF k = 0 THEN m.body[0].next
        ELSE LET b == at[k - 1] IN IF b = 0 THEN 0 ELSE m.body[b].next
  IN  at

FirstFit(m, k) ==
  LET at == FreeAt(m)
      fits == {i \in 0 .. N : at[i] # 0 /\ BlockSize(m, at[i]) >= k}
  IN  IF fits = {} THEN 0 ELSE at[CHOOSE i \in fits : \A j \in fits : i <= j]

(* The scan of umm_malloc: the first of the smallest blocks that fit.  If  *)
(* none fits it returns 0: then the last block it looked at, whose size    *)
(* line 395 tests once more, does not fit either.                          *)
BestFit(m, k) ==
  LET at == FreeAt(m)
      fits == {i \in 0 .. N : at[i] # 0 /\ BlockSize(m, at[i]) >= k}
      better(i, j) == \/ BlockSize(m, at[i]) < BlockSize(m, at[j])
                      \/ BlockSize(m, at[i]) = BlockSize(m, at[j]) /\ i <= j
  IN  IF fits = {} THEN 0 ELSE at[CHOOSE i \in fits : \A j \in fits : better(i, j)]

MoveLinksOneWay(m, c, r) ==
  [m EXCEPT !.body[r] = m.body[c], !.body[m.body[c].prev].next = r]

(* The rest of a free block that is not taken whole: it takes the place of *)
(* the block in the free list.                                             *)
MoveLinks(m, c, r) ==
  LET n == m.body[c].next
      p == m.body[c].prev
  IN  [hdr  |-> m.hdr,
       body |-> [m.body EXCEPT ![r] = [next |-> n, prev |-> p],
                               ![p].next = r, ![n].prev = r]]

(* umm_malloc of k blocks: the new heap and the block, 0 when out of memory *)
UmmMalloc(m, k) ==
  LET c == BestFit(m, k)
  IN  CASE c = 0 -> [heap |-> m, block |-> 0]
        [] c # 0 /\ BlockSize(m, c) = k -> [heap |-> Disconnect(m, c), block |-> c]
        [] OTHER -> [heap |-> MoveLinks(SplitBlock(m, c, k, TRUE), c, c + k),
                     block |-> c]

RelocateLeaks(m, d, k, n) ==
  LET new == UmmMalloc(m, k)
  IN  IF new.block = 0 THEN [heap |-> UmmFree(m, d), block |-> 0]
      ELSE [heap |-> Copy(new.heap, d, new.block, n), block |-> new.block]

(* The last resort of umm_realloc: move n words from block d to a new      *)
(* allocation and free d.  When there is no room, d is freed all the same. *)
Relocate(m, d, k, n) ==
  LET new == UmmMalloc(m, k)
  IN  [heap  |-> UmmFree(IF new.block = 0 THEN m ELSE Copy(new.heap, d, new.block, n), d),
       block |-> new.block]

(* umm_realloc of the allocation at block c to k blocks: grow into a free  *)
(* block after it, then into one before it if that is enough, then cut the *)
(* rest off, or move.                                                      *)
UmmRealloc(m, c, k) ==
  LET n    == 2 * BlockSize(m, c) - 1          \* curSize, in words
      up   == AssimilateUp(m, c)
      p    == up.hdr[c].prev
      down == up.hdr[p].free /\ k <= up.hdr[c].next - p
      d    == IF down THEN p ELSE c
      g    == IF down THEN Copy(AssimilateDown(Disconnect(up, p), c, FALSE), c, p, n)
                      ELSE up
  IN  CASE BlockSize(m, c) = k -> [heap |-> m, block |-> c]
        [] BlockSize(m, c) # k /\ BlockSize(g, d) = k -> [heap |-> g, block |-> d]
        [] BlockSize(m, c) # k /\ BlockSize(g, d) > k ->
             [heap |-> UmmFree(SplitBlock(g, d, k, FALSE), d + k), block |-> d]
        [] OTHER -> Relocate(g, d, k, n)

-----------------------------------------------------------------------------
Outcome(size, b) == denied' = IF b = 0 THEN UmmBlocks(size) ELSE 0

(* The program asks for memory and fills it (umm_calloc: with zeroes).     *)
Malloc(id, size) ==
  /\ ptr[id] = 0 /\ size > 0
  /\ LET r == UmmMalloc(heap, UmmBlocks(size)) IN
     /\ heap' = IF r.block = 0 THEN r.heap
                ELSE Store(r.heap, r.block, id, 0, WordsIn(size))
     /\ ptr' = [ptr EXCEPT ![id] = r.block]
     /\ want' = [want EXCEPT ![id] = IF r.block = 0 THEN 0 ELSE size]
     /\ Outcome(size, r.block)

Free(id) ==
  /\ ptr[id] # 0
  /\ heap' = UmmFree(heap, ptr[id])
  /\ ptr' = [ptr EXCEPT ![id] = 0] /\ want' = [want EXCEPT ![id] = 0]
  /\ denied' = 0

(* A size of 0 frees; otherwise the program fills what the call has added. *)
Realloc(id, size) ==
  /\ ptr[id] # 0 /\ size > 0
  /\ LET r == UmmRealloc(heap, ptr[id], UmmBlocks(size)) IN
     /\ heap' = IF r.block = 0 THEN r.heap
                ELSE Store(r.heap, r.block, id, WordsIn(want[id]), WordsIn(size))
     /\ ptr' = [ptr EXCEPT ![id] = r.block]
     /\ want' = [want EXCEPT ![id] = IF r.block = 0 THEN 0 ELSE size]
     /\ Outcome(size, r.block)

-----------------------------------------------------------------------------
Header == [next : Blocks, free : BOOLEAN, prev : Blocks, mark : BOOLEAN]
Links  == [next : Blocks, prev : Blocks]
Data   == [id : Ids, word : Nat]

(* The type of every variable: each half block holds metadata or data, the *)
(* list heads and the last header always metadata; a pointer's bytes fit   *)
(* in its blocks.                                                          *)
TypeOK ==
  /\ DOMAIN heap.hdr = Blocks /\ DOMAIN heap.body = Blocks
  /\ \A b \in Blocks : heap.hdr[b] \in Header \/ heap.hdr[b] \in Data
  /\ \A b \in Blocks : heap.body[b] \in Links \/ heap.body[b] \in Data
  /\ \A b \in {0, N - 1} : heap.hdr[b] \in Header
  /\ heap.body[0] \in Links
  /\ ptr \in [Ids -> 0 .. N - 2] /\ want \in [Ids -> Nat]
  /\ \A i \in Ids : ptr[i] # 0 => want[i] \in 1 .. 16 * BlockSize(heap, ptr[i]) - 8

(* The block list in the order of memory, up to the last block, whose next *)
(* is 0, or to a block whose header is overwritten; ListAt(m)[k] is its    *)
(* k-th block.                                                             *)
ListAt(m) ==
  LET at[k \in 0 .. N] ==
        IF k = 0 THEN 0
        ELSE LET b == at[k - 1]
             IN  IF b \in 0 .. N - 2 /\ m.hdr[b] \in Header THEN m.hdr[b].next ELSE b
  IN  at
Starts == {ListAt(heap)[k] : k \in 0 .. N}
OnFreeList == {FreeAt(heap)[k] : k \in 0 .. N} \ {0}
FreeStarts == {b \in Starts : heap.hdr[b].free}

(* The memory an allocation holds is never written by the heap or through  *)
(* another pointer, and a realloc carries what fits of it to its new place: *)
(* neither umm_malloc's links, umm_split_block's headers, the memmove of   *)
(* curSize bytes (line 579) nor the memcpy (line 618) ever lands in it.    *)
DataIntact ==
  \A i \in Ids : ptr[i] # 0 =>
    \A w \in 0 .. WordsIn(want[i]) - 1 : Word(heap, ptr[i], w) = [id |-> i, word |-> w]

(* The block list runs strictly upward from block 0 to the last block, and *)
(* every block's UMM_PBLOCK is the block before it, with no mark left: the *)
(* second pass of umm_integrity_check.                                     *)
BlockListSound ==
  /\ N - 1 \in Starts
  /\ \A b \in Starts : heap.hdr[b] \in Header
  /\ \A b \in Starts \ {N - 1} :
       LET n == heap.hdr[b].next
       IN  n > b /\ heap.hdr[n].prev = b /\ ~heap.hdr[n].mark

(* The blocks whose top bit says free are exactly those on the free list,  *)
(* which ends, and whose UMM_PFREE are the blocks before them: the first   *)
(* pass of umm_integrity_check.                                            *)
FreeListSound ==
  /\ OnFreeList = FreeStarts
  /\ FreeAt(heap)[N] = 0
  /\ \A b \in OnFreeList \cup {0} :
       heap.body[b].next # 0 => heap.body[heap.body[b].next].prev = b

(* No two free blocks are neighbours: umm_free and umm_realloc merge both  *)
(* ways, so no request fails for a fragmentation nobody caused.            *)
Coalesced == \A b \in FreeStarts : ~heap.hdr[heap.hdr[b].next].free

(* Both lists, and what they must agree on.                                *)
ListsSound == BlockListSound /\ FreeListSound /\ Coalesced

(* Every used block of the list is the allocation of exactly one pointer,  *)
(* of exactly the blocks it asked for: nothing is lost by a split or a     *)
(* merge, a failed realloc included, and nothing is handed out twice.      *)
NothingLost ==
  /\ Starts \ (FreeStarts \cup {0, N - 1}) = {ptr[i] : i \in Ids} \ {0}
  /\ \A i \in Ids : ptr[i] # 0 =>
       /\ BlockSize(heap, ptr[i]) = UmmBlocks(want[i])
       /\ \A j \in Ids \ {i} : ptr[j] # ptr[i]

(* The blocks each pointer owns. *)
Extent == [i \in Ids |-> IF ptr[i] = 0 THEN {} ELSE ptr[i] .. heap.hdr[ptr[i]].next - 1]
=============================================================================
