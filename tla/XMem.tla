-------------------------------- MODULE XMem --------------------------------
(***************************************************************************)
(* x_malloc, x_calloc, x_realloc and x_free (src/firmware/src/xmem.c) over *)
(* one of the two heaps.  With XMEM_HEAP_ALIGN32 the caller gets whole     *)
(* cache lines of 32 bytes: x_malloc asks for more, moves the pointer up   *)
(* to the next line and leaves the shift in the word below it, where       *)
(* x_free finds it again, knowing an aligned pointer by its address alone. *)
(*                                                                         *)
(* An address counts from the start of the heap array, which is aligned to *)
(* 32.  A call that fails returns NULL, as with XMEM_HEAP_SKIP_HOOK; the   *)
(* others stop the firmware in vApplicationMallocFailedHook.               *)
(***************************************************************************)
EXTENDS UmmHeap

CONSTANT AlignSizes   \* bytes asked for with XMEM_HEAP_ALIGN32

NoRoomToShift(size) == ((size + 31) \div 32) * 32

(* Whole lines, and one to shift within.                                   *)
calcAlign32(size) == ((size + 31) \div 32) * 32 + 32

ASSUME AlignAssumption == AlignSizes \subseteq Nat \ {0}

VARIABLES
  address,   \* the pointers the program holds, 0 for NULL
  lines      \* the cache lines it was promised behind each, 0 without alignment
xvars == <<vars, address, lines>>

InitX ==
  /\ Init
  /\ address = [i \in Ids |-> 0] /\ lines = [i \in Ids |-> 0]

(* A cache line *)
Line == 32
PayloadAt(b) == IF b = 0 THEN 0 ELSE 16 * b + 8
ShiftDown(a) == a % Line

(* From a payload, 8 or 24 past a line, up to the next one.                *)
ShiftOf(a) == Line - (a % Line)

(* calcAlign32Ptr: the pointer moves up by shift bytes, and the last word  *)
(* below it says how many.                                                 *)
PutShift(m, b, id) ==
  LET s == ShiftOf(PayloadAt(b))
      w == s \div 8 - 1
  IN  PutWords(m, b, w, w + 1, [x \in {w} |-> [id |-> id, word |-> s]])

(* The address that umm_free gets from x_free.                             *)
Origin(a) == IF a % Line = 0 THEN a - heap.body[a \div 16 - 1].word ELSE a

XMalloc(id, size) ==
  /\ Malloc(id, size)
  /\ address' = [address EXCEPT ![id] = PayloadAt(ptr'[id])]
  /\ UNCHANGED lines

(* The cache lines that hold size bytes; the program fills them.           *)
Lines(size) == (size + 31) \div 32
XMallocAlign32(id, size) ==
  LET new == UmmMalloc(heap, UmmBlocks(calcAlign32(size)))
      s   == ShiftOf(PayloadAt(new.block))
      w   == s \div 8
  IN
  /\ ptr[id] = 0
  /\ heap' = IF new.block = 0 THEN new.heap
             ELSE Store(PutShift(new.heap, new.block, id), new.block, id,
                        w, w + 4 * Lines(size))
  /\ ptr' = [ptr EXCEPT ![id] = new.block]
  /\ want' = [want EXCEPT ![id] = IF new.block = 0 THEN 0 ELSE calcAlign32(size)]
  /\ address' = [address EXCEPT ![id] = IF new.block = 0 THEN 0 ELSE PayloadAt(new.block) + s]
  /\ lines' = [lines EXCEPT ![id] = IF new.block = 0 THEN 0 ELSE Lines(size)]
  /\ Outcome(calcAlign32(size), new.block)

(* "No cache aligned functions should use realloc": the assertion of line  *)
(* 145 stops one that does.                                                *)
XRealloc(id, size) ==
  /\ address[id] % Line # 0
  /\ Realloc(id, size)
  /\ address' = [address EXCEPT ![id] = PayloadAt(ptr'[id])]
  /\ UNCHANGED lines

(* umm_free divides by the size of a block. *)
XFree(id) ==
  /\ address[id] # 0
  /\ heap' = UmmFree(heap, Origin(address[id]) \div 16)
  /\ ptr' = [ptr EXCEPT ![id] = 0] /\ want' = [want EXCEPT ![id] = 0]
  /\ address' = [address EXCEPT ![id] = 0] /\ lines' = [lines EXCEPT ![id] = 0]
  /\ denied' = 0

NextX ==
  \E id \in Ids :
    \/ XFree(id)
    \/ \E size \in Sizes : XMalloc(id, size) \/ XRealloc(id, size)
    \/ \E size \in AlignSizes : XMallocAlign32(id, size)

SpecX == InitX /\ [][NextX]_xvars

-----------------------------------------------------------------------------
XTypeOK ==
  TypeOK /\ address \in [Ids -> 0 .. 16 * N] /\ lines \in [Ids -> 0 .. N]

(* The words of its allocation that pointer i may use. *)
Aligned(i) == lines[i] # 0
Usable(i) ==
  LET w == (address[i] - PayloadAt(ptr[i])) \div 8
      n == IF Aligned(i) THEN 4 * lines[i] ELSE WordsIn(want[i])
  IN  IF ptr[i] = 0 THEN {} ELSE w .. w + n - 1

(* The memory a pointer was given, whole cache lines with alignment, lies  *)
(* in its own blocks.  It is never written by the heap or through another  *)
(* pointer, and a realloc carries what fits to its new place: neither      *)
(* umm_malloc's links, umm_split_block's headers, the memmove of curSize   *)
(* bytes (umm_malloc.c 579), the memcpy (618) nor a shift word (xmem.c 49) *)
(* ever lands in it.                                                       *)
PointersHold ==
  \A i \in Ids : ptr[i] # 0 =>
    /\ Usable(i) \subseteq 0 .. 2 * BlockSize(heap, ptr[i]) - 2
    /\ \A w \in Usable(i) : Word(heap, ptr[i], w) = [id |-> i, word |-> w]

(* x_free gives umm_free the address umm_malloc returned: an address tells *)
(* whether it is aligned, and the shift word below it survives whatever    *)
(* the owner, the neighbours and the heap have written meanwhile.          *)
FreesItsOwn ==
  \A i \in Ids : ptr[i] # 0 =>
    /\ address[i] % Line = 0 <=> Aligned(i)
    /\ Origin(address[i]) = PayloadAt(ptr[i])

(* The heap implements the abstract allocator: each pointer's blocks are   *)
(* disjoint from the others', a call fails only when no free interval      *)
(* (with the old one, for a realloc) is long enough, and umm_malloc takes  *)
(* the front of a smallest gap that fits (UMM_BEST_FIT).                   *)
Requests == {UmmBlocks(s) : s \in Sizes \ {0}} \cup {UmmBlocks(calcAlign32(s)) : s \in AlignSizes}
Allocator == INSTANCE HeapAllocator
  WITH Cells <- 1 .. N - 2, extent <- Extent, Lengths <- Requests
AllocatorSpec == Allocator!Spec
=============================================================================
