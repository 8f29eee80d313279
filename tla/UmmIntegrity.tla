---------------------------- MODULE UmmIntegrity ----------------------------
(***************************************************************************)
(* umm_integrity_check (umm_malloc/umm_integrity.c), run by the console    *)
(* command "view alloc fasti" or "view alloc slowi" over UmmHeap.  It      *)
(* walks the free list, marking every block of it with the top bit of its  *)
(* UMM_PBLOCK, then the block list, comparing that mark with the free bit  *)
(* and taking it off again.  It takes no UMM_CRITICAL: other tasks malloc  *)
(* and free between any two of its steps, and between the load and the     *)
(* store of a mark.  No code of the repository calls umm_realloc on a heap *)
(* that is checked, and the composition leaves it out.                     *)
(***************************************************************************)
EXTENDS UmmHeap

VARIABLES
  pc,       \* idle or the statement the walk is at
  prev,     \* its local variables
  cur,
  verdict,  \* what the last check returned: TRUE for "Heap validated"
  loaded,   \* the number in the UMM_PBLOCK it has loaded and not yet stored
  met,      \* has another task used the heap during a check so far?
  torn      \* has a store of the check put an old number back into the list?
walk == <<pc, prev, cur, verdict, loaded, torn>>
wvars == <<heap, ptr, want, denied, walk, met>>

InitWalk ==
  /\ Init /\ pc = "idle" /\ prev = 0 /\ cur = 0 /\ loaded = 0 /\ verdict = TRUE
  /\ met = FALSE /\ torn = FALSE

TooLarge == N
(* A link read from memory: memory a program has overwritten reads as any  *)
(* block number, or as one too large.                                      *)
Link(half, field) == IF half \in Data THEN Blocks \cup {TooLarge} ELSE {half[field]}
FreeBit(half) == IF half \in Data THEN BOOLEAN ELSE {half.free}
MarkBit(half) == IF half \in Data THEN BOOLEAN ELSE {half.mark}

Smashed == 2 * N
(* UMM_PBLOCK(b) overwritten with the number loaded from it and its top    *)
(* bit: data there changes, unless it was the same already.                *)
Marked(b, bit) ==
  IF heap.hdr[b] \in Data
  THEN {heap, [hdr |-> [heap.hdr EXCEPT ![b].word = Smashed], body |-> heap.body]}
  ELSE {[hdr |-> [heap.hdr EXCEPT ![b].prev = loaded, ![b].mark = bit], body |-> heap.body]}

(* The two halves of UMM_PBLOCK(cur) |= and &=: nothing keeps the other    *)
(* tasks from the block between them.  A number beyond the heap, read from *)
(* data, does what any other wrong one does.                               *)
LoadBack ==
  /\ loaded' \in IF heap.hdr[cur] \in Data THEN Blocks ELSE {heap.hdr[cur].prev}
  /\ UNCHANGED <<heap, torn>>
StoreBack(heaps) ==
  /\ heap' \in heaps
  /\ loaded' = 0
  /\ torn' = (torn \/ (cur \in Starts /\ heap'.hdr[cur].prev # heap.hdr[cur].prev))

StayPut == prev
(* prev = cur *)
Advance == cur

StoresNothing == UNCHANGED <<heap, loaded, torn>>
Return(v) == pc' = "idle" /\ verdict' = v /\ prev' = 0 /\ cur' = 0

Start ==
  /\ pc = "idle"
  /\ pc' = "free" /\ prev' = 0
  /\ StoresNothing /\ UNCHANGED <<cur, verdict>>

NextFree ==
  /\ pc = "free"
  /\ \E c \in Link(heap.body[prev], "next") :
       \/ c = TooLarge /\ Return(FALSE)
       \/ c = 0 /\ pc' = "all" /\ prev' = 0 /\ UNCHANGED <<cur, verdict>>
       \/ c \in Blocks \ {0} /\ pc' = "back" /\ cur' = c /\ UNCHANGED <<prev, verdict>>
  /\ StoresNothing

BackLink ==
  /\ pc = "back"
  /\ \E p \in Link(heap.body[cur], "prev") :
       \/ p # prev /\ Return(FALSE)
       \/ p = prev /\ pc' = "mark" /\ UNCHANGED <<prev, cur, verdict>>
  /\ StoresNothing

LoadMark ==
  /\ pc = "mark" /\ pc' = "marked"
  /\ LoadBack
  /\ UNCHANGED <<prev, cur, verdict>>

Mark ==
  /\ pc = "marked" /\ pc' = "free"
  /\ StoreBack(Marked(cur, TRUE))
  /\ prev' = Advance
  /\ UNCHANGED <<cur, verdict>>

NextBlock ==
  /\ pc = "all"
  /\ \E c \in Link(heap.hdr[prev], "next") :
       \/ c = TooLarge /\ Return(FALSE)
       \/ c = 0 /\ Return(TRUE)
       \/ c \in Blocks \ {0} /\ pc' = "flags" /\ cur' = c /\ UNCHANGED <<prev, verdict>>
  /\ StoresNothing

Flags ==
  /\ pc = "flags"
  /\ \E free \in FreeBit(heap.hdr[cur]), mark \in MarkBit(heap.hdr[cur]) :
       \/ (free # mark \/ cur <= prev) /\ Return(FALSE)
       \/ free = mark /\ cur > prev /\ pc' = "unmark" /\ UNCHANGED <<prev, cur, verdict>>
  /\ StoresNothing

KeepMark(b) == {heap}
TakeMark(b) == Marked(b, FALSE)

LoadUnmark ==
  /\ pc = "unmark" /\ pc' = "unmarked"
  /\ LoadBack
  /\ UNCHANGED <<prev, cur, verdict>>

Unmark ==
  /\ pc = "unmarked" /\ pc' = "link"
  /\ StoreBack(TakeMark(cur))
  /\ UNCHANGED <<prev, cur, verdict>>

BlockLink ==
  /\ pc = "link"
  /\ \E p \in Link(heap.hdr[cur], "prev"), mark \in MarkBit(heap.hdr[cur]) :
       \/ (mark \/ p # prev) /\ Return(FALSE)
       \/ ~mark /\ p = prev /\ pc' = "all" /\ prev' = Advance /\ UNCHANGED <<cur, verdict>>
  /\ StoresNothing

Check ==
  /\ \/ Start \/ NextFree \/ BackLink \/ LoadMark \/ Mark
     \/ NextBlock \/ Flags \/ LoadUnmark \/ Unmark \/ BlockLink
  /\ UNCHANGED <<ptr, want, denied, met>>

(* The other tasks, at any step of a check or between two checks, until    *)
(* the list is torn: what they then make of it (umm_free takes data for a  *)
(* header, umm_malloc.c:296) is not modelled.                              *)
Others ==
  /\ ~torn
  /\ \E id \in Ids : Free(id) \/ \E size \in Sizes : Malloc(id, size)
  /\ met' = (met \/ pc # "idle")
  /\ UNCHANGED walk

NextWalk == Check \/ Others

(* The console task that runs the check goes on with it. *)
SpecWalk == InitWalk /\ [][NextWalk]_wvars /\ WF_wvars(pc # "idle" /\ Check)

-----------------------------------------------------------------------------
(* The heap's types, and the walk's: its block numbers stay in the heap.   *)
WalkTypeOK ==
  /\ TypeOK
  /\ pc \in {"idle", "free", "back", "mark", "marked", "all", "flags",
            "unmark", "unmarked", "link"}
  /\ {prev, cur, loaded} \subseteq Blocks /\ {verdict, met, torn} \subseteq BOOLEAN

(* "Returns 1 in case of success, 0 otherwise" (umm_integrity.c:4): a heap *)
(* that only malloc and free have written, and only between the checks, is *)
(* never reported corrupted.                                               *)
NoFalseAlarm == ~met => verdict

(* Such a check leaves the heap as it found it: sound lists, no block      *)
(* marked, every allocation's data as it was.                              *)
LeavesNoTrace == pc = "idle" /\ ~met => BlockListSound /\ FreeListSound /\ DataIntact

(* A check that has the heap to itself is right and leaves no trace.       *)
LoneCheckSound == NoFalseAlarm /\ LeavesNoTrace

(* What a check writes into a heap that moves under it breaks neither the  *)
(* links of either list nor the accounting of the blocks, as long as none  *)
(* of its stores comes late, between a load and which umm_malloc or        *)
(* umm_free gave the block another predecessor (umm_integrity.c 61, 107).  *)
HeapSurvives ==
  ~torn => /\ FreeListSound /\ NothingLost
           /\ \A b \in Starts \ {N - 1} : heap.hdr[heap.hdr[b].next].prev = b

(* A check returns, though its loops have no bound but the lists' ends.    *)
CheckReturns == pc # "idle" ~> pc = "idle" \/ met
=============================================================================
