----------------------------- MODULE MMExplicit -----------------------------
(***************************************************************************)
(* The explicit free-list allocator of src/malloc/src/mm-explicit.c, word  *)
(* by word, and the program that calls it.                                 *)
(*                                                                         *)
(* The heap is memlib's region: 8-byte words at byte addresses HeapBase,   *)
(* HeapBase + 8, ...  A block is a header word (size | allocated), its    *)
(* payload and a footer word; a free block keeps `next` at +8 and `prev`   *)
(* at +16.  A pointer is a byte address and NULL is 0, so a word read as   *)
(* a size may hold a pointer and the other way round, as in the C code.    *)
(*                                                                         *)
(* All of the allocator's state is the record mm, and each C function is   *)
(* an operator from mm (and its arguments) to the new mm (and its result). *)
(* The calling program is single-threaded, so each call is one step.       *)
(***************************************************************************)
EXTENDS Integers, SequencesExt

CONSTANTS
    HeapBase,   \* the first address of memlib's region
    MaxHeap,    \* its size in bytes: mem_sbrk fails beyond it
    Sizes,      \* the sizes the program passes to mm_malloc and mm_realloc
    CallocArgs, \* the <<nmemb, size>> pairs it passes to mm_calloc
    MaxLive     \* how many blocks it holds at once

Addr == {HeapBase + 8 * i : i \in 0 .. MaxHeap \div 8 - 1}
NWords == MaxHeap \div 8
HeapTop == HeapBase + MaxHeap

ASSUME HeapBase > 0 /\ HeapBase % 16 = 0 /\ MaxHeap % 16 = 0

VARIABLES
    mm,      \* [mem, brk, heapFirst, heapLast, freeFirst, freeLast, fault]
    live     \* the program's blocks: payload pointer -> [size, tag]

vars == <<mm, live>>

-----------------------------------------------------------------------------
(* Words, headers and footers                                              *)

\* A read outside the region yields 0; a write outside it is a wild store
\* and ends the run (fault "wild").
Rd(h, a) == IF a \in Addr THEN h.mem[a] ELSE 0
Wr(h, a, v) == IF a \in Addr THEN [h EXCEPT !.mem[a] = v] ELSE [h EXCEPT !.fault = "wild"]

\* size | is_allocated
OrBit(size, al) == IF al /\ size % 2 = 0 THEN size + 1 ELSE size

RoundUp(size, n) == ((size + (n - 1)) \div n) * n

SetHeader(h, b, size, al) == Wr(h, b, OrBit(size, al))
SetFooter(h, b, size, al) == Wr(h, b + size - 8, OrBit(size, al))
GetSize(h, b) == Rd(h, b) - (Rd(h, b) % 2)
IsAllocated(h, b) == Rd(h, b) % 2 = 1
NextOf(h, b) == Rd(h, b + 8)
PrevOf(h, b) == Rd(h, b + 16)

\* memlib's mem_sbrk: move the break by n bytes, or fail past the region.
MemSbrkUnbounded(h, n) == [h |-> [h EXCEPT !.brk = h.brk + n], ok |-> TRUE]

MemSbrk(h, n) ==
    IF h.brk + n > HeapTop THEN [h |-> h, ok |-> FALSE]
    ELSE [h |-> [h EXCEPT !.brk = h.brk + n], ok |-> TRUE]

-----------------------------------------------------------------------------
(* The free list                                                           *)

\* Variant with a bug: the old first block's prev is not pointed back.
BackLinkNone(h, b) == h

\* mm_free_first->prev = freed_block
BackLink(h, b) == Wr(h, h.freeFirst + 16, b)

\* add_to_freelist: mark the block free and push it on the front.
AddToFreelist(h, b) ==
    LET sz == GetSize(h, b)
        h1 == SetFooter(SetHeader(h, b, sz, FALSE), b, sz, FALSE)
    IN IF h1.freeFirst = 0
       THEN [Wr(Wr([h1 EXCEPT !.freeFirst = b], b + 16, 0), b + 8, 0) EXCEPT !.freeLast = b]
       ELSE [Wr(BackLink(h1, b), b + 8, h1.freeFirst) EXCEPT !.freeFirst = b]

\* remove_from_freelist: unlink curr, by its position in the list.
RemoveFromFreelist(h, c) ==
    CASE c = h.freeFirst /\ c = h.freeLast -> [h EXCEPT !.freeFirst = 0, !.freeLast = 0]
      [] c = h.freeFirst -> Wr([h EXCEPT !.freeFirst = NextOf(h, c)], NextOf(h, c) + 16, 0)
      [] c = h.freeLast -> Wr([h EXCEPT !.freeLast = PrevOf(h, c)], PrevOf(h, c) + 8, 0)
      [] OTHER -> LET h1 == Wr(h, NextOf(h, c) + 16, PrevOf(h, c))
                  IN Wr(h1, PrevOf(h1, c) + 8, NextOf(h1, c))

\* find_fit's loop from curr: the first block of at least size bytes, 0 if
\* there is none, -1 if the list does not end (a cycle: the loop never
\* stops).  fuel bounds the walk by the number of words of the region.
RECURSIVE FitFrom(_, _, _, _)
FitFrom(h, curr, size, fuel) ==
    IF h.freeLast = 0 \/ curr = 0 THEN 0
    ELSE IF fuel = 0 THEN -1
    ELSE IF GetSize(h, curr) >= size THEN curr
    ELSE FitFrom(h, NextOf(h, curr), size, fuel - 1)

-----------------------------------------------------------------------------
(* Splitting and coalescing                                                *)

\* Variant with a bug: mm_heap_last is never moved.
MoveLastNever(h, old, new) == h

\* if (old == mm_heap_last) mm_heap_last = new
MoveLast(h, old, new) == IF old = h.heapLast THEN [h EXCEPT !.heapLast = new] ELSE h

\* split_block_exp: allocate the first size bytes of the block, free the rest.
SplitBlockExp(h, b, size, bsize) ==
    LET h1 == SetFooter(SetHeader(h, b, size, TRUE), b, size, TRUE)
        fb == b + size
        h2 == AddToFreelist(SetFooter(SetHeader(h1, fb, bsize - size, FALSE),
                                      fb, bsize - size, FALSE), fb)
    IN [h |-> MoveLast(h2, b, b + size), ptr |-> b + 8]

\* Variant with a bug: the block before is never merged.
LeftMergesNever(h, b, p) == FALSE

\* The test of coalesce_left: not the first block, and the one before free.
LeftMerges(h, b, p) == b # h.heapFirst /\ ~IsAllocated(h, p)

\* coalesce_left: merge with the block before, found through its footer.
CoalesceLeft(h, b) ==
    LET bs == GetSize(h, b)
        psz == Rd(h, b - 8) - (Rd(h, b - 8) % 2)
        p == b - psz
        merge == LeftMerges(h, b, p)
        h1 == IF merge THEN MoveLast(RemoveFromFreelist(h, p), b, p) ELSE h
        ret == IF merge THEN p ELSE b
        ns == IF merge THEN psz + bs ELSE bs
    IN [h |-> SetFooter(SetHeader(h1, ret, ns, FALSE), ret, ns, FALSE), blk |-> ret]

\* Variant with a bug: the allocation bit of the next block is not tested.
RightMergesAny(h, b, nx) == b # h.heapLast

\* The test of coalesce_right: not the last block, and the one after free.
RightMerges(h, b, nx) == b # h.heapLast /\ ~IsAllocated(h, nx)

\* coalesce_right: merge with the block after.
CoalesceRight(h, b) ==
    LET bs == GetSize(h, b)
        nx == b + bs
        merge == RightMerges(h, b, nx)
        h1 == IF merge THEN MoveLast(RemoveFromFreelist(h, nx), nx, b) ELSE h
        ns == IF merge THEN bs + GetSize(h, nx) ELSE bs
    IN [h |-> SetFooter(SetHeader(h1, b, ns, FALSE), b, ns, FALSE), blk |-> b]

-----------------------------------------------------------------------------
(* mm_malloc, mm_free, mm_realloc, mm_calloc                               *)

\* The block mm_malloc needs: header, payload and footer, 16-aligned.
BlockSize(s) == RoundUp(8 + s + 8, 16)

\* mm_malloc(s): the first fit, split if the rest can hold a free block,
\* or a new block at the break; NULL when mem_sbrk fails.
MmMalloc(h, s) ==
    LET size == BlockSize(s)
        fit == FitFrom(h, h.freeFirst, size, NWords)
        h1 == RemoveFromFreelist(h, fit)
        bs == GetSize(h1, fit)
        sb == MemSbrk(h, size)
        b == h.brk
        h2 == [sb.h EXCEPT !.heapFirst = IF @ = 0 THEN b ELSE @, !.heapLast = b]
    IN CASE fit = -1 -> [h |-> [h EXCEPT !.fault = "hang"], ptr |-> 0]
         [] fit # 0 /\ bs >= RoundUp(size + 24, 16) -> SplitBlockExp(h1, fit, size, bs)
         [] fit # 0 -> [h |-> SetFooter(SetHeader(h1, fit, bs, TRUE), fit, bs, TRUE),
                        ptr |-> fit + 8]
         [] ~sb.ok -> [h |-> h, ptr |-> 0]
         [] OTHER -> [h |-> SetFooter(SetHeader(h2, b, size, TRUE), b, size, TRUE),
                      ptr |-> b + 8]

\* mm_free(p): coalesce left, then right, then push on the free list.
MmFree(h, p) ==
    IF p = 0 THEN h
    ELSE LET l == CoalesceLeft(h, p - 8)
             r == CoalesceRight(l.h, l.blk)
         IN AddToFreelist(r.h, r.blk)

\* memcpy and memset over whole words (every size here is a multiple of 8);
\* a NULL destination with n > 0 is a segmentation fault.
MemCpy(h, dst, src, n) ==
    IF dst = 0 /\ n > 0 THEN [h EXCEPT !.fault = "null"]
    ELSE [h EXCEPT !.mem = [a \in Addr |->
            IF a >= dst /\ a < dst + n THEN Rd(h, src + (a - dst)) ELSE h.mem[a]]]
MemSet(h, dst, v, n) ==
    IF dst = 0 /\ n > 0 THEN [h EXCEPT !.fault = "null"]
    ELSE [h EXCEPT !.mem = [a \in Addr |-> IF a >= dst /\ a < dst + n THEN v ELSE h.mem[a]]]

MinOf(x, y) == IF x < y THEN x ELSE y

\* Variant with a bug: the old block is freed before the new one is taken.
MmReallocFreeFirst(h, p, s) ==
    CASE p = 0 -> MmMalloc(h, s)
      [] s = 0 -> [h |-> MmFree(h, p), ptr |-> 0]
      [] OTHER -> LET m == MmMalloc(MmFree(h, p), s)
                  IN [h |-> MemCpy(m.h, m.ptr, p, MinOf(GetSize(h, p - 8) - 16, s)),
                      ptr |-> m.ptr]

\* mm_realloc(p, s): mm_malloc for NULL, mm_free for size 0, otherwise a
\* new block, the copy of the smaller size, then mm_free of the old one.
MmRealloc(h, p, s) ==
    CASE p = 0 -> MmMalloc(h, s)
      [] s = 0 -> [h |-> MmFree(h, p), ptr |-> 0]
      [] OTHER -> LET m == MmMalloc(h, s)
                      h1 == MemCpy(m.h, m.ptr, p, MinOf(GetSize(h, p - 8) - 16, s))
                  IN [h |-> IF h1.fault = "none" THEN MmFree(h1, p) ELSE h1,
                      ptr |-> m.ptr]

\* mm_calloc(nmemb, size): mm_malloc, then memset of the product.
MmCalloc(h, nm, sz) ==
    LET m == MmMalloc(h, nm * sz) IN [h |-> MemSet(m.h, m.ptr, 0, nm * sz), ptr |-> m.ptr]

-----------------------------------------------------------------------------
(* The program: it calls the allocator and fills every block it gets with  *)
(* its own tag (a number no other of its blocks carries), so that a block  *)
(* handed out twice, or overwritten by the allocator, shows.               *)

\* The state after mm_init: the 8 bytes of padding taken, no blocks.
\* memlib's region starts zeroed here; no word is read before written.
Init ==
    /\ mm = [mem |-> [a \in Addr |-> 0], brk |-> HeapBase + 8,
             heapFirst |-> 0, heapLast |-> 0, freeFirst |-> 0, freeLast |-> 0,
             fault |-> "none"]
    /\ live = << >>

Running == mm.fault = "none"
Room == Cardinality(DOMAIN live) < MaxLive
FreshTag == CHOOSE t \in 1 .. MaxLive : t \notin {live[q].tag : q \in DOMAIN live}
Drop(p) == [q \in DOMAIN live \ {p} |-> live[q]]

\* p = mm_malloc(s), then the program writes its tag over all s bytes.
Malloc(s) ==
    /\ Running /\ Room
    /\ LET r == MmMalloc(mm, s) IN
         IF r.ptr = 0 THEN mm' = r.h /\ UNCHANGED live
         ELSE /\ mm' = MemSet(r.h, r.ptr, FreshTag, s)
              /\ live' = live @@ (r.ptr :> [size |-> s, tag |-> FreshTag])

Free(p) ==
    /\ Running
    /\ mm' = MmFree(mm, p)
    /\ live' = Drop(p)

\* q = mm_realloc(p, s); the program fills the bytes beyond the copied ones.
Realloc(p, s) ==
    /\ Running
    /\ p = 0 => Room /\ s \in Sizes
    /\ LET r == MmRealloc(mm, p, s)
           tag == IF p = 0 THEN FreshTag ELSE live[p].tag
           k == IF p = 0 THEN 0 ELSE MinOf(live[p].size, s)
       IN IF r.ptr = 0 \/ r.h.fault # "none"
          THEN mm' = r.h /\ live' = IF p # 0 /\ s = 0 THEN Drop(p) ELSE live
          ELSE /\ mm' = MemSet(r.h, r.ptr + k, tag, s - k)
               /\ live' = Drop(p) @@ (r.ptr :> [size |-> s, tag |-> tag])

Calloc(nm, sz) ==
    /\ Running /\ Room
    /\ LET r == MmCalloc(mm, nm, sz) IN
         /\ mm' = r.h
         /\ live' = IF r.ptr = 0 \/ r.h.fault # "none" THEN live
                    ELSE live @@ (r.ptr :> [size |-> nm * sz, tag |-> 0])

\* A segmentation fault or a hang ends the program.
Crashed == ~Running /\ UNCHANGED vars

Next ==
    \/ \E s \in Sizes : Malloc(s)
    \/ \E p \in DOMAIN live : Free(p)
    \/ \E p \in DOMAIN live \cup {0}, s \in Sizes \cup {0} : Realloc(p, s)
    \/ \E c \in CallocArgs : Calloc(c[1], c[2])
    \/ Crashed

Spec == Init /\ [][Next]_vars

-----------------------------------------------------------------------------
(* The heap and the free list as the allocator's walks see them            *)

\* The blocks from b on, by their sizes, up to mm_heap_last; a walk that
\* leaves the region or meets a size of 0 stops there.
RECURSIVE WalkFrom(_, _, _)
WalkFrom(h, b, fuel) ==
    IF b = h.heapLast \/ fuel = 0 \/ b \notin Addr \/ GetSize(h, b) = 0 THEN << b >>
    ELSE << b >> \o WalkFrom(h, b + GetSize(h, b), fuel - 1)

HeapWalk == IF mm.heapFirst = 0 THEN << >> ELSE WalkFrom(mm, mm.heapFirst, NWords)
Blocks == ToSet(HeapWalk)
FreeBlocks == {b \in Blocks : ~IsAllocated(mm, b)}
UsedBlocks == Blocks \ FreeBlocks

\* The free list from c on, as find_fit follows next.
RECURSIVE ListFrom(_, _, _)
ListFrom(h, c, fuel) ==
    IF c = 0 \/ fuel = 0 THEN << >> ELSE << c >> \o ListFrom(h, NextOf(h, c), fuel - 1)

FreeList == ListFrom(mm, mm.freeFirst, NWords + 1)

-----------------------------------------------------------------------------
(* Properties                                                              *)

TypeOK ==
    /\ mm.mem \in [Addr -> Int]
    /\ mm.brk \in HeapBase + 8 .. HeapTop
    /\ {mm.heapFirst, mm.heapLast, mm.freeFirst, mm.freeLast} \subseteq Addr \cup {0}
    /\ mm.fault \in {"none", "null", "wild", "hang"}
    /\ DOMAIN live \subseteq Addr
    /\ \A p \in DOMAIN live : live[p].size \in Nat /\ live[p].tag \in 0 .. MaxLive

\* The implicit list mm_free and mm_malloc rely on: walking from
\* mm_heap_first by header sizes meets every block and ends exactly at
\* mm_heap_last, whose end is the break; every block is 16-aligned and at
\* least a header and footer, and its footer repeats its header.
HeapConsistent ==
    /\ (mm.heapFirst = 0) = (mm.heapLast = 0)
    /\ mm.heapFirst \in {0, HeapBase + 8}
    /\ HeapWalk # << >> =>
         /\ Last(HeapWalk) = mm.heapLast
         /\ mm.heapLast + GetSize(mm, mm.heapLast) = mm.brk
    /\ mm.heapFirst = 0 => mm.brk = HeapBase + 8
    /\ \A b \in Blocks :
         /\ GetSize(mm, b) >= 16 /\ GetSize(mm, b) % 16 = 0
         /\ Rd(mm, b + GetSize(mm, b) - 8) = Rd(mm, b)

\* The explicit list: following next from mm_free_first visits every free
\* block of the heap once and no allocated one, ends at mm_free_last with
\* next = NULL, and every block but the first has prev pointing at the one
\* before it (remove_from_freelist unlinks through prev).
FreeListMatches ==
    /\ IsInjective(FreeList)
    /\ ToSet(FreeList) = FreeBlocks
    /\ (mm.freeFirst = 0) = (mm.freeLast = 0)
    /\ FreeList # << >> => Last(FreeList) = mm.freeLast /\ NextOf(mm, mm.freeLast) = 0
    /\ \A i \in 2 .. Len(FreeList) : PrevOf(mm, FreeList[i]) = FreeList[i - 1]

\* mm_free coalesces both ways, so no two neighbouring blocks are free.
Coalesced ==
    \A i \in 1 .. Len(HeapWalk) - 1 :
        ~(HeapWalk[i] \in FreeBlocks /\ HeapWalk[i + 1] \in FreeBlocks)

\* What the program sees: its blocks are exactly the allocated ones, each
\* 16-aligned with room for what it asked, and every byte it wrote (or
\* mm_calloc zeroed, or mm_realloc copied) still reads back.
ClientBlocksIntact ==
    /\ DOMAIN live = {b + 8 : b \in UsedBlocks}
    /\ \A p \in DOMAIN live :
         /\ p % 16 = 0
         /\ GetSize(mm, p - 8) - 16 >= live[p].size
         /\ \A a \in Addr : p <= a /\ a < p + live[p].size => mm.mem[a] = live[p].tag

\* The allocator refines the abstract one: the payloads it hands out, with
\* their usable sizes, change only as mm_malloc, mm_free and mm_realloc say.
Owned == [p \in {b + 8 : b \in UsedBlocks} |-> GetSize(mm, p - 8) - 16]
Alloc == INSTANCE AllocSpec WITH owned <- Owned, Lo <- HeapBase, Hi <- HeapTop
AllocRefined == Alloc!ASpec

=============================================================================
