---------------------------- MODULE MCMMExplicit ----------------------------
(* The allocator in a 128-byte region at address 16: room for a handful of *)
(* blocks, so that splitting, coalescing on both sides, reuse through the  *)
(* free list and mem_sbrk failing all happen.                              *)
EXTENDS MMExplicit

MCHeapBase == 16
MCMaxHeap == 128
MCMaxLive == 3
\* Payload sizes of 8, 24 and 40 bytes: blocks of 32, 48 and 64 bytes.
MCSizes == {8, 24, 40}
\* The same with mm_malloc(0), a block of 16 bytes.
MCSizesZero == {0, 8}
MCCallocArgs == {<<2, 8>>}
==============================================================================
