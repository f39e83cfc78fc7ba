------------------------------ MODULE MCMyAsan ------------------------------
(* Pages of 4 bytes, so that a payload can fill a page, share it with      *)
(* unused bytes, or spill onto a second page; a 52-byte heap from address  *)
(* 8, large enough for every run of four mallocs.                          *)
EXTENDS MyAsan

MCPageSize == 4
MCStartPage == 2
MCHeapPages == 13
\* An empty payload, part of a page, a whole page, a page and a byte.
MCSizes == {0, 3, 4, 5}
MCMaxMallocs == 4
\* NULL, a pointer below the heap, and one into its first page.
MCStrayPtrs == {0, 5, 9}
\* The same and a pointer a page and a byte past the end of the heap: its
\* header page, one page below it, is outside the mapping.
MCStrayPtrsPastHeap == MCStrayPtrs \cup {Start + MaxHeapSize + PageSize + 1}
==============================================================================
