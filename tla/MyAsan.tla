------------------------------- MODULE MyAsan -------------------------------
(***************************************************************************)
(* The guard-page allocator of src/signal-handler/myasan.c and the program *)
(* that links it in place of malloc and free.                              *)
(*                                                                         *)
(* The heap is one mapping of HeapPages pages from page StartPage on,      *)
(* mapped PROT_NONE.  Each malloc takes a header page (magic, size,        *)
(* is_allocated) and the pages of the payload, placed so that the payload  *)
(* ends where the next header page begins; only payload pages are opened.  *)
(* A bad access is a SIGSEGV whose handler reports it.  Addresses are byte *)
(* addresses and NULL is 0.  A report ends the process (the report_*       *)
(* functions of util.h print and exit, as the tests' expected output and   *)
(* exit status show).                                                      *)
(***************************************************************************)
EXTENDS Integers, FiniteSets, TLC

CONSTANTS
    PageSize,    \* PAGE_SIZE
    StartPage,   \* START_PAGE / PAGE_SIZE
    HeapPages,   \* MAX_HEAP_SIZE / PAGE_SIZE
    Sizes,       \* the sizes the program mallocs
    MaxMallocs,  \* how many times it calls malloc
    StrayPtrs    \* pointers malloc never returned that it passes to free

Start == StartPage * PageSize
MaxHeapSize == HeapPages * PageSize
Mapped == StartPage .. StartPage + HeapPages - 1

ASSUME StartPage > 0 /\ HeapPages > 0 /\ PageSize > 1

Reports == {"none", "segfault", "invalid_access", "invalid_free", "double_free",
            "leak", "exited"}

VARIABLES
    asan,    \* [prot, hdr, cur, inited, report]: the pages and the statics
    blocks,  \* what the program got from malloc: payload -> [size, freed]
    last,    \* the program's last call: [op, arg]
    mallocs  \* how many times it has called malloc

vars == <<asan, blocks, last, mallocs>>

-----------------------------------------------------------------------------
(* Pages                                                                   *)

PageOf(a) == a \div PageSize

\* pages_round_up
PagesRoundUp(size) == (size + PageSize - 1) \div PageSize

\* mprotect of n pages from page lo; pages outside the mapping stay
\* unmapped (the call fails with ENOMEM there, and the code ignores it).
Protect(s, lo, n, v) ==
    [s EXCEPT !.prot = [pg \in Mapped |-> IF lo <= pg /\ pg < lo + n THEN v ELSE @[pg]]]

AllNone(s) == Protect(s, StartPage, HeapPages, "none")

\* A load or store at address a succeeds on an open page of the mapping.
Open(s, a) == PageOf(a) \in Mapped /\ s.prot[PageOf(a)] = "rw"

\* sigsegv_handler for a fault at addr: an address from START_PAGE to the
\* end of current_page + 1 is an invalid heap access, anything else a plain
\* segmentation fault.
Segv(s, addr) ==
    IF ~s.inited \/ s.cur = 0 THEN [s EXCEPT !.report = "segfault"]
    ELSE IF Start <= addr /\ addr < (s.cur + 1) * PageSize
         THEN [AllNone(s) EXCEPT !.report = "invalid_access"]
         ELSE [s EXCEPT !.report = "segfault"]

\* set_header: open the page, write magic, size and is_allocated, close it.
SetHeader(s, pg, size, al) ==
    IF pg \notin Mapped THEN Segv(s, pg * PageSize)
    ELSE [s EXCEPT !.hdr[pg] = [magic |-> TRUE, size |-> size, alloc |-> al]]

\* Variant with a bug: the header page is not counted.
GetPayloadNoHeader(pg, size) == pg * PageSize + PagesRoundUp(size) * PageSize - size

\* get_payload: the payload ends where the page after its last page begins.
GetPayload(pg, size) == pg * PageSize + PageSize + PagesRoundUp(size) * PageSize - size

\* asan_init: map the heap PROT_NONE at START_PAGE once.
AsanInit(s) == IF s.inited THEN s ELSE [s EXCEPT !.cur = StartPage, !.inited = TRUE]

-----------------------------------------------------------------------------
(* malloc and free                                                         *)

\* Variant with a bug: one page too many is opened after the payload.
OpenPayloadOffByOne(s, pg, n) == Protect(s, pg + 1, n + 1, "rw")

\* mprotect(current_page + PAGE_SIZE, pages_necessary pages, RW)
OpenPayload(s, pg, n) == Protect(s, pg + 1, n, "rw")

\* malloc(size): open the payload pages, write the header, move
\* current_page past the block, return the end-aligned payload.
MallocOp(s0, size) ==
    LET s == AsanInit(s0)
        pg == s.cur
        n == PagesRoundUp(size)
        s1 == SetHeader(Protect(OpenPayload(s, pg, n), pg, 1, "rw"), pg, size, TRUE)
    IN IF s1.report # "none" THEN [s |-> s1, ptr |-> 0]
       ELSE [s |-> [Protect(s1, pg, 1, "none") EXCEPT !.cur = pg + 1 + n],
             ptr |-> GetPayload(pg, size)]

\* Variant with a bug: free leaves the payload pages open.
ReleasePagesNone(s, pg, size) == s

\* mprotect(header + PAGE_SIZE, pages_round_up(size) pages, PROT_NONE)
ReleasePages(s, pg, size) == Protect(s, pg + 1, PagesRoundUp(size), "none")

\* free(ptr): reject pointers outside the heap bounds, find the header page
\* from ptr's offset in its page, check magic, payload and is_allocated,
\* then mark the block free and close its pages.
FreeOp(s0, ptr) ==
    LET s == AsanInit(s0)
        hp == ptr - PageSize - ((ptr - Start) % PageSize)
        pg == PageOf(hp)
        s1 == Protect(s, pg, 1, "rw")
        h == s1.hdr[pg]
    IN CASE ptr = 0 -> s
         [] ptr < Start + PageSize \/ ptr > Start + MaxHeapSize * PageSize ->
              [AllNone(s) EXCEPT !.report = "invalid_free"]
         [] pg \notin Mapped -> Segv(s, hp + 8)
         [] ~h.magic \/ GetPayload(pg, h.size) # ptr ->
              [AllNone(s1) EXCEPT !.report = "invalid_free"]
         [] ~h.alloc -> [AllNone(s1) EXCEPT !.report = "double_free"]
         [] OTHER -> ReleasePages(Protect(SetHeader(s1, pg, h.size, FALSE), pg, 1, "none"),
                                  pg, h.size)

\* A load or store by the program at address a.
AccessOp(s, a) == IF Open(s, a) THEN s ELSE Segv(s, a)

\* check_for_leaks, run by atexit: walk the blocks by their sizes and report
\* the first one still allocated.  The loop tests the header of the
\* previous turn, so it also reads the page at current_page.
RECURSIVE LeakWalk(_, _, _)
LeakWalk(s, header, addr) ==
    IF ~(header < s.cur) THEN [s EXCEPT !.report = "exited"]
    ELSE IF addr \notin Mapped THEN Segv(s, addr * PageSize + 8)
    ELSE IF s.hdr[addr].alloc THEN [AllNone(s) EXCEPT !.report = "leak"]
    ELSE LeakWalk(s, addr, addr + 1 + PagesRoundUp(s.hdr[addr].size))

ExitOp(s) ==
    IF s.inited THEN LeakWalk(s, StartPage, StartPage) ELSE [s EXCEPT !.report = "exited"]

-----------------------------------------------------------------------------
(* The program.  Besides using its blocks it frees pointers malloc never   *)
(* returned, frees twice, and touches the bytes just around each block, as *)
(* the programs myasan is meant to catch do.  last records each call with  *)
(* the reports that would be right for it, judged from the program's own   *)
(* view of its blocks before the call.                                     *)

Live == {p \in DOMAIN blocks : ~blocks[p].freed}
InLive(a) == \E p \in Live : p <= a /\ a < p + blocks[p].size
\* A byte on a page that a live payload also uses: PROT_READ | PROT_WRITE
\* by design, so a stray access there cannot fault.
OnLivePage(a) ==
    \E p \in Live : blocks[p].size > 0 /\ PageOf(p) <= PageOf(a)
                    /\ PageOf(a) <= PageOf(p + blocks[p].size - 1)
InHeap(a) == Start <= a /\ a < Start + MaxHeapSize

FreeVerdict(p) ==
    CASE p = 0 -> {"none"}
      [] p \in Live -> {"none"}
      [] p \in DOMAIN blocks -> {"double_free"}
      [] OTHER -> {"invalid_free"}

AccessVerdict(a) ==
    LET bad == IF InHeap(a) THEN "invalid_access" ELSE "segfault"
    IN CASE InLive(a) -> {"none"}
         [] OnLivePage(a) -> {"none", bad}
         [] OTHER -> {bad}

Init ==
    /\ asan = [prot |-> [pg \in Mapped |-> "none"],
               hdr |-> [pg \in Mapped |-> [magic |-> FALSE, size |-> 0, alloc |-> FALSE]],
               cur |-> 0, inited |-> FALSE, report |-> "none"]
    /\ blocks = << >>
    /\ last = [op |-> "start", arg |-> 0, ok |-> {"none"}]
    /\ mallocs = 0

Running == asan.report = "none"

Malloc(size) ==
    /\ Running /\ mallocs < MaxMallocs
    /\ LET r == MallocOp(asan, size) IN
         /\ asan' = r.s
         /\ blocks' = IF r.s.report = "none"
                      THEN blocks @@ (r.ptr :> [size |-> size, freed |-> FALSE])
                      ELSE blocks
    /\ last' = [op |-> "malloc", arg |-> size, ok |-> {"none"}]
    /\ mallocs' = mallocs + 1

Free(p) ==
    /\ Running
    /\ asan' = FreeOp(asan, p)
    /\ blocks' = IF p \in Live /\ asan'.report = "none"
                 THEN [blocks EXCEPT ![p].freed = TRUE] ELSE blocks
    /\ last' = [op |-> "free", arg |-> p, ok |-> FreeVerdict(p)]
    /\ UNCHANGED mallocs

Access(a) ==
    /\ Running
    /\ asan' = AccessOp(asan, a)
    /\ last' = [op |-> "access", arg |-> a, ok |-> AccessVerdict(a)]
    /\ UNCHANGED <<blocks, mallocs>>

\* main returns: the atexit handler runs.
Exit ==
    /\ Running
    /\ asan' = ExitOp(asan)
    /\ last' = [op |-> "exit", arg |-> 0, ok |-> IF Live = {} THEN {"exited"} ELSE {"leak"}]
    /\ UNCHANGED <<blocks, mallocs>>

\* After a report, or after exit, the process is gone.
Stopped == ~Running /\ UNCHANGED vars

FreeArgs == DOMAIN blocks \cup {p + 1 : p \in DOMAIN blocks} \cup StrayPtrs
AccessArgs ==
    UNION {{p - 1, p, p + blocks[p].size - 1, p + blocks[p].size} : p \in DOMAIN blocks}

Next ==
    \/ \E size \in Sizes : Malloc(size)
    \/ \E p \in FreeArgs : Free(p)
    \/ \E a \in AccessArgs : Access(a)
    \/ Exit
    \/ Stopped

Spec == Init /\ [][Next]_vars

-----------------------------------------------------------------------------
(* Properties                                                              *)

TypeOK ==
    /\ asan.prot \in [Mapped -> {"none", "rw"}]
    /\ \A pg \in Mapped : asan.hdr[pg].magic \in BOOLEAN /\ asan.hdr[pg].size \in Nat
                          /\ asan.hdr[pg].alloc \in BOOLEAN
    /\ asan.cur \in Nat /\ asan.inited \in BOOLEAN /\ asan.report \in Reports
    /\ DOMAIN blocks \subseteq Start + PageSize .. Start + MaxHeapSize
    /\ mallocs \in 0 .. MaxMallocs

\* Every report names what the program did: malloc never reports; free
\* of NULL or of a live block is silent, a second free is a double free and
\* any other pointer an invalid free; an access outside every live block is
\* an invalid heap access (a segmentation fault off the heap) unless it
\* lands on a page a live payload shares; at exit a leak is reported
\* exactly when a block is still allocated.
ReportsExact == asan.report \in last.ok

\* The header page of the block whose payload is p.
HeaderPage(p) == PageOf(p + blocks[p].size) - 1 - PagesRoundUp(blocks[p].size)

\* Between calls the heap is laid out as malloc and free leave it: each
\* block's header page is closed and holds magic, its size and whether it
\* is live; its payload pages are open exactly while it is live; no other
\* page is open, and the pages from current_page on are untouched.
GuardLayout ==
    Running /\ asan.inited =>
      /\ \A p \in DOMAIN blocks :
           LET pg == HeaderPage(p) IN
           /\ asan.hdr[pg] = [magic |-> TRUE, size |-> blocks[p].size,
                              alloc |-> ~blocks[p].freed]
           /\ asan.prot[pg] = "none"
           /\ \A q \in pg + 1 .. pg + PagesRoundUp(blocks[p].size) :
                asan.prot[q] = IF blocks[p].freed THEN "none" ELSE "rw"
      /\ \A pg \in Mapped :
           asan.prot[pg] = "rw" => \E p \in Live : HeaderPage(p) < pg /\ PageOf(p) <= pg
                                                   /\ pg <= HeaderPage(p) + PagesRoundUp(blocks[p].size)
      /\ \A pg \in Mapped : pg >= asan.cur => ~asan.hdr[pg].magic

=============================================================================
