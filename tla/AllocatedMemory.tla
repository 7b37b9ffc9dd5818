-------------------------- MODULE AllocatedMemory --------------------------
(***************************************************************************)
(* AllocatedMemory (memory/allocated_memory.rs) and the operations of the  *)
(* KernelPagingController (memory/paging/paging_controller.rs) over its    *)
(* three parts: the frame allocator, the virtual memory allocator and the  *)
(* page table.  It composes Bitmap and PageTableOps.                       *)
(*                                                                         *)
(* The bitmaps and the tables are in memory that can be touched, as they   *)
(* are between init_paging and load (KernelMemory has what follows).  The  *)
(* kernel assigns no space to the virtual memory allocator; the models do  *)
(* as well as assign some, which its constructor asks for                  *)
(* (bitmap_allocator.rs:19).                                               *)
(*                                                                         *)
(* The loops over the pages of an allocation stop at the first page that   *)
(* fails, with the pages before it done: call holds the loop, and one step *)
(* is one page.  The controller is locked or owned by the caller, so that  *)
(* nothing else runs during a call.                                        *)
(*                                                                         *)
(* granted is a history variable: the frames that the frame allocator      *)
(* handed out, for callers and for tables, in order.                       *)
(***************************************************************************)
EXTENDS Bitmap, PageTableOps

CONSTANTS
  Root,                  \* the frame of the level 4 table
  FrameBytes, PageBytes, \* lengths of the two bitmaps
  UsableRanges,          \* what BitmapFrameAllocator::new may clear: sets of <<lo, hi>>
  AssignedRanges,        \* what is cleared in the virtual memory allocator
  PAGE_ALLOCATOR_START,
  WordSize,              \* 2^64: usize and u64 count modulo this
  Sizes, Flags, PhysAddrs, Offsets, ValueSizes,   \* what callers pass
  MaxChunks              \* bound: allocations at a time

ASSUME BytesAssumption == FrameBytes \in Nat \ {0} /\ PageBytes \in Nat \ {0}
(* The ranges are inside the bitmaps: the boot gave up otherwise.          *)
ASSUME RangesAssumption ==
  /\ \A ranges \in UsableRanges : \A r \in ranges : r \in Nat \X (0..(8 * FrameBytes))
  /\ \A ranges \in AssignedRanges : \A r \in ranges : r \in Nat \X (0..(8 * PageBytes))
(* The virtual memory allocator has pages with four indices of their own   *)
(* each, below the end of the address space and outside the range of the   *)
(* recursive entry.                                                        *)
ASSUME SpaceAssumption ==
  /\ PAGE_ALLOCATOR_START \in Nat /\ Aligned(PAGE_ALLOCATOR_START)
  /\ WordSize \in Nat /\ PAGE_ALLOCATOR_START + 8 * PageBytes * PAGE_SIZE <= WordSize
  /\ 8 * PageBytes <= Fanout * Fanout * Fanout * Fanout
  /\ \A p \in 0..(8 * PageBytes - 1) : ~Reserved(PAGE_ALLOCATOR_START + p * PAGE_SIZE)
(* No frame number is the address of the first table.                      *)
ASSUME RootAssumption == Root \in Nat /\ Aligned(Root) /\ Root > 8 * FrameBytes
(* No value of Rust is larger than isize::MAX, half of the address space,  *)
(* and the allocator starts in the upper half.                             *)
ASSUME CallersAssumption ==
  /\ MaxChunks \in Nat /\ Sizes \subseteq Nat /\ PhysAddrs \subseteq Nat
  /\ Flags \subseteq PageTableFlags
  /\ Offsets \subseteq 0..(WordSize - 1) /\ ValueSizes \subseteq 0..PAGE_ALLOCATOR_START

VARIABLES
  t, fa, va,       \* rec_page_table, frame_allocator, virt_mem_allocator
  published,       \* whether KERNEL_PAGING_CONTROLLER has the controller
  chunks,          \* the live allocations, [op, virt, phys, size, flags]
  call,            \* the loop over pages in progress, [op, chunk, done]
  granted,
  out              \* what the last call returned, or "panic"

vars == <<t, fa, va, published, chunks, call, granted, out>>

Halted == out = "panic"

div_ceil(size) == (size + PAGE_SIZE - 1) \div PAGE_SIZE

Chunk(op, virt, phys, size, flags) ==
  [op |-> op, virt |-> virt, phys |-> phys, size |-> size, flags |-> flags]

Pages(c) == div_ceil(c.size)

Call(op, chunk) == [op |-> op, chunk |-> chunk, done |-> 0]

Idle == Call("idle", Chunk("none", 0, 0, 0, {}))

(* An allocator with all marked, but what flag_range clears of the ranges, *)
(* which are the whole bytes inside each.                                  *)
Cleared(bytes, ranges) ==
  [New(bytes, TRUE) EXCEPT
     !.bits = @ \ UNION { AlignUp(r[1])..(AlignDown(r[2]) - 1) : r \in ranges }]

Init ==
  /\ t = new(Root)
  /\ \E ranges \in UsableRanges : fa = Cleared(FrameBytes, ranges)
  /\ \E ranges \in AssignedRanges : va = Cleared(PageBytes, ranges)
  /\ published = FALSE /\ chunks = {} /\ call = Idle /\ granted = <<>>
  /\ out = "Ok"

-----------------------------------------------------------------------------
(* The controller while a call runs: took has the frames it got so far.    *)
Controller == [t |-> t, fa |-> fa, va |-> va, took |-> <<>>, out |-> "Ok"]

(* Steps of a call one after another, up to the first that fails.          *)
Then(s, next) == IF s.out = "Ok" THEN next ELSE s

(* BitmapFrameAllocator gives the number of the frame as its address.      *)
AllocFrames(s, pages) ==
  LET r == alloc(s.fa, pages)
  IN  [s EXCEPT !.fa = r.a, !.out = r.out,
                !.took = IF r.out = "Ok" THEN @ \o [i \in 1..pages |-> r.start + i - 1] ELSE @]

(* Mutant: the virtual memory allocator is copied, and the copy marked.    *)
AllocPagesOfCopy(s, pages) == [s EXCEPT !.out = alloc(s.va, pages).out]

AllocPages(s, pages) ==
  LET r == alloc(s.va, pages) IN [s EXCEPT !.va = r.a, !.out = r.out]

AskFrame(s) == Then(s, AllocFrames(s, 1))

(* The frame allocator asked n times, up to three, until it fails.         *)
AskFrames(s, n) ==
  LET s1 == IF n >= 1 THEN AskFrame(s) ELSE s
      s2 == IF n >= 2 THEN AskFrame(s1) ELSE s1
  IN  IF n >= 3 THEN AskFrame(s2) ELSE s2

(* Mutant: the frames of the tables are taken from a copy.                 *)
AfterMapOfCopy(s, asked, r) == [s EXCEPT !.t = r.t, !.took = asked.took, !.out = r.out]

(* The controller after map: it has taken the frames it asked for, unless  *)
(* the page is reserved.  The error of alloc becomes TableAllocationFailed *)
(* and a panic stays one.                                                  *)
AfterMap(s, asked, r) ==
  [ (IF r.out = "AttemptedMappingToReserved" THEN s ELSE asked) EXCEPT
      !.t = r.t,
      !.out = IF r.out = "TableAllocationFailed" /\ @ = "panic" THEN "panic" ELSE r.out ]

MapWith(s, asked, from, to, flags) ==
  AfterMap(s, asked, map(s.t, asked.took, from, to, flags))

(* map, with a table of the frame allocator for each level that is missing. *)
MapPage(s, from, to, flags) ==
  MapWith(s, AskFrames(s, LowestLevel(s.t, to) - 1), from, to, flags)

FreePages(s, to, pages) ==
  LET offset == (to - PAGE_ALLOCATOR_START) \div PAGE_SIZE
      r      == free_range(s.va, offset, offset + pages)
  IN  [s EXCEPT !.va = r.a, !.out = r.out]

FreeFrames(s, phys, pages) ==
  LET r == free_range(s.fa, PageOf(phys), PageOf(phys) + pages)
  IN  [s EXCEPT !.fa = r.a, !.out = r.out]

-----------------------------------------------------------------------------
Ready == ~Halted /\ call = Idle

Publish ==
  /\ Ready /\ ~published
  /\ published' = TRUE
  /\ out' = "Ok"
  /\ UNCHANGED <<t, fa, va, chunks, call, granted>>

(* What both constructors check first.                                     *)
Checked(size) ==
  [Controller EXCEPT !.out = IF size = 0 THEN "EmptyAllocation"
                             ELSE IF ~published THEN "LockedAllocator" ELSE "Ok"]

NextFrame(pages) == alloc(fa, pages).start

(* Mutant: the number of the page is not scaled to an address.             *)
NextPageByNumber(pages) == PAGE_ALLOCATOR_START + alloc(va, pages).start

NextPage(pages) == PAGE_ALLOCATOR_START + PAGE_SIZE * alloc(va, pages).start

(* Pages for the frames at phys; then map_contiguous starts.  Nothing is   *)
(* given back when a later step fails.                                     *)
AllocPagesAndMap(s, chunk) ==
  \E s1 \in { Then(s, AllocPages(s, Pages(chunk))) } :
    /\ fa' = s1.fa /\ va' = s1.va /\ out' = s1.out
    /\ granted' = granted \o s1.took
    /\ call' = IF s1.out = "Ok" THEN Call("map", chunk) ELSE Idle
    /\ UNCHANGED <<t, published, chunks>>

AllocatedMemoryNew(size, flags) ==
  LET pages == div_ceil(size)
  IN  /\ Ready /\ Cardinality(chunks) < MaxChunks
      /\ AllocPagesAndMap(Then(Checked(size), AllocFrames(Controller, pages)),
                          Chunk("new", NextPage(pages), NextFrame(pages), size, flags))

reserve_physical(phys, size, flags) ==
  /\ Ready /\ Cardinality(chunks) < MaxChunks
  /\ AllocPagesAndMap(Checked(size), Chunk("reserve", NextPage(div_ceil(size)), phys, size, flags))

(* alloc_and_map of the controller, which has no check of its own.         *)
alloc_and_map(pages, flags) ==
  /\ Ready /\ published /\ Cardinality(chunks) < MaxChunks
  /\ AllocPagesAndMap(AllocFrames(Controller, pages),
                      Chunk("raw", NextPage(pages), NextFrame(pages), pages * PAGE_SIZE, flags))

(* The next page of the call.                                              *)
ItsPage(addr) == addr + call.done * PAGE_SIZE

(* Mutant: every page is mapped to the first frame.                        *)
MapNextToFirst(c) == MapPage(Controller, c.phys, ItsPage(c.virt), c.flags)

MapNext(c) == MapPage(Controller, ItsPage(c.phys), ItsPage(c.virt), c.flags)

(* The loop goes on, or the call returns the error.                        *)
Continue(result) == IF result = "Ok" THEN [call EXCEPT !.done = @ + 1] ELSE Idle

map_contiguous ==
  /\ ~Halted /\ call.op = "map" /\ call.done < Pages(call.chunk)
  /\ \E s \in { MapNext(call.chunk) } :
       /\ t' = s.t /\ fa' = s.fa /\ out' = s.out
       /\ granted' = granted \o s.took
       /\ call' = Continue(s.out)
  /\ UNCHANGED <<va, published, chunks>>

(* The caller has its allocation.                                          *)
MapReturns ==
  /\ call.op = "map" /\ call.done = Pages(call.chunk)
  /\ chunks' = chunks \cup {call.chunk}
  /\ call' = Idle
  /\ UNCHANGED <<t, fa, va, published, granted, out>>

-----------------------------------------------------------------------------
(* Mutant: the size of the value is not counted.                           *)
HandleErrorsAtOffset(overflow_checks, c, write, offset, len) ==
  IF "PRESENT" \notin c.flags THEN "PageNotPresent"
  ELSE IF write /\ "WRITABLE" \notin c.flags THEN "WriteToReadOnly"
  ELSE IF offset >= c.size THEN "OutOfBounds"
  ELSE "Ok"

(* Whether the sum is checked for overflow depends on the build profile.   *)
handle_errors(overflow_checks, c, write, offset, len) ==
  IF "PRESENT" \notin c.flags THEN "PageNotPresent"
  ELSE IF write /\ "WRITABLE" \notin c.flags THEN "WriteToReadOnly"
  ELSE IF overflow_checks /\ offset + len >= WordSize THEN "panic"
  ELSE IF (offset + len) % WordSize >= c.size THEN "OutOfBounds"
  ELSE "Ok"

(* VirtAddr + u64 of the x86_64 crate panics on overflow.                  *)
Add(virt, offset) == IF virt + offset >= WordSize THEN None ELSE virt + offset

(* The address of an access, None without one.                             *)
AccessAt(overflow_checks, c, write, offset, len) ==
  IF handle_errors(overflow_checks, c, write, offset, len) = "Ok" THEN Add(c.virt, offset) ELSE None

(* read, write, write_back and their volatile forms: a value of len bytes  *)
(* at an offset.                                                           *)
Access(overflow_checks, c, write, offset, len) ==
  LET checked == handle_errors(overflow_checks, c, write, offset, len)
  IN  /\ Ready /\ c.op # "raw"
      /\ out' = IF checked = "Ok" /\ AccessAt(overflow_checks, c, write, offset, len) = None
                THEN "panic" ELSE checked
      /\ UNCHANGED <<t, fa, va, published, chunks, call, granted>>

(* The drop of an allocation starts with its pages.                        *)
Drop(c) ==
  /\ Ready /\ c.op # "raw"
  /\ chunks' = chunks \ {c}
  /\ call' = Call("unmap", c)
  /\ out' = "Ok"
  /\ UNCHANGED <<t, fa, va, published, granted>>

(* free_and_unmap ends with them, when all before has succeeded.           *)
free_and_unmap(c) ==
  LET pages == Pages(c)
      phys  == translate(t, c.virt)
      Absent(s) == [s EXCEPT !.out = "PageNotPresent"]
  IN  /\ Ready /\ c.op = "raw"
      /\ \E s1 \in { FreePages(Controller, c.virt, pages) } :
           \E s2 \in { Then(s1, IF phys = None THEN Absent(s1) ELSE FreeFrames(s1, phys, pages)) } :
             /\ fa' = s2.fa /\ va' = s2.va /\ out' = s2.out
             /\ chunks' = IF s2.out = "Ok" THEN chunks \ {c} ELSE chunks
             /\ call' = IF s2.out = "Ok" THEN Call("unmap", c) ELSE Idle
      /\ UNCHANGED <<t, published, granted>>

(* Every error of drop is a panic; free_and_unmap returns it.              *)
Report(c, result) == IF result = "Ok" \/ c.op = "raw" THEN result ELSE "panic"

unmap_contiguous ==
  LET c == call.chunk
      r == unmap(t, ItsPage(c.virt))
  IN  /\ call.op = "unmap" /\ call.done < Pages(c)
      /\ t' = r.t /\ out' = Report(c, r.out)
      /\ call' = Continue(r.out)
      /\ UNCHANGED <<fa, va, published, chunks, granted>>

(* After the pages, drop frees them, and the frames that it allocated.     *)
UnmapReturns ==
  LET c     == call.chunk
      pages == Pages(c)
      s1    == IF c.op = "raw" THEN Controller ELSE FreePages(Controller, c.virt, pages)
      s2    == IF c.op = "new" THEN Then(s1, FreeFrames(s1, c.phys, pages)) ELSE s1
  IN  /\ call.op = "unmap" /\ call.done = pages
      /\ fa' = s2.fa /\ va' = s2.va /\ out' = Report(c, s2.out)
      /\ call' = Idle
      /\ UNCHANGED <<t, published, chunks, granted>>

Halt == Halted /\ UNCHANGED vars

Next ==
  \/ Publish
  \/ \E size \in Sizes, flags \in Flags :
       \/ AllocatedMemoryNew(size, flags)
       \/ \E phys \in PhysAddrs : reserve_physical(phys, size, flags)
  \/ \E size \in Sizes : alloc_and_map(div_ceil(size), flags_rw)
  \/ map_contiguous
  \/ MapReturns
  \/ \E c \in chunks :
       \/ \E checks, write \in BOOLEAN, offset \in Offsets, len \in ValueSizes :
            Access(checks, c, write, offset, len)
       \/ Drop(c)
       \/ free_and_unmap(c)
  \/ unmap_contiguous
  \/ UnmapReturns
  \/ Halt

Spec == Init /\ [][Next]_vars

-----------------------------------------------------------------------------
Outs == { "Ok", "panic", "EmptyAllocation", "LockedAllocator", "AllocationError",
          "OutOfBounds", "DoubleFree", "PageNotPresent", "WriteToReadOnly",
          "TableAllocationFailed", "AlreadyMapped", "AttemptedMappingToReserved", "NotMapped" }

(* Type invariant: the allocators keep their size and mark positions of    *)
(* their own bitmaps only, an allocation has pages of the range of the     *)
(* virtual memory allocator, and each call answers with one of the errors  *)
(* of memory/mod.rs or a panic.                                            *)
TypeOK ==
  /\ published \in BOOLEAN
  /\ fa.size = 8 * FrameBytes /\ fa.bits \subseteq 0..(fa.size - 1) /\ fa.last \in Nat
  /\ va.size = 8 * PageBytes /\ va.bits \subseteq 0..(va.size - 1) /\ va.last \in Nat
  /\ \A c \in chunks :
       /\ c.op \in {"new", "reserve", "raw"}
       /\ Aligned(c.virt) /\ c.virt >= PAGE_ALLOCATOR_START
  /\ call.op \in {"idle", "map", "unmap"} /\ call.done \in 0..Pages(call.chunk)
  /\ \A i \in 1..Len(granted) : granted[i] \in 0..(fa.size - 1)
  /\ out \in Outs

(* The positions of an allocation in the virtual memory allocator.         *)
Positions(c) ==
  LET first == (c.virt - PAGE_ALLOCATOR_START) \div PAGE_SIZE
  IN  first..(first + Pages(c) - 1)

(* Every page of a live allocation is mapped as AllocatedMemory::new,      *)
(* reserve_physical or alloc_and_map mapped it, to consecutive frames with *)
(* the flags asked for, whatever later calls succeeded, failed halfway or  *)
(* built tables.                                                           *)
ChunksStayMapped ==
  \A c \in chunks : \A k \in 0..(Pages(c) - 1) :
    Lookup(t, c.virt + k * PAGE_SIZE) = Entry(c.phys + k * PAGE_SIZE, c.flags)

(* No page belongs to two allocations that are live, being made or being   *)
(* given back, and each page of a live one, as each page that a failed     *)
(* call left mapped, is marked in the virtual memory allocator.  So        *)
(* alloc_contiguous never returns a page that is mapped, and no call of    *)
(* map_contiguous fails with AlreadyMapped or AttemptedMappingToReserved.  *)
PagesOwnedOnce ==
  /\ \A c, d \in chunks : c # d => Positions(c) \cap Positions(d) = {}
  /\ call # Idle => \A c \in chunks : Positions(c) \cap Positions(call.chunk) = {}
  /\ \A c \in chunks : Positions(c) \subseteq va.bits
  /\ \A p \in 0..(va.size - 1) :
       translate(t, PAGE_ALLOCATOR_START + p * PAGE_SIZE) # None => p \in va.bits
  /\ out \notin {"AlreadyMapped", "AttemptedMappingToReserved"}

(* An access that handle_errors lets through reaches only bytes of one     *)
(* live allocation, through present pages that are writable for a write,   *)
(* and at the physical address of that byte of the allocation.  With       *)
(* overflow checks off the sum in handle_errors may wrap; then it is the   *)
(* addition to an address in the upper half that stops the access.         *)
AdmittedAccessIsMapped ==
  \A c \in chunks, checks, write \in BOOLEAN, offset \in Offsets, len \in ValueSizes :
    LET start == AccessAt(checks, c, write, offset, len)
    IN  start # None =>
          \A b \in start..(start + len - 1) :
            /\ b < c.virt + c.size /\ translate(t, b) = c.phys + (b - c.virt)
            /\ "PRESENT" \in Lookup(t, b).flags
            /\ write => "WRITABLE" \in Lookup(t, b).flags

(* No frame is handed out twice, neither to callers of alloc_contiguous    *)
(* nor to the page tables, and every frame handed out stays marked: the    *)
(* frames of a call that failed after its first step are lost, but nobody  *)
(* else gets them.                                                         *)
GrantsAreFresh ==
  /\ \A i, j \in 1..Len(granted) : i # j => granted[i] # granted[j]
  /\ \A i \in 1..Len(granted) : granted[i] \in fa.bits

(* The frames behind a live allocation are frames that the allocator       *)
(* handed out: alloc_contiguous "returns the base of the lowest allocated  *)
(* physical frame" (frame_allocation.rs:17).                               *)
ReturnsFrameBase ==
  \A c \in chunks : \A k \in 0..(Pages(c) - 1) :
    c.op # "reserve" => PageOf(c.phys) + k \in Range(granted)
=============================================================================
