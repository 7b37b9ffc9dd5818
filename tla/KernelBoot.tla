----------------------------- MODULE KernelBoot -----------------------------
(***************************************************************************)
(* init_memory (memory/mod.rs) and init_paging (memory/paging/mod.rs): the *)
(* kernel takes frames one after another from the largest usable region,   *)
(* builds its page table in them, maps itself, the boot loader's regions   *)
(* and the heap, creates the two bitmap allocators and switches tables.    *)
(* It composes PageTableOps and Bitmap with the LinearFrameAllocator.      *)
(*                                                                         *)
(* One step maps one page or makes one of the calls between the loops, so  *)
(* that a failure in the middle leaves what the code leaves.               *)
(***************************************************************************)
EXTENDS Bitmap, PageTableOps

CONSTANTS
  MemoryMaps,     \* what Limine may answer: sequences of [base, length, type]
  HHDM,           \* internal_offset, where Limine maps physical memory
  Sections,       \* _limine_reqs_start, _text_start, ..., _elf_end
  KernelPhys,     \* physical_base of the kernel
  HEAP_PAGES,     \* KERNEL_HEAP_SIZE / PAGE_SIZE
  StackPointers,  \* entry_stack_pointer
  STACK_SIZE      \* STACK_SIZE_REQUEST.stack_size

RegionTypes ==
  { "Usable", "Reserved", "AcpiReclaimable", "AcpiNvs", "AcpiTables", "BadMemory",
    "BootloaderReclaimable", "ExecutableAndModules", "Framebuffer" }

Regions == [base : Nat, length : Nat, type : RegionTypes]

ASSUME MemoryMapAssumption == MemoryMaps \subseteq Seq(Regions)

(* The boot loader loads the kernel and maps memory at whole pages.        *)
ASSUME AddressesAssumption ==
  /\ HHDM \in Nat /\ Aligned(HHDM)
  /\ KernelPhys \in Nat /\ Aligned(KernelPhys)
  /\ HEAP_PAGES \in Nat

(* The linker script aligns the sections and lays them out in this order.  *)
ASSUME SectionsAssumption ==
  /\ Sections \in [1..5 -> Nat]
  /\ \A i \in 1..5 : Aligned(Sections[i])
  /\ \A i \in 1..4 : Sections[i] <= Sections[i + 1]

(* The region of the kernel has room for its sections.                     *)
ASSUME KernelRegionAssumption ==
  \A m \in MemoryMaps : \A i \in DOMAIN m :
    m[i].type = "ExecutableAndModules" => m[i].length >= Sections[5] - Sections[1]

(* The stack of the boot loader has the size that was asked for, and is    *)
(* not among the addresses of the recursive entry.                         *)
ASSUME StackAssumption ==
  /\ STACK_SIZE \in Nat /\ StackPointers \subseteq Nat
  /\ \A s \in StackPointers :
       s + 16 >= STACK_SIZE /\ \A a \in (s + 16 - STACK_SIZE)..(s + 16) : ~Reserved(a)

VARIABLES
  mmap,   \* the memory map
  sp,     \* the stack pointer on entry
  pc,     \* where init_memory is
  jobs,   \* what the loops of this phase have left: pages to map or remap,
          \* as [from, to, flags, left], or regions to clear
  linear, \* LinearFrameAllocator.0, the next frame
  t,      \* rec_page_table
  fa, va, \* the bitmaps of the frame and the virtual memory allocator
  slices, \* the addresses of these two bitmaps
  cr3,    \* the table the processor uses; None for the boot loader's
  out     \* "Ok", the error that init_memory returns, or "panic"

vars == <<mmap, sp, pc, jobs, linear, t, fa, va, slices, cr3, out>>

-----------------------------------------------------------------------------
End(r) == r.base + r.length

size_in_pages(size) == (size \div PAGE_SIZE) + (IF size % PAGE_SIZE # 0 THEN 1 ELSE 0)

OfType(types) == { i \in DOMAIN mmap : mmap[i].type \in types }

(* max_by keeps the last of equal elements.                                *)
LastMaxBy(key) ==
  CHOOSE i \in DOMAIN key :
    \A j \in DOMAIN key : key[j] < key[i] \/ (key[j] = key[i] /\ j <= i)

EndOf(i) == End(mmap[i])

allocator_region == mmap[LastMaxBy([i \in OfType({"Usable"}) |-> mmap[i].length])]

HeapPhys == allocator_region.base

(* The kernel region is the first of its type, as find returns it.         *)
k_sect == mmap[Min(OfType({"ExecutableAndModules"}))]

size_bytes ==
  LET valid == OfType(RegionTypes \ {"Reserved", "Framebuffer"})
      highest_valid_region == LastMaxBy([i \in valid |-> EndOf(i)])
  IN  PageOf(EndOf(highest_valid_region)) \div 8

Job(from, to, flags, pages) == [from |-> from, to |-> to, flags |-> flags, left |-> pages]

KernelVirtToPhys(addr) == addr - Sections[1] + KernelPhys

map_kernel_section(i, flags) ==
  Job(KernelVirtToPhys(Sections[i]), Sections[i], flags \cup {"GLOBAL"},
      size_in_pages(Sections[i + 1] - Sections[i]))

(* Mutant: the flags of the code and of the constants are exchanged.       *)
MapKernelSwapped ==
  << map_kernel_section(1, flags_r), map_kernel_section(2, flags_r),
     map_kernel_section(3, flags_rx), map_kernel_section(4, flags_rw),
     Job(KernelVirtToPhys(Sections[5]), Sections[5], flags_r \cup {"GLOBAL"},
         size_in_pages(k_sect.length - (Sections[5] - Sections[1]))) >>

map_kernel ==
  << map_kernel_section(1, flags_r), map_kernel_section(2, flags_rx),
     map_kernel_section(3, flags_r), map_kernel_section(4, flags_rw),
     Job(KernelVirtToPhys(Sections[5]), Sections[5], flags_r \cup {"GLOBAL"},
         size_in_pages(k_sect.length - (Sections[5] - Sections[1]))) >>

MiscTypes ==
  {"Framebuffer", "AcpiNvs", "AcpiReclaimable", "AcpiTables", "BootloaderReclaimable"}

(* Mutant: the end of a region counts as one of its pages.                 *)
MapMiscInclusive ==
  [ n \in DOMAIN mmap |->
      Job(mmap[n].base, mmap[n].base + HHDM, flags_rwx,
          IF mmap[n].type \in MiscTypes THEN size_in_pages(mmap[n].length) + 1 ELSE 0) ]

(* A region of another type is skipped: no page of it is mapped.           *)
map_misc ==
  [ n \in DOMAIN mmap |->
      Job(mmap[n].base, mmap[n].base + HHDM, flags_rwx,
          IF mmap[n].type \in MiscTypes THEN size_in_pages(mmap[n].length) ELSE 0) ]

-----------------------------------------------------------------------------
Fail(error) ==
  /\ pc' = "failed" /\ out' = error

Init ==
  /\ mmap \in MemoryMaps
  /\ sp \in StackPointers
  /\ pc = "start" /\ out = "Ok"
  /\ jobs = <<>>
  /\ linear = 0
  /\ t = [mem |-> <<>>, lvl4 |-> None]
  /\ fa = New(0, TRUE) /\ va = New(0, TRUE)
  /\ slices = <<None, None>>
  /\ cr3 = None

(* The heap is the first thing taken from the region.                      *)
RootFrame == HeapPhys + HEAP_PAGES * PAGE_SIZE

(* The root table is next, and panics in new_page_table_level when its     *)
(* frame is not aligned; a map without the kernel's own region panics in   *)
(* unwrap.                                                                 *)
Start ==
  /\ pc = "start"
  /\ IF OfType({"Usable"}) = {} THEN Fail("AllocationError") /\ UNCHANGED <<jobs, linear, t>>
     ELSE IF ~Aligned(RootFrame) \/ OfType({"ExecutableAndModules"}) = {}
     THEN Fail("panic") /\ UNCHANGED <<jobs, linear, t>>
     ELSE /\ t' = new(RootFrame)
          /\ linear' = RootFrame + PAGE_SIZE
          /\ jobs' = map_kernel \o map_misc
          /\ pc' = "map" /\ UNCHANGED out
  /\ UNCHANGED <<mmap, sp, fa, va, slices, cr3>>

(* LinearFrameAllocator never fails: it hands out the next frames, and     *)
(* stands after those that were taken.                                     *)
NextFrames == [i \in 1..3 |-> linear + (i - 1) * PAGE_SIZE]

(* Mutant: the allocator advances by one frame per call of map.            *)
LinearAfterOne(left) == linear + (IF Len(left) < 3 THEN PAGE_SIZE ELSE 0)

(* Mutant: three frames are taken for every page.                          *)
LinearAfterThree(left) == linear + 3 * PAGE_SIZE

LinearAfter(left) == linear + (3 - Len(left)) * PAGE_SIZE

(* Mutant: the loop of map_contiguous does not count its pages.            *)
NextPageUncounted(j) == Job(j.from + PAGE_SIZE, j.to + PAGE_SIZE, j.flags, j.left)

NextPage(j) == Job(j.from + PAGE_SIZE, j.to + PAGE_SIZE, j.flags, j.left - 1)

MapPage ==
  /\ pc \in {"map", "heap"} /\ jobs # <<>> /\ Head(jobs).left > 0
  /\ LET j == Head(jobs)
         r == map(t, NextFrames, j.from, j.to, j.flags)
     IN  /\ t' = r.t
         /\ linear' = LinearAfter(r.pool)
         /\ IF r.out = "Ok"
            THEN jobs' = <<NextPage(j)>> \o Tail(jobs) /\ UNCHANGED <<pc, out>>
            ELSE Fail(r.out) /\ UNCHANGED jobs
  /\ UNCHANGED <<mmap, sp, fa, va, slices, cr3>>

NextJob ==
  /\ pc \in {"map", "heap"} /\ jobs # <<>> /\ Head(jobs).left = 0
  /\ jobs' = Tail(jobs)
  /\ UNCHANGED <<mmap, sp, pc, linear, t, fa, va, slices, cr3, out>>

stack_top == sp + 16
stack_bottom == stack_top - STACK_SIZE

(* The stack pages are queued as jobs of one page each.                    *)
UnmapGuardPage ==
  /\ pc = "map" /\ jobs = <<>>
  /\ LET r == unmap(t, stack_top)
     IN  /\ t' = r.t
         /\ IF r.out = "Ok"
            THEN /\ pc' = "stack"
                 /\ jobs' = [ n \in 1..size_in_pages(STACK_SIZE) |->
                                Job(0, stack_bottom + (n - 1) * PAGE_SIZE, flags_rw, 1) ]
                 /\ UNCHANGED out
            ELSE Fail(r.out) /\ UNCHANGED jobs
  /\ UNCHANGED <<mmap, sp, linear, fa, va, slices, cr3>>

RemapStackPage ==
  /\ pc = "stack" /\ jobs # <<>>
  /\ LET r == update_flags(t, Head(jobs).to, Head(jobs).flags)
     IN  /\ t' = r.t
         /\ IF r.out = "Ok" THEN jobs' = Tail(jobs) /\ UNCHANGED <<pc, out>>
            ELSE Fail(r.out) /\ UNCHANGED jobs
  /\ UNCHANGED <<mmap, sp, linear, fa, va, slices, cr3>>

(* BitmapAllocator::new leaves its bitmap in the boot loader's mapping of  *)
(* physical memory: its own call of map_contiguous is commented out.       *)
CreateFrameAllocator ==
  /\ pc = "stack" /\ jobs = <<>>
  /\ fa' = New(size_bytes, TRUE)
  /\ slices' = [slices EXCEPT ![1] = linear + HHDM]
  /\ linear' = linear + PAGE_SIZE * size_in_pages(size_bytes)
  /\ jobs' = mmap /\ pc' = "clear"
  /\ UNCHANGED <<mmap, sp, t, va, cr3, out>>

(* All was marked used; the usable regions are cleared in the order of the *)
(* map, and unwrap panics on an error.                                     *)
ClearRegion ==
  /\ pc = "clear" /\ jobs # <<>>
  /\ LET region == Head(jobs)
         r == flag_range(fa, PageOf(region.base), PageOf(End(region)), FALSE)
     IN  IF region.type # "Usable" THEN jobs' = Tail(jobs) /\ UNCHANGED <<fa, pc, out>>
         ELSE IF r.out # "Ok" THEN Fail("panic") /\ UNCHANGED <<fa, jobs>>
         ELSE fa' = r.a /\ jobs' = Tail(jobs) /\ UNCHANGED <<pc, out>>
  /\ UNCHANGED <<mmap, sp, linear, t, va, slices, cr3>>

(* The virtual memory allocator takes its bitmap, and the heap is next.    *)
HeapNext ==
  /\ pc = "clear" /\ jobs = <<>>
  /\ va' = New(2 * size_bytes, TRUE)
  /\ slices' = [slices EXCEPT ![2] = linear + HHDM]
  /\ linear' = linear + PAGE_SIZE * size_in_pages(2 * size_bytes)
  /\ jobs' = << Job(HeapPhys, HeapPhys + HHDM, flags_rw, HEAP_PAGES) >>
  /\ pc' = "heap" /\ UNCHANGED <<mmap, sp, t, fa, out>>

(* Mutant: the table is loaded with the allocators, before the heap.       *)
CreateVirtualAllocatorAndLoad == HeapNext /\ cr3' = t.lvl4

CreateVirtualAllocator == HeapNext /\ UNCHANGED cr3

(* Mutant: the last frame that the boot took is left out.                  *)
UsedFramesEndShort == PageOf(linear) - 1

UsedFramesEnd == PageOf(linear)

(* What the linear allocator handed out is marked, and the table loaded.   *)
(* The heap then starts inside the mapped pages, and the controller moves  *)
(* into its static.                                                        *)
MarkAndLoad ==
  /\ pc = "heap" /\ jobs = <<>>
  /\ LET r == flag_range(fa, PageOf(HeapPhys), UsedFramesEnd, TRUE)
     IN  IF r.out # "Ok" THEN Fail(r.out) /\ UNCHANGED <<fa, cr3>>
         ELSE fa' = r.a /\ cr3' = t.lvl4 /\ pc' = "booted" /\ UNCHANGED out
  /\ UNCHANGED <<mmap, sp, jobs, linear, t, va, slices>>

(* kernel_main halts after init_memory, and panics when it returned Err.   *)
Stop == pc \in {"failed", "booted"} /\ UNCHANGED vars

Boot ==
  \/ Start \/ MapPage \/ NextJob \/ UnmapGuardPage \/ RemapStackPage
  \/ CreateFrameAllocator \/ ClearRegion \/ CreateVirtualAllocator \/ MarkAndLoad

Next == Boot \/ Stop

Spec == Init /\ [][Next]_vars

-----------------------------------------------------------------------------
Frames == 0..(fa.size - 1)

UsableFrames ==
  UNION { PageOf(mmap[i].base)..(PageOf(EndOf(i)) - 1) : i \in OfType({"Usable"}) }

(* The frames that the boot took: heap, page tables, bitmaps.              *)
BootFrames == PageOf(HeapPhys)..(PageOf(linear) - 1)

(* Every table is mapped from frames taken in the boot, the bitmaps have   *)
(* positions of their own, and an error comes with the end.                *)
TypeOK ==
  /\ pc \in {"start", "map", "stack", "clear", "heap", "booted", "failed"}
  /\ linear \in Nat
  /\ fa.bits \subseteq Frames /\ va.bits \subseteq 0..(va.size - 1)
  /\ pc # "failed" => out = "Ok"
  /\ pc # "start" /\ t.lvl4 # None => { PageOf(f) : f \in DOMAIN t.mem } \subseteq BootFrames

(* init_memory (memory/mod.rs:101): once booted, a frame that the frame    *)
(* allocator may hand out is usable memory, and none of the heap, the page *)
(* tables and the bitmaps.                                                 *)
FreeFramesAreFree ==
  pc = "booted" => (Frames \ fa.bits) \subseteq (UsableFrames \ BootFrames)

PagesFrom(addr, size) == { addr + k * PAGE_SIZE : k \in 0..(size_in_pages(size) - 1) }

PageStart(addr) == PAGE_SIZE * PageOf(addr)

(* The pages that remap_stack gives their flags.                           *)
StackPages == { PageStart(a) : a \in PagesFrom(stack_bottom, STACK_SIZE) }

MiscPages == UNION { PagesFrom(mmap[i].base + HHDM, mmap[i].length) : i \in OfType(MiscTypes) }

(* map_kernel, map_misc, remap_stack and the heap (paging/mod.rs:62,65,    *)
(* memory/mod.rs:93): in the table that is loaded the kernel's code is not *)
(* writable, its data, the heap and the stack are writable and not         *)
(* executable, the page of stack_top is not there, and everything else     *)
(* that the boot loader left, the framebuffer included, is where it was.   *)
(* The page of stack_top is the one above the stack when stack_top is      *)
(* aligned, and the stack's own first page when it is not.                 *)
KernelProtected ==
  pc = "booted" =>
    /\ \A a \in PagesFrom(Sections[2], Sections[3] - Sections[2]) :
         Lookup(t, a).flags = flags_rx \cup {"GLOBAL"}
    /\ \A a \in PagesFrom(Sections[4], Sections[5] - Sections[4]) :
         Lookup(t, a).flags = flags_rw \cup {"GLOBAL"}
    /\ \A a \in StackPages \cup PagesFrom(HeapPhys + HHDM, HEAP_PAGES * PAGE_SIZE) :
         Lookup(t, a).flags = flags_rw /\ translate(t, a) = a - HHDM
    /\ translate(t, stack_top) = None
    /\ \A a \in MiscPages :
         a \in StackPages \/ PageOf(a) = PageOf(stack_top)
           \/ Lookup(t, a) = Entry(a - HHDM, flags_rwx)

Phase ==
  CASE pc = "start" -> 0 [] pc = "map" -> 1 [] pc = "stack" -> 2 [] pc = "clear" -> 3
    [] pc = "heap" -> 4 [] pc \in {"booted", "failed"} -> 5

(* init_memory (memory/mod.rs:43) returns: no loop over pages, regions or  *)
(* the stack turns for ever, since every step reaches a later phase, or    *)
(* has fewer calls of the phase left, or fewer pages of the same call.     *)
BootAdvances ==
  [][ \/ pc = "booted" \/ Phase' > Phase
      \/ Phase' = Phase /\ Len(jobs') < Len(jobs)
      \/ /\ pc \in {"map", "heap"} /\ pc' = pc /\ Len(jobs') = Len(jobs)
         /\ Head(jobs').left \in 0..(Head(jobs).left - 1) ]_vars

-----------------------------------------------------------------------------
(* The pages that the boot maps, from the memory map and the sections      *)
(* alone, and the tables that lead to them: the root, and one for every    *)
(* path of indices from the root to the tables of a level.                 *)
HeapSpan == PagesFrom(HeapPhys + HHDM, HEAP_PAGES * PAGE_SIZE)

BootPages == PagesFrom(Sections[1], k_sect.length) \cup HeapSpan \cup MiscPages

PathTo(level, addr) == [n \in (level + 1)..4 |-> get_page_index(n, addr)]

PathsTo(level, pages) == { PathTo(level, a) : a \in pages }

TablesFor(pages) ==
  1 + Cardinality(PathsTo(1, pages)) + Cardinality(PathsTo(2, pages))
    + Cardinality(PathsTo(3, pages))

BootDemand ==
  HEAP_PAGES + TablesFor(BootPages) + size_in_pages(size_bytes) + size_in_pages(2 * size_bytes)

(* "this place will surely fit the allocators and initial page tables"     *)
(* (memory/mod.rs:57), with nothing that checks it: what the linear        *)
(* allocator hands out (frame_allocation.rs:34) never exceeds a frame for  *)
(* every page of the heap and the bitmaps and for every table that the     *)
(* mapped pages need, and comes to just that.  So it stays in its region   *)
(* if and only if the region has BootDemand frames.                        *)
BootTakesItsDemand ==
  pc \notin {"start", "failed"} =>
    /\ linear <= HeapPhys + BootDemand * PAGE_SIZE
    /\ pc = "booted" => linear = HeapPhys + BootDemand * PAGE_SIZE

(* The usable memory does not end with the last whole byte of the bitmap.  *)
OddFrames == \E i \in OfType({"Usable"}) : PageOf(EndOf(i)) > 8 * size_bytes

MisalignedMap == \E i \in DOMAIN mmap : ~Aligned(mmap[i].base)

(* The linear allocator has left the region that it started in.            *)
RegionTooSmall == linear > End(allocator_region)

(* init_memory returns its errors to kernel_main, and panics itself in     *)
(* four cases only: there is no region of the kernel (paging/mod.rs:60), a *)
(* region is misaligned, and so the root table (page_table.rs:287) or what *)
(* map is given (page_table.rs:99), a usable region ends past the whole    *)
(* bytes of the bitmap (paging/mod.rs:89), where flag leaves the slice and *)
(* new unwraps (frame_allocation.rs:75), or what the boot took, which is   *)
(* marked at the end, has left the largest region.                         *)
BootPanicsExplained ==
  out = "panic" =>
    OfType({"ExecutableAndModules"}) = {} \/ MisalignedMap \/ OddFrames \/ RegionTooSmall

(* The spans of pages that the boot maps: the kernel, the heap, and each   *)
(* region that map_misc takes.                                             *)
Spans ==
  << PagesFrom(Sections[1], k_sect.length), HeapSpan >>
    \o [ n \in DOMAIN mmap |-> IF mmap[n].type \in MiscTypes
                                THEN PagesFrom(mmap[n].base + HHDM, mmap[n].length) ELSE {} ]

SpansOverlap ==
  \E i, j \in DOMAIN Spans : i # j /\ PathsTo(0, Spans[i]) \cap PathsTo(0, Spans[j]) # {}

StackOutside ==
  \E a \in StackPages \cup {stack_top} : PathTo(0, a) \notin PathsTo(0, BootPages)

(* init_memory (memory/mod.rs:43) gives up in the middle, with pages of    *)
(* the new table mapped and frames taken, only when what it was given does *)
(* not fit: no usable memory (mod.rs:64), two spans with a common page     *)
(* (page_table.rs:94) or one in the range of the recursive entry           *)
(* (page_table.rs:62), a stack outside all of them (page_table.rs:110,     *)
(* 190), a region too small for what the boot took.  The half-built table  *)
(* is then not in use: kernel_main reports the error on the boot loader's. *)
BootErrorsExplained ==
  /\ out # "Ok" => cr3 = None
  /\ \/ out \in {"Ok", "panic"}
     \/ out = "AllocationError" /\ OfType({"Usable"}) = {}
     \/ out = "AlreadyMapped" /\ SpansOverlap
     \/ out = "AttemptedMappingToReserved" /\ \E a \in BootPages : Reserved(a)
     \/ out = "NotMapped" /\ StackOutside
     \/ out = "OutOfBounds" /\ RegionTooSmall

(* load sets lvl4 to an address whose level 4 index is the recursive one   *)
(* and whose other indices are 511.                                        *)
LEVEL4 ==
  PAGE_SIZE * (Fanout * Fanout * Fanout * RECURSIVE_INDEX + Fanout * Fanout * Fanout - 1)

(* "Add recursion entry to level-4 page table" (page_table.rs:40), for the *)
(* pointer that load stores (page_table.rs:222): once the table is loaded, *)
(* the walk of the processor from that address ends at the level 4 table.  *)
Level4ReachesRoot == pc = "booted" => translate(t, LEVEL4) = cr3
=============================================================================
