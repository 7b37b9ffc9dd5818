# A TLA+ model of the kermol kernel

kermol is an x86_64 kernel in Rust, started by the Limine boot loader.  This
directory models its memory management, its console and its panic path.  TLC
checks the models on small instances.  TLAPS proves every safety property of the
runs that pass but two, for every size; where a proof needs more than the run, it says
so below.  Source paths below are relative to `src/src/`.

## The system

| Part | Source | State | Operations | Module |
|---|---|---|---|---|
| Bitmap allocator | `memory/paging/bitmap_allocator.rs` | bitmap, size, cursor `last_allocated` | `new`, `alloc`, `scan*`, `free`, `free_range`, `flag_range`, `check_range` | `Bitmap`, `BitmapAllocator`, `ScanLoops` |
| Frame allocators | `memory/paging/frame_allocation.rs` | next frame (linear); a bitmap | `alloc`, `alloc_contiguous`, `free*` | `KernelBoot`, `AllocatedMemory` |
| Virtual memory allocator | `memory/paging/page_mapping.rs` | a bitmap | `new`, `alloc_contiguous`, `free` | the same |
| Page table | `memory/paging/page_table.rs` | frames full of entries, `lvl4` | `new`, `map`, `unmap`, `update_flags`, `translate`, the contiguous loops, `load` | `PageTableOps`, `PageTable`, `AddressSpace` |
| Paging and memory setup | `memory/paging/mod.rs`, `memory/mod.rs` | boot progress | `init_memory`, `init_paging`, `map_kernel`, `map_misc`, `remap_stack` | `KernelBoot` |
| Controller, allocated memory | `memory/paging/paging_controller.rs`, `memory/allocated_memory.rs` | the two allocators and the table; live allocations | `new`, `reserve_physical`, reads and writes, `Drop`, `alloc_and_map`, `free_and_unmap` | `AllocatedMemory`, `KernelMemory` |
| Text writer, framebuffer | `display/*.rs`, `log_ram_map` | pixels, cursor, colours | `write_char`, `new_line`, `scroll`, printing, colours, the RAM map, the panic message | `TextWriter` |
| Entry, panics, exceptions, segments, serial port | `lib.rs`, `interrupts/*.rs`, `memory/gdt.rs`, `serial.rs` | `PANIC_LEVEL`, two locks, GDT, IDT | `kernel_main`, `panic_handler`, the exception handlers | `KernelConsole` |

**How the parts meet.**  The linear allocator feeds `init_paging`, which builds
the page table and the two bitmap allocators.  `init_memory` marks what the linear
allocator used and loads the table.  From then on callers take memory through
the controller.  Everything prints through two spin locks, and every panic and
exception goes to `panic_handler`, which prints through the same locks.

**What is hard here.**  Grants must stay disjoint over any sequence of calls.  The
index arithmetic of the bitmap has three different bounds.  A `map` may fail with
its path half built, and an allocation with its frames taken.  Boot steps must come
in the right order.  An exception may strike while a lock is held.  `PROJECT.json`
lists the hazards at their lines.

## Modules

* **Bitmap** has the operations as operators on `[bits, size, last]`: the set of
  marked positions, the number of positions and the cursor.  An operation returns
  the new allocator and an outcome: `Ok`, a `MemoryError`, or `panic` for an index
  outside the slice.  `scan_bits` and `scan_bytes` are stated by what they find.
* **ScanLoops** is the evidence for that: the two loops read by read, checked
  and proved against the operators of `Bitmap`.
* **BitmapAllocator** is the state machine: boot flags ranges, then clients
  allocate and free.  `held` (owned positions) and `clash` (positions granted
  although marked) are history variables.
* **PageTableOps** has the page table as operators on `[mem, lvl4]`.  `mem` maps
  a table's frame to its entries.  `map` gets the frames that the allocator will
  still give as a sequence, which may be too short.
* **PageTable** is its state machine.  One step of `map_contiguous` or
  `unmap_contiguous` is one page, since a failure leaves the earlier pages done.
  `asked`, a history variable, has the pages that `map` was ever called for.
* **AddressSpace** is what a page table promises: a map from pages to entries that
  changes one page at a time by `Map`, `Unmap` or `UpdateFlags`.  `PageTable`
  refines it, mapping `space` to the translations of all pages outside the
  recursive range.
* **KernelBoot** is `init_memory` up to the published controller.  `jobs` holds what
  the loops of the current phase have left, in the order of the code: calls of
  `map_contiguous`, stack pages to remap, or regions to clear in the bitmap.
* **KernelMemory** adds the callers of `AllocatedMemory` after the boot.  They run
  on the table that the boot built and loaded.  What it does not map cannot be touched:
  an access there is a page fault, and its handler panics.  `AllocFrom` asks that of
  the slice of a bitmap, `MapAfterLoad` of the address that `load` left in `lvl4`, and
  `StackFault` of the page that `kernel_main` has its frame in.
* **AllocatedMemory** has the same callers, and the controller's own operations,
  where the bitmaps and tables can be touched.  It composes `Bitmap` with
  `PageTableOps`: the frames that `map` takes for its tables come from the same
  bitmap as the frames of the allocations.  One step of `map_contiguous` or
  `unmap_contiguous` is one page; `call` is the loop in progress.
* **TextWriter** is the writer over a framebuffer kept pixel by pixel.  `lines`, a
  history variable, is the log as a reader would lay it out.  One step writes one
  character or sets a colour; `pending` is what the printing function has left to do.
  `overflow_checks` tells the two build profiles apart, which differ in what
  `dimensions - 1` does on a screen without a line.
* **KernelConsole** is the control flow of `kernel_main` as a sequence of steps,
  and of `panic_handler`.  No handler returns, so the state has the running
  function only.  Locks held by what was interrupted stay held, and `struck`
  remembers which ones.  `gdt` and `idt` say what an exception finds: the gates
  name the code segment of the moment they were made, and the double fault needs
  the stack of the task state segment.
* **MemoryLemmas** has the facts about the operators of `Bitmap` and `PageTableOps`
  that the proofs share.  **BitmapAllocatorProofs** (with `ScanLoops`),
  **PageTableProofs**, **AllocatedMemoryProofs**, **KernelBootProofs**,
  **ProtectionProofs**, **DemandProofs** and **ConsoleProofs** (with `TextWriter`) have
  the theorems.  The **MC** modules hold instances.

Each definition that models code is listed with its lines in `PROJECT.json`.
Operators whose comment starts with "Mutant" are plausible faults of the definition that
follows them.  Each breaks a property, which shows that the property depends on the code.

## Runs

Runs that pass:

| Run | What it shows | Bounds | States |
|---|---|---|---|
| `bitmap_allocator` | Owned positions stay marked, no grant clashes, nothing that was handed out comes back, the cursor is inside or dead, and an error is truthful while it is inside | 3 bytes; up to 3 boot ranges with aligned and unaligned ends; requests on both sides of the switch at 16; frees inside, at and past the end | 18 284 |
| `scan_loops` | The loops return what `Bitmap` says, and end | 1, 2 and 10 bytes; cursors at, inside and past every limit | 24 315 |
| `page_table` | The tables form a tree after every failure and are never more than the pages asked for need; the assertion in `map` never fires; `map` is all or nothing; the table implements `AddressSpace` | 2 entries a table, 4 levels, runs of 0 to 2 pages, 0 to 3 frames left for each `map` | 46 722 |
| `kernel_memory` | After boot no free frame is in use or unusable; the kernel's pages have the right flags; the linear allocator takes exactly the frames that the mapped pages need; a panic has one of four causes, an error one of five, and both leave the new table out of use; every boot loop ends; the loaded table never changes, nor an allocator after `load` | 64 frames, 4 entries a table; every type of region below and above the usable memory; nine maps that do not boot; five stack pointers, two with an unaligned `stack_top` | 29 034 |
| `allocated_memory` | Live allocations keep their own pages, mapped as asked; an access that passes the checks stays inside one; no frame is handed out twice, also by calls that fail half way or panic in `Drop` | 56 frames, 16 pages, 4 entries a table; sizes 0, 3, 12 and 64 bytes of 4-byte pages; four sets of usable frames, down to too few; 2 allocations at a time | 22 623 |
| `text_writer` | The screen shows exactly the last lines printed, the message of a panic included, and printing panics only where no glyph fits | 2x2 glyphs, five screen sizes, 5 prints | 148 082 |
| `kernel_console` | The writer is never used before it exists; only a handler waits for a lock; a panic that hangs on the screen was reported on the serial port; no exception resets the machine once the gates are loaded; a panic that finds the locks free is reported | a failure at every step, up to 4 exceptions | 115 |

The page table needs all four levels, so the fanout is small instead.  Two
entries suffice for shared and separate paths at each level and for the recursive
entry.  Boot uses four, since the kernel, physical memory and the recursion have
different level 4 indices.  Two exceptions are enough to strike a handler while
both locks are held: the first during a print to the screen, the second while its
handler writes to the serial port.  `AllocatedMemory` counts `usize` modulo 1024,
so that the sum in `handle_errors` wraps for offsets near the top.

Runs that end in a counterexample, each against a line of the repository:

| Run | The code | The text |
|---|---|---|
| `bitmap_large_requests` | `scan_bytes` uses a bit position as a byte index, and grants a reserved position | "tries to find \*bits\* free space" (`bitmap_allocator.rs:66`) |
| `bitmap_dead_cursor` | `alloc` moves the cursor before `flag_range` may fail; afterwards no search of `scan_bits` succeeds | the same |
| `boot_level4` | `load` stores an address with indices 510, 511, 511, 511, which is not the level 4 table | "Add recursion entry to level-4 page table, using index 510 instead of 511" (`page_table.rs:40`) |
| `frame_base` | `alloc_contiguous` returns a frame's number, so allocations map frames that were not given to them | "returns the base of the lowest allocated physical frame" (`frame_allocation.rs:17`) |
| `panic_screen` | An exception while a lock is held leaves the panic handler waiting for ever | "Allow the panic handler to use kwriter to output whatever it needs directly to the screen" (`vga_text_writer.rs:122`) |

## Fairness

`ScanLoops` assumes weak fairness of its next step and `KernelConsole` of `Run`:
a processor executes its next instruction.  No exception is ever required to
happen.  Waiting for a lock is a stuttering step, and stays one when nobody is left to
release it.  `KernelBoot` needs no fairness: `BootAdvances` says that each step
reaches a later phase or leaves less work.

## Proofs

All theorems hold for every value of the constants that satisfies the named
assumptions of the modules.  TLC evaluates those assumptions in each run.

**The bitmap allocator** (`BitmapAllocatorProofs`), for every size of the bitmap,
every set of boot ranges and every set of requests:

* `TypeCorrect`: no operation writes outside the slice.
* `HeldStaysMarked`: what a client owns is marked.
* `SmallGrantsNeverClash`: `NoClash` if no request exceeds 16 positions.
  Larger ones go to `scan_bytes`, where it is false (`bitmap_large_requests`).
* `CursorStaysInsideOrDead`: the cursor is inside the bitmap or beyond the limit of
  the scan, never in between.
* `ClientsGiveNothingBack`: after the boot no call clears a position or takes one from
  its owner, since `free` and `free_range` answer `DoubleFree` for what is in use.
* `SmallFailuresAreTruthful`: if no request exceeds 16 positions, an allocation that
  fails with the cursor inside fails because no clear run is long enough.

`HeldMarked` is not inductive: a boot range may clear positions, so one needs to
know that nobody owns any while the boot still flags ranges.  The invariant is
`MarkInv == TypeOK /\ HeldMarked /\ (Booting => held = {})`.  It rests on one
lemma for each operation of `Bitmap`: what `flag_range`, `alloc`, `free` and
`free_range` do to the set of positions.  `NoClash` adds `ScanBitsFindsClear`:
what `scan_bits` returns, where it passes the bounds of `flag_range`, is clear.
`alloc` moves the cursor to the end of what it found, which is inside if `flag_range`
accepts it and past the end if not (`AllocCursor`).  `scan_bits` reads the bitmap a
second time as a ring, so each clear run comes whole at some point (`ScanBitsComplete`).

**The scan loops** (also `BitmapAllocatorProofs`): `ScanTypeCorrect` and
`LoopsReturnFirstFit`, for every bitmap, cursor and request.  So the theorems above,
which use the operators of `Bitmap`, are about the loops of the code.  The invariant
`ScanInv` says of `scan_bits` that the run in progress began at `current - found`,
that no start below it fits, and that a set bit ends the run.
For `scan_bytes` it says the same of bytes, as the loop reads them.

**The page table** (`PageTableProofs`), for every fanout, page size, set of
callers and frame allocator that gives fresh frames and may fail at any point:

* `TableTypeCorrect`: every frame that serves as a table holds entries.
* `TreeStays`: the tables form a tree of four levels (`TablesFormTree`).
* `AssertionHolds`: only a misaligned address makes `map` panic.

`TablesFormTree` computes the levels from the root down, which is awkward for
induction.  `TableInv` has a function `lv` from tables to levels instead: links
lead one level down, no two to the same table, and one to each table but the root.
A new table gets the level below its parent's, and
writing an entry of level 1 changes no link.  The loop of `map` that creates the missing levels is one lemma
a turn (`LinkGoesDown`): it is at a table of level n on the path of the page with an
empty slot, and comes to a table of level n - 1 that is all empty, or fails.

**The refinement** (also `PageTableProofs`), for the same constants:

* `MapsAllOrNothing`: a page that cannot be mapped changes no translation.
* `TableImplementsSpace`: `Spec => Space!Spec`.

The argument: a new table changes no translation, since it is empty where there was
no table (`SameSpace`).  Writing an entry of level 1 changes the pages that share all four
indices (`LeafLookup`), since two paths to one table of level 1 have the same
indices (`OnePath`, from the tree).  Two pages below `Fanout^4` with the same
indices are one page (`SamePageIs`).  `AddressAssumption` keeps callers
within the address space, and `JobWithin` carries that through the loops.

**The memory of the tables** (also `PageTableProofs`): `TablesStayBounded`, for the
same constants.  `AskedInv` says that each table but the root is on the path of a page
that was asked for.  `map` moves no table and adds them on the path of its page
only (`Grew`), and a write to level 1 moves none (`LeafKeepsPaths`).  Pages with a
common prefix share the tables above it (`SharedPath`), so a level has at most as many
tables as there are prefixes.

**The console** (`ConsoleProofs`), for every number of exceptions:
`ConsoleTypeCorrect`, `WriterIsReady`, `MainNeverBlocks`, `HungPanicReported` and
`ExceptionsStayHandled`.  `ConsoleInv` says that the machine was reset before the
gates were loaded, or is at one of the 16 steps of `kernel_main` with what the steps before it
have set up, or is in a handler that was started at the current panic level.

**The text writer** (also `ConsoleProofs`), for every size of the screen, the font and
the tabs, every text, and both build profiles:

* `WriterTypes`: the buffer keeps the size of the screen.
* `WriterPanicsOnlyWithoutRoom`: printing panics only where no glyph fits.
* `WriterShowsTheLog`: the last lines of the log are shown, each glyph whole, in its
  place and in its colours (`TextVisible`).
* `WriterLeavesNoGhosts`: no other cell shows a glyph (`NoGhostText`).

`WriterInv` says where the cursor is: at the end of the log, on the screen, with no line
wider than it.  `TextVisible` and `NoGhostText` speak of cells, while `put_char`
and `scroll` compute indices of the buffer.  So the invariant is about pixels: the
one at (x, y) shows its bit of the glyph in cell (x / width, y / height) of the log, or none
if the log has none there.  Pixels beyond the last whole cell are included, since a scroll moves them as well.
`PutCharIs` and `ScrollIs` state what the two do at (x, y), from facts about
quotients and remainders (`DivModIs`, `ProductOrder`).  A scroll by the height of a
glyph moves each pixel to the same bit of the cell above (`ScrollShows`), while the log
loses its first line.  The code fills the freed pixels with the background.  The
assumptions: a font has at least one pixel, and screens and texts have their types
(`FontAssumption`, `ScreensAssumption`, `TextsAssumption`).

**Allocations** (`AllocatedMemoryProofs`), for every page size,
fanout, size of the bitmaps, word size and sequence of calls, where any step may
fail:

* `MemoryTypeCorrect`: the allocators mark positions of their own only, and a live
  allocation has aligned pages in the range of the virtual memory allocator.
* `FramesHandedOutOnce`: no frame is granted twice, to a caller or as a table.
* `PagesHaveOneOwner`: no two live allocations share a page.
* `AllocationsStayMapped`: each of their pages is mapped to its frame with its flags.
* `AccessesStayInside`: an access that `handle_errors` admits is inside its
  allocation and mapped, whether or not the build checks for overflow.

The last four assume that no request has more than 16 pages: larger ones go to
`scan_bytes`, which grants what is in use (`bitmap_large_requests`).  The invariant
has two parts.  `MarkedInv` holds for requests of any size: the tables are a tree in
marked frames, and every page of an allocation, or of the call that maps or unmaps
one, is marked.  It composes the lemmas about `alloc` with those about `map`, which
takes its frames one by one and may find none at any level.  `OwnedInv` adds who owns
what.  That a live allocation stays mapped needs more than that owners are disjoint.
A call of `map_contiguous` in progress has mapped exactly the pages it has done, and
a page that is mapped is marked (`MappedIn`), even one left behind by a call that
failed half way.  So a new grant, which was clear, finds its pages unmapped,
`AlreadyMapped` never occurs, and `map` changes the translation of its own page only
(`UpdateEffect`, from the tree).

Three of the assumptions on the constants deserve a word.  The range of the virtual
memory allocator lies below the end of the address space and outside the recursive
range (`SpaceAssumption`). No value is larger than the address where that range
starts (`CallersAssumption`): Rust bounds a value by `isize::MAX`, and the range is
in the upper half.  The address of the level 4 table is larger than the number of any
frame (`RootAssumption`): since `alloc` returns frame numbers as addresses, the
tables are at those numbers, and the first one must not be among them.  It holds when
the machine has fewer frames than the address of the table, for instance with less
than 4 GiB and a region that starts at 1 MiB.

**The boot** (`KernelBootProofs`), for every memory map that Limine may give, every
page size, fanout, layout of the sections and size of the heap:

* `BootTypeCorrect`: the tables are in frames that the boot took.
* `BootNeverTurnsBack`: each step has less to do, so that the boot ends.
* `PanicsAreExplained`: a panic has one of the four causes of `BootPanicsExplained`.
* `FreeFramesStayFree`: a frame that is free after the boot is usable memory, and not
  part of the heap, the tables or the bitmaps.
* `LoadedTableNeverChanges`: no step changes the table that the processor uses.  The
  virtual allocator starts full and nothing clears a range of it, so its `alloc` finds
  nothing (`NothingFree`) and no call gets as far as `map`.

`FlowInv` has the control: what each phase keeps in `jobs`, that the addresses of
every call to come are aligned unless a region of the memory map is not, and that
`cr3` is set at the end only.  `TableInv` adds that the tables are a tree in frames
from the heap up to `linear`.  So the frames that the linear allocator gives next are
fresh, and the assertion of `map` never fires.  `MarkInv` relates the bitmap to the
memory map: a clear position is a usable frame, also while the regions are cleared
one by one, and in the end none that the boot took, since all of those are below
`linear`.

**Protection** (`ProtectionProofs`): `LoadedTableProtects` is `KernelProtected` for
the same constants, under `StackLayout`.  This hypothesis is about the memory map and
the stack pointer:

* The stack is in memory that `map_misc` maps.  Without it `update_flags` answers
  `Ok` for a page that has no level 1 table, and the boot goes on with a stack that
  is not mapped.
* The page of `stack_top`, which `remap_stack` unmaps, is none of the pages that get the
  stack's flags, the heap, the code or the data.  Otherwise one of them loses a page, or
  the heap, which is mapped later, fills the gap again.
* No page of another region shares its four indices.

Each state with `pc = "booted"` of the run `kernel_memory` satisfies it.  It does not
ask for an aligned `stack_top`.  `remap_stack` gives flags to the `STACK_SIZE / PAGE_SIZE`
pages from that of `stack_bottom` on, and unmaps the next.  When `stack_top` is
aligned that is the page above the stack.  When it is not, it is the page in which the
stack has its top, and the kernel loses a page that it uses (see the limits below).  The
invariant `ProtInv` goes through the phases: while mapping, each page that some call
has to map is mapped as wanted or still in `jobs`; from the guard page on, each is as
wanted, or was the guard, or belongs to the stack, whose pages have their last flags
or are queued for them.  `map` keeps the pages that are mapped and gives its own the
entry it was asked for.  A page mapped twice by overlapping regions ends the boot
with `AlreadyMapped`, and it is that check which makes the queue's order irrelevant.

**What the boot takes** (`DemandProofs`): `BootTakesWhatItNeeds` is `BootTakesItsDemand`
for the constants of the boot, without `StackLayout`.  `DemandInv` counts: `linear` has
passed one frame for each page of the heap, each table and each page of the bitmaps
made so far.  A table other than the root is on the path of a page that is served,
and each page that the boot maps is served or still in `jobs`.  A page stays served
when it is unmapped, since `unmap` keeps the tables.  Then the tables are counted: in
a tree two served pages reach the same table of a level if and only if the indices
above it agree (`PathIsTable`), so there are as many tables as prefixes
(`TableCount`).  While pages
are left in `jobs` the prefixes of the served ones are among those of all, which gives
the bound; when none are left, the equality.

**Only model-checked.**  The liveness properties `Terminates` and `PanicIsReported`,
which are out of the prover's reach, and the runs that end in a counterexample.
Two safety properties of the boot have no proof: `BootErrorsExplained`, and
`LoadEndsAllocation`, which needs that no region of `map_misc` overlaps the memory that
the boot takes, as in each map of the run that boots.
`NoClash`, `FailureIsTruthful` and four properties of the allocations are
proved for requests of at most 16 positions, `KernelProtected` under `StackLayout`;
beyond that TLC checks what its instances have.

## Limits of the models

* `allocated_memory.rs` does not type-check as it stands; its evident control flow is
  modelled.  What a write stores is not.
* In the kernel as it is no allocation succeeds after `load`: the bitmaps and
  tables are reached through the boot loader's mapping of physical memory, which
  the new table does not have (`page_table.rs:24`, `bitmap_allocator.rs:31`), and no
  range of the virtual allocator is ever cleared.  `KernelMemory` models this.
  `AllocatedMemory` models the calls where the memory can be touched, with and
  without such a range, since its properties are about the code of the calls.
* `stack_top` is the stack pointer at entry plus 16 (`paging/mod.rs:230`); where in a
  page that is, depends on the build.  The contract of `remap_stack`, which is
  `unsafe` "because \*entry_stack_pointer\* needs to be correct", leaves it to the caller.
  The run takes aligned and unaligned ones.  After an unaligned one the boot succeeds, and
  when the page it unmapped is that of the stack pointer, the next push faults without a
  stack: `StackFault`, which ends in the handler of the double fault.
* `MapAfterLoad` follows a call of `map` through `lvl4` up to the first entry it writes.
  No call gets there (`LoadedTableNeverChanges`).
* `unmap` and `update_flags` get pages outside the recursive range, as from
  all their callers.
* The entries of the tables are kept apart from the rest of memory.  `frame_base`
  shows that an allocation may map a frame that serves as a table; what a write
  through that mapping does to the table is not modelled.
* Virtual addresses are four indices and an offset; sign extension is left out.
* The TLB is not modelled.  `LoadedTableIsFinal` shows that no entry changes after
  `load`, so no `flush` is missing.
* The linear allocator has no end (`memory/mod.rs:63` says why).  `BootTakesItsDemand`
  says what it takes.  A boot that runs over the end of the region goes on as the code
  does, and may end in a panic when the range is marked (`RegionTooSmall`).
* In `KernelConsole` consecutive fallible calls are one step, and so are the
  prints of the RAM map.  The initialisation of `SERIAL1` is part of taking its lock.  An
  exception before `load_idt` resets the machine.
* The exception handlers are one action, since each panics at once with its own
  message.  `machine_check_handler` is not among them: no gate names it
  (`interrupts/mod.rs:39`), and a machine check ends as an exception without a gate.

### Not modelled

* `set_position`, `clear` and a writer that does not scroll: nothing uses them.
  The shapes of the glyphs are data.
* The pitch of the framebuffer: the code does not read it.
* The APIC code and `init_interrupts`: commented out.
* The heap's own allocator and the serial device: external.
* `util.rs`: constants and macros, expanded where they are used.

### Differences between code and text without a run of their own

* `free` answers `DoubleFree` when a position is in use and `Ok` when it is not
  (`bitmap_allocator.rs:122`).  So a `Drop` always panics, where a comment says of
  reserved frames that "their virtual memory will be freed" (`allocated_memory.rs:48`).
* `flag` uses `|=` and never clears a bit (`bitmap_allocator.rs:195`), where
  `BitmapFrameAllocator::new` relies on it to "clear all usable memory"
  (`frame_allocation.rs:64`): only whole bytes are cleared.
* The boot panics when usable memory ends past the last whole byte of the bitmap
  (`paging/mod.rs:89`), and when a region that it maps, or the one it takes its frames
  from, is not aligned (`page_table.rs:99`, `:287`; `BootPanicsExplained`).
* The guard page is the page of `stack_top`, although the stack grows down
  (`paging/mod.rs:233`).
* A comment says "already mapped as read only" (`paging/mod.rs:67`); `map_misc` maps
  the stack's region as writable and executable.
* The virtual allocator is to be given space after its construction
  (`bitmap_allocator.rs:19`); nothing does.
* `handle_errors` compares with `>=` and so rejects the last value that fits
  (`allocated_memory.rs:127`).
* The frames of an `AllocatedMemory::new` that fails in the virtual allocator, and the
  pages that a `map_contiguous` mapped before it failed, stay taken.
* `unmap` keeps empty tables (`page_table.rs:186`); `TablesBounded` says how many
  that can become.
* `update_flags` answers `Ok` when the page has no level 1 table.
* The linear allocator is called "downward growing" (`frame_allocation.rs:27`) and
  grows upward.
* Unsupported characters get a box and not an "empty glyph"
  (`vga_text_emulation.rs:460`), and `kprint_color` restores the default colour and
  not the previous one.

## Plan

1. When the offset mapping of physical memory is added to the new table, extend
   `KernelMemory` to the allocations that then succeed, with the TLB.
