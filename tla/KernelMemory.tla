---------------------------- MODULE KernelMemory ----------------------------
(***************************************************************************)
(* The memory of the running kernel: what KernelBoot left, and the calls   *)
(* that take memory from it, AllocatedMemory::new and ::reserve_physical   *)
(* (memory/allocated_memory.rs).  They run after load, on the page table   *)
(* that the boot built: what that table does not map cannot be touched.    *)
(* (Module AllocatedMemory has the same calls where it can.)               *)
(***************************************************************************)
EXTENDS KernelBoot

CONSTANTS
  Sizes,                 \* bytes that callers ask for
  PAGE_ALLOCATOR_START   \* the first page of the virtual memory allocator

ASSUME SizesAssumption == Sizes \subseteq Nat

VARIABLE res     \* how the last call ended

kvars == <<vars, res>>

KInit == Init /\ res = "Ok"

BootStep == Boot /\ UNCHANGED res

Running == pc = "booted" /\ res # "panic"

(* Whether the loaded table maps all the bytes from an address on.         *)
Reachable(addr, bytes) ==
  \A b \in {addr, addr + bytes - 1} \cup PagesFrom(addr, bytes) : translate(t, b) # None

(* Mutant: the bitmap is read whether it is mapped or not.                 *)
AllocFromAnywhere(a, slice, pages) == alloc(a, pages)

(* The scan of alloc reads the bitmap unless the request is too large for  *)
(* it; the handler of the page fault panics.                               *)
AllocFrom(a, slice, pages) ==
  IF pages < a.size /\ ~Reachable(slice, BitmapLen(a))
  THEN [a |-> a, out |-> "panic", start |-> 0]
  ELSE alloc(a, pages)

(* map_contiguous, with the frame allocator a, goes through lvl4, which    *)
(* load has set to LEVEL4: a page fault where the table has nothing there. *)
(* What is there otherwise is taken for the root, and given a new level 3  *)
(* table.  The walk is followed no further.                                *)
MapAfterLoad(a, page) ==
  LET root  == translate(t, LEVEL4)
      frame == AllocFrom(a, slices[1], 1)
      entry == Entry(frame.start, flags_rwx)
  IN  IF root = None \/ frame.out = "panic" THEN [t |-> t, a |-> a, out |-> "panic"]
      ELSE IF frame.out # "Ok" THEN [t |-> t, a |-> frame.a, out |-> "TableAllocationFailed"]
      ELSE [t |-> SetEntry(t, root, get_page_index(4, page), entry), a |-> frame.a, out |-> "Ok"]

(* Pages for what the frame allocator has granted, or the caller has; f is *)
(* the outcome so far.                                                     *)
AllocPagesAndMap(f, pages) ==
  LET v == IF f.out # "Ok" THEN [a |-> va, out |-> f.out] ELSE AllocFrom(va, slices[2], pages)
      m == IF v.out # "Ok" THEN [t |-> t, a |-> f.a, out |-> v.out]
           ELSE MapAfterLoad(f.a, PAGE_ALLOCATOR_START + v.start * PAGE_SIZE)
  IN  fa' = m.a /\ va' = v.a /\ t' = m.t /\ res' = m.out

AllocatedMemoryNew(size) ==
  /\ Running
  /\ IF size = 0 THEN res' = "EmptyAllocation" /\ UNCHANGED <<fa, va, t>>
     ELSE AllocPagesAndMap(AllocFrom(fa, slices[1], size_in_pages(size)), size_in_pages(size))
  /\ UNCHANGED <<mmap, sp, pc, jobs, linear, slices, cr3, out>>

ReservePhysical(size) ==
  /\ Running
  /\ IF size = 0 THEN res' = "EmptyAllocation" /\ UNCHANGED <<fa, va, t>>
     ELSE AllocPagesAndMap([a |-> fa, out |-> "Ok"], size_in_pages(size))
  /\ UNCHANGED <<mmap, sp, pc, jobs, linear, slices, cr3, out>>

(* kernel_main has its frame below the stack pointer on entry.  When that  *)
(* page is the one that remap_stack has unmapped, the fault finds no stack *)
(* for its handler, and the handler of the double fault panics; how soon,  *)
(* depends on the frames of the functions that run.                        *)
StackFault ==
  /\ Running /\ translate(t, sp - 8) = None
  /\ res' = "panic" /\ UNCHANGED vars

KHalt == (pc = "failed" \/ res = "panic") /\ UNCHANGED kvars

KNext ==
  \/ BootStep
  \/ \E size \in Sizes : AllocatedMemoryNew(size) \/ ReservePhysical(size)
  \/ StackFault
  \/ KHalt

KSpec == KInit /\ [][KNext]_kvars

-----------------------------------------------------------------------------
(* load (page_table.rs:211) is the last thing that happens to the table:   *)
(* no call of map, unmap or update_flags ever changes an entry that the    *)
(* processor may have cached, so that none needs the flush                 *)
(* (page_table.rs:225) that nobody calls.                                  *)
LoadedTableIsFinal == [][cr3 # None => UNCHANGED t]_kvars

(* new of BitmapAllocator (bitmap_allocator.rs:30) leaves the bitmaps in   *)
(* the boot loader's mapping, of which the loaded table has nothing but    *)
(* the regions of map_misc and the heap: while the boot stayed in its      *)
(* region, no call after load changes an allocator.  Each ends in a page   *)
(* fault or an error, and nothing is ever handed out that cannot be        *)
(* tracked.                                                                *)
LoadEndsAllocation == [][pc = "booted" /\ ~RegionTooSmall => UNCHANGED <<fa, va>>]_kvars
=============================================================================
