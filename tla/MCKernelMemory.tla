--------------------------- MODULE MCKernelMemory ---------------------------
(***************************************************************************)
(* A machine of 64 frames of 32 bytes and tables of 4 entries.  The kernel *)
(* is linked at page 224 (index 3 of level 4, as 511 of 512), and physical *)
(* memory is mapped from page 64 on (index 1).                             *)
(***************************************************************************)
EXTENDS KernelMemory

P(n) == n * PAGE_SIZE

Region(first, end, type) == [base |-> P(first), length |-> P(end - first), type |-> type]

MCHHDM == P(64)
MCSections == <<P(224), P(225), P(226), P(227), P(229)>>
MCKernelPhys == P(8)

(* At the index of level 4 that nothing else has.                          *)
MCPageAllocatorStart == P(0)

(* A stack of two frames that ends with frame 5, 6 or 7.  After frame 7    *)
(* nothing is mapped that the boot could take for the guard page.  Two     *)
(* more have a stack_top that is not aligned: in the page of the stack     *)
(* pointer, and in the page after it.                                      *)
MCStackPointers ==
  { MCHHDM + P(n) - 16 : n \in {6, 7, 8} } \cup { MCHHDM + P(7) - 24, MCHHDM + P(7) - 8 }

Kernel == Region(8, 15, "ExecutableAndModules")

Layout(low, end, high) ==
  << Region(0, 3, low), Region(3, 8, "BootloaderReclaimable"), Kernel,
     Region(15, end, "Usable"), Region(end, 64, high) >>

(* Every type of region below and above the usable memory, which ends with *)
(* a byte of the bitmap or in the middle of one.  When it ends in the      *)
(* middle and nothing valid follows, the bitmap is shorter than it.        *)
Others == RegionTypes \ {"ExecutableAndModules"}

ManyMaps == { Layout(low, end, high) : low \in Others, end \in {48, 60}, high \in Others }

(* Maps on which the boot fails: no usable memory, no kernel, a region     *)
(* that is not aligned (one to map, or the one that the tables come from), *)
(* two regions that overlap, one at the indices of the recursive entry, no *)
(* page above the stack, a stack that nobody mapped, a region too small    *)
(* for what the boot takes, inside the bitmap and past it.                 *)
BadMaps ==
  { << Region(0, 8, "Reserved") >>,
    << Region(0, 64, "Usable") >>,
    << Kernel, Region(15, 50, "Usable"),
       [base |-> P(50) + 8, length |-> P(1), type |-> "AcpiTables"] >>,
    << Kernel, Region(15, 50, "Usable"), Region(50, 53, "AcpiNvs"), Region(52, 54, "AcpiTables") >>,
    << Kernel, [base |-> P(15) + 8, length |-> P(30), type |-> "Usable"] >>,
    << Kernel, Region(15, 50, "Usable"), Region(64, 65, "Framebuffer") >>,
    << Region(3, 6, "BootloaderReclaimable"), Kernel, Region(15, 50, "Usable") >>,
    << Region(6, 7, "BootloaderReclaimable"), Kernel, Region(15, 50, "Usable") >>,
    << Region(3, 8, "BootloaderReclaimable"), Kernel, Region(15, 24, "Usable") >> }

MCMemoryMaps == ManyMaps \cup BadMaps

(* No byte, one byte, a page and a byte, nine pages and seventeen.         *)
MCSizes == {0, 1, PAGE_SIZE + 1, P(9), P(17)}
=============================================================================
