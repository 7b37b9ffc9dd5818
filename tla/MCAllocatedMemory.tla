------------------------- MODULE MCAllocatedMemory -------------------------
(***************************************************************************)
(* Pages of 4 bytes, tables of 4 entries, addresses of 10 bits: 256 pages, *)
(* of which the allocator of pages has 16, from the middle.                *)
(***************************************************************************)
EXTENDS AllocatedMemory

(* All frames; single frames that come out aligned, enough for one         *)
(* allocation of one page with its tables, and too few; nothing.           *)
MCUsableRanges ==
  { { <<0, 56>> },
    { <<0, 8>>, <<16, 24>>, <<32, 40>>, <<48, 56>> },
    { <<0, 8>>, <<16, 32>> },
    {} }

(* The kernel assigns nothing.                                             *)
MCAssignedRanges == { {}, { <<0, 16>> } }

(* None, part of a page, three pages, and all pages there are.             *)
MCSizes == {0, 3, 12, 64}

MCFlags == {flags_r, flags_rw}

(* One that is aligned and one that is not.                                *)
MCPhysAddrs == {800, 802}

MCOffsets == {0, 2, 11, 512, 1023}

(* No value of Rust is larger than half of the address space.              *)
MCValueSizes == {0, 3, 511}
=============================================================================
