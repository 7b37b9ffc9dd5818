---------------------------- MODULE MCScanLoops ----------------------------
EXTENDS ScanLoops

Search(bytes, bits, last, target, mode) ==
  [ a |-> [bits |-> bits, size |-> 8 * bytes, last |-> last],
    target |-> target, mode |-> mode ]

(* Bitmaps of one and two bytes for scan_bits, with single clear bits,     *)
(* clear bytes, clear ends and cursors inside, at and past the end and the *)
(* limit; bitmaps of ten bytes for scan_bytes, of which it reads bytes 0   *)
(* and 8 before it runs off the end.                                       *)
MCInputs ==
  { Search(1, bits, last, target, "bits") :
      bits \in SUBSET {0, 3, 6, 7}, last \in {0, 4, 8, 59, 64, 70}, target \in {0, 8, 16} }
  \cup
  { Search(2, bits, last, target, "bits") :
      bits \in SUBSET {1, 5, 8, 14}, last \in {0, 6, 16, 120}, target \in {8, 16} }
  \cup
  { Search(10, bits, last, target, "bytes") :
      bits \in SUBSET {2, 8, 63, 64, 71, 72}, last \in {0, 1, 8, 9, 80}, target \in {0, 1, 2, 3} }
=============================================================================
