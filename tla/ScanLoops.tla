----------------------------- MODULE ScanLoops -----------------------------
(***************************************************************************)
(* The two search loops of bitmap_allocator.rs, scan_bits and scan_bytes,  *)
(* one read of the bitmap at a time.  They are the same loop: scan_bits    *)
(* reads one bit per position up to eight times the size, around the ring; *)
(* scan_bytes reads a byte for every eighth position up to the size.       *)
(* Module Bitmap says what they return without saying how; this module is  *)
(* the evidence that the code's loops return just that, and end.           *)
(***************************************************************************)
EXTENDS Bitmap

CONSTANT Inputs   \* the searches: [a, target, mode]

Modes == {"bits", "bytes"}

IsAllocator(a) ==
  /\ a = [bits |-> a.bits, size |-> a.size, last |-> a.last]
  /\ a.size \in Nat \ {0} /\ a.size % 8 = 0
  /\ a.bits \subseteq 0..(a.size - 1)
  /\ a.last \in Nat

ASSUME InputsAssumption ==
  \A in \in Inputs :
    /\ in = [a |-> in.a, target |-> in.target, mode |-> in.mode]
    /\ IsAllocator(in.a)
    /\ in.target \in Nat
    /\ in.mode \in Modes

VARIABLES
  in,       \* the search, constant
  current,  \* the locals of the loop
  sum,
  found,
  pc,       \* "outer" and "inner" head the two loops, "done" has returned
  res       \* what is returned, [out, start]

scan_vars == <<in, current, sum, found, pc, res>>

Limit == IF in.mode = "bits" THEN 8 * in.a.size ELSE in.a.size

Stride == IF in.mode = "bits" THEN 1 ELSE 8

(* The value read at position c: whether it is zero, and whether the index *)
(* exists (scan_bits reduces it modulo the length, scan_bytes does not).   *)
ReadsZero(c) ==
  IF in.mode = "bits" THEN RingBit(in.a, c) \notin in.a.bits
  ELSE (8 * c)..(8 * c + 7) \cap in.a.bits = {}

ReadsInside(c) == in.mode = "bytes" => c < BitmapLen(in.a)

ScanInit ==
  /\ in \in Inputs
  /\ current = IF in.mode = "bits" THEN in.a.last ELSE AlignUp(in.a.last)
  /\ sum = 0 /\ found = 0
  /\ pc = "outer"
  /\ res = [out |-> "none", start |-> 0]

(* Mutant: found is not reset when the search restarts.                    *)
EnterKeepsFound ==
  /\ pc = "outer" /\ current < Limit
  /\ sum' = 0 /\ pc' = "inner"
  /\ UNCHANGED <<in, current, found, res>>

Enter ==
  /\ pc = "outer" /\ current < Limit
  /\ sum' = 0 /\ found' = 0 /\ pc' = "inner"
  /\ UNCHANGED <<in, current, res>>

GiveUp ==
  /\ pc = "outer" /\ current >= Limit
  /\ pc' = "done" /\ res' = [out |-> "AllocationError", start |-> 0]
  /\ UNCHANGED <<in, current, sum, found>>

InnerLoops == sum = 0 /\ found < in.target /\ current < Limit

(* Mutant: the cursor moves by one position in both loops.                 *)
NextByOne(c) == c + 1

NextPosition(c) == c + Stride

Read ==
  /\ pc = "inner" /\ InnerLoops /\ ReadsInside(current)
  /\ sum' = IF ReadsZero(current) THEN 0 ELSE 1
  /\ found' = found + 1
  /\ current' = NextPosition(current)
  /\ UNCHANGED <<in, pc, res>>

(* The slice index is out of bounds.                                       *)
ReadPanics ==
  /\ pc = "inner" /\ InnerLoops /\ ~ReadsInside(current)
  /\ pc' = "done" /\ res' = [out |-> "panic", start |-> 0]
  /\ UNCHANGED <<in, current, sum, found>>

(* Mutant: the search restarts on the bit that ended it.                   *)
ContinueOnSetBit ==
  /\ pc = "inner" /\ sum > 0
  /\ pc' = "outer" /\ current' = current - Stride /\ found' = 0
  /\ UNCHANGED <<in, sum, res>>

Continue ==
  /\ pc = "inner" /\ sum > 0
  /\ pc' = "outer"
  /\ UNCHANGED <<in, current, sum, found, res>>

ReturnFound ==
  /\ pc = "inner" /\ ~InnerLoops /\ sum = 0
  /\ pc' = "done"
  /\ res' = [out |-> "Ok", start |-> current - found * Stride]
  /\ UNCHANGED <<in, current, sum, found>>

Done == pc = "done" /\ UNCHANGED scan_vars

ScanNext == Enter \/ GiveUp \/ Read \/ ReadPanics \/ Continue \/ ReturnFound \/ Done

(* A loop that is entered runs on: nothing preempts it for good.           *)
ScanSpec == ScanInit /\ [][ScanNext]_scan_vars /\ WF_scan_vars(ScanNext)

-----------------------------------------------------------------------------
(* The locals are counters, a read is zero or not, and the cursor of the   *)
(* loop is where "found" reads since the last restart have taken it.       *)
ScanTypeOK ==
  /\ in \in Inputs
  /\ current \in Nat /\ sum \in {0, 1} /\ found \in Nat
  /\ found * Stride <= current
  /\ pc \in {"outer", "inner", "done"}
  /\ res.out \in {"none", "Ok", "AllocationError", "panic"} /\ res.start \in Nat

(* scan_bits and scan_bytes return what Bitmap says: the first start from  *)
(* which everything read is clear, AllocationError when there is none, a   *)
(* panic when the search runs off the bitmap first.                        *)
ReturnsFirstFit ==
  pc = "done" =>
    res = IF in.mode = "bits" THEN scan_bits(in.a, in.target)
          ELSE scan_bytes(in.a, in.target)

(* Both loops end: every pass of the inner loop moves the cursor or        *)
(* leaves it for good.                                                     *)
Terminates == <>(pc = "done")
=============================================================================
