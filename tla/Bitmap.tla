------------------------------- MODULE Bitmap -------------------------------
(***************************************************************************)
(* The operations of src/src/memory/paging/bitmap_allocator.rs, as         *)
(* operators on the value of a BitmapAllocator.  The kernel calls them     *)
(* from one thread, each runs to completion, and larger operations chain   *)
(* them, so they are operators rather than actions: BitmapAllocator turns  *)
(* them into a state machine, and the modules that own an allocator apply  *)
(* them to their own variables.                                            *)
(*                                                                         *)
(* An allocator is [bits, size, last]: bits is the set of positions whose  *)
(* bit is 1 in the bitmap, size the field "size" (eight times the length   *)
(* of the slice), last the field "last_allocated".  An operation returns   *)
(* [a, out]: the allocator it leaves and "Ok", the MemoryError it returns, *)
(* or "panic".  A panic ends the machine (panic_handler never returns), so *)
(* the allocator it leaves behind is seen by nobody and is not modelled.   *)
(***************************************************************************)
EXTENDS FiniteSetsExt

Outcomes == {"Ok", "OutOfBounds", "AllocationError", "DoubleFree", "panic"}

Return(a, out) == [a |-> a, out |-> out]

AlignUp(x) == x + ((8 - (x % 8)) % 8)

AlignDown(x) == x - (x % 8)

BitmapLen(a) == a.size \div 8

New(bytes, set_at_init) ==
  [ bits |-> IF set_at_init THEN 0..(8 * bytes - 1) ELSE {},
    size |-> 8 * bytes,
    last |-> 0 ]

in_range(a, bit) == bit < a.size * 8

(* Mutant: the end of the range is compared with < instead of <=.          *)
RangeStrictlyBelow(a, end) == end < a.size * 8

range_in_bounds(a, end) == end <= a.size * 8

(* self.bitmap[bit / 8] panics unless the byte exists.                     *)
Indexable(a, bit) == bit \div 8 < BitmapLen(a)

-----------------------------------------------------------------------------
(* scan_bits reads the bitmap as a ring: byte (c/8) mod len, bit c mod 8.  *)
RingBit(a, c) == 8 * ((c \div 8) % BitmapLen(a)) + (c % 8)

(* Mutant: the inner loop stops one bit early.                             *)
FitsOneShort(a, target) ==
  { s \in a.last..(a.size * 8 - 1) :
      \A c \in s..(s + target - 2) : c < a.size * 8 => RingBit(a, c) \notin a.bits }

(* Mutant: the loop ends at the end of the bitmap, without wrapping.       *)
FitsNoWrap(a, target) ==
  { s \in a.last..(a.size - 1) :
      \A c \in s..(s + target - 1) : c < a.size => RingBit(a, c) \notin a.bits }

(***************************************************************************)
(* The loop of scan_bits restarts after every set bit it meets and returns *)
(* the first start from which it reads target clear bits, or from which it *)
(* reads clear bits up to its limit of size * 8.  (Module ScanLoops has    *)
(* the loop itself, and shows that it computes this.)                      *)
(***************************************************************************)
Fits(a, target) ==
  { s \in a.last..(a.size * 8 - 1) :
      \A c \in s..(s + target - 1) : c < a.size * 8 => RingBit(a, c) \notin a.bits }

scan_bits(a, target) ==
  LET fits == Fits(a, target)
  IN  IF fits = {}
      THEN [out |-> "AllocationError", start |-> 0]
      ELSE [out |-> "Ok", start |-> Min(fits)]

(***************************************************************************)
(* scan_bytes visits every eighth position p below size, from the cursor   *)
(* rounded up, and reads the byte with INDEX p.  It returns the first p    *)
(* from which "target" visited bytes are zero, and panics when it reaches  *)
(* a p that is no index of the bitmap.                                     *)
(***************************************************************************)
Visited(a) == { p \in AlignUp(a.last)..(a.size - 1) : p % 8 = 0 }

ByteIsZero(a, p) == p < BitmapLen(a) /\ (8 * p)..(8 * p + 7) \cap a.bits = {}

ByteFits(a, target) ==
  { s \in Visited(a) :
      \A p \in Visited(a) : p \in s..(s + 8 * (target - 1)) => ByteIsZero(a, p) }

scan_bytes(a, target) ==
  IF ByteFits(a, target) # {}
  THEN [out |-> "Ok", start |-> Min(ByteFits(a, target))]
  ELSE [out   |-> IF \E p \in Visited(a) : p >= BitmapLen(a)
                  THEN "panic" ELSE "AllocationError",
        start |-> 0]

scan(a, bits) ==
  IF bits >= a.size THEN [out |-> "OutOfBounds", start |-> 0]
  ELSE IF bits > 16 THEN scan_bytes(a, bits)
  ELSE scan_bits(a, AlignUp(bits))

-----------------------------------------------------------------------------
(* Mutant: flag writes without the bounds check of the slice.              *)
FlagEachUnchecked(a, S, flag) ==
  IF \E b \in S : ~in_range(a, b) THEN Return(a, "OutOfBounds")
  ELSE Return([a EXCEPT !.bits = IF flag THEN @ \cup S ELSE @], "Ok")

(* A run of calls of flag on the positions S.  A set bit is or-ed in; a    *)
(* clear bit is or-ed in too, which changes nothing.                       *)
FlagEach(a, S, flag) ==
  IF \E b \in S : ~in_range(a, b) THEN Return(a, "OutOfBounds")
  ELSE IF \E b \in S : ~Indexable(a, b) THEN Return(a, "panic")
  ELSE Return([a EXCEPT !.bits = IF flag THEN @ \cup S ELSE @], "Ok")

(* A range of eight or more is flagged bit by bit at its unaligned ends    *)
(* and filled byte by byte in between.                                     *)
flag_range(a, lo, hi, flag) ==
  LET body == AlignUp(lo)..(AlignDown(hi) - 1)
      ends == (lo..(hi - 1)) \ body
  IN  IF ~range_in_bounds(a, hi) THEN Return(a, "OutOfBounds")
      ELSE IF hi - lo < 8 THEN FlagEach(a, lo..(hi - 1), flag)
      ELSE IF \E b \in body : ~Indexable(a, b) THEN Return(a, "panic")
      ELSE FlagEach([a EXCEPT !.bits = IF flag THEN @ \cup body ELSE @ \ body],
                    ends, flag)

-----------------------------------------------------------------------------
(***************************************************************************)
(* check_range tests the positions in order and stops calling check at the *)
(* first that differs, so that a position outside the bitmap panics only   *)
(* when everything before it agreed; the slice of whole bytes is taken     *)
(* whatever was found before it.                                           *)
(***************************************************************************)
Agrees(a, S, set) == \A b \in S : Indexable(a, b) => (set <=> b \in a.bits)

check_range(a, lo, hi, set) ==
  LET body == AlignUp(lo)..(AlignDown(hi) - 1)
  IN  IF ~range_in_bounds(a, hi) THEN "OutOfBounds"
      ELSE IF hi - lo >= 8 /\ \E b \in body : ~Indexable(a, b) THEN "panic"
      ELSE IF ~Agrees(a, lo..(hi - 1), set) THEN "false"
      ELSE IF \E b \in lo..(hi - 1) : ~Indexable(a, b) THEN "panic"
      ELSE "true"

-----------------------------------------------------------------------------
(* Mutant: the last position of the grant is not flagged.                  *)
AllocFlagsOneLess(a, bits) ==
  LET found   == scan(a, bits)
      end     == found.start + bits
      flagged == flag_range([a EXCEPT !.last = end], found.start,
                            IF bits > 0 THEN end - 1 ELSE end, TRUE)
  IN  IF found.out # "Ok"
      THEN [a |-> a, out |-> found.out, start |-> 0]
      ELSE [a |-> flagged.a, out |-> flagged.out, start |-> found.start]

(* last_allocated is assigned before flag_range is known to succeed.       *)
alloc(a, bits) ==
  LET found   == scan(a, bits)
      end     == found.start + bits
      flagged == flag_range([a EXCEPT !.last = end], found.start, end, TRUE)
  IN  IF found.out # "Ok"
      THEN [a |-> a, out |-> found.out, start |-> 0]
      ELSE [a |-> flagged.a, out |-> flagged.out, start |-> found.start]

(* free asks check(bit, false), which holds of a clear bit, and reports    *)
(* DoubleFree when it does not hold.                                       *)
free(a, bit) ==
  IF bit >= a.size THEN Return(a, "OutOfBounds")
  ELSE IF bit \in a.bits THEN Return(a, "DoubleFree")
  ELSE FlagEach(a, {bit}, FALSE)

(* Mutant: the range is cleared without asking check_range.                *)
FreeRangeUnchecked(a, lo, hi) ==
  LET flagged == flag_range(a, lo, hi, FALSE)
  IN  Return(flagged.a, IF flagged.out = "Ok" THEN "panic" ELSE flagged.out)

(* free_range ends in todo!(), which panics.                               *)
free_range(a, lo, hi) ==
  LET checked == check_range(a, lo, hi, FALSE)
      flagged == flag_range(a, lo, hi, FALSE)
  IN  CASE checked \in {"OutOfBounds", "panic"} -> Return(a, checked)
        [] checked = "false"                    -> Return(a, "DoubleFree")
        [] checked = "true"                     ->
             Return(flagged.a, IF flagged.out = "Ok" THEN "panic" ELSE flagged.out)
=============================================================================
