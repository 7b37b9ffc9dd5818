----------------------- MODULE BitmapAllocatorProofs -----------------------
(***************************************************************************)
(* What BitmapAllocator promises for bitmaps of every length and requests  *)
(* of every size, proved from the facts of MemoryLemmas on its operations. *)
(***************************************************************************)
EXTENDS BitmapAllocator, ScanLoops, MemoryLemmas

-----------------------------------------------------------------------------
(* HeldMarked alone is not inductive: a flag_range of the boot clears      *)
(* positions, which is harmless only because nobody owns any yet.          *)
MarkInv == TypeOK /\ HeldMarked /\ (Booting => held = {})

LEMMA MarkInvInit == Init => MarkInv
<1> SUFFICES ASSUME Init PROVE MarkInv
  OBVIOUS
<1>1. TypeOK
  BY BytesAssumption DEF Init, New, Call, TypeOK, Operations, Outcomes
<1>2. QED
  BY <1>1 DEF Init, MarkInv, HeldMarked

LEMMA MarkInvStep == MarkInv /\ [Next]_vars => MarkInv'
<1> SUFFICES ASSUME MarkInv, [Next]_vars PROVE MarkInv'
  OBVIOUS
<1>0. al \in Allocators(Bytes) /\ held \subseteq al.bits /\ setup \in Nat
      /\ held \subseteq Nat /\ clash \subseteq Nat
  BY DEF MarkInv, TypeOK, HeldMarked, Allocators
<1>1. ASSUME NEW x \in SetupRanges, FlagRange(x[1], x[2], x[3])
      PROVE  MarkInv'
  <2> DEFINE lo == x[1]
             hi == x[2]
             flag == x[3]
             r == flag_range(al, lo, hi, flag)
  <2>1. lo \in Nat /\ hi \in Nat /\ lo <= hi /\ flag \in BOOLEAN
    BY SetupAssumption
  <2> HIDE DEF lo, hi, flag
  <2>2. r.a \in Allocators(Bytes) /\ r.out \in {"Ok", "OutOfBounds", "panic"}
    <3>1. FlaggedRange(Bytes, al, lo, hi, flag, r)
      BY BytesAssumption, <1>0, <2>1, FlagRangeEffect, Zenon
    <3>2. QED
      BY <3>1 DEF FlaggedRange
  <2>3. al' = r.a /\ call' = Call("flag_range", lo, hi, r.out) /\ setup' = setup + 1
        /\ held' = held /\ clash' = clash /\ Booting
    BY <1>1 DEF FlagRange, lo, hi, flag
  <2> HIDE DEF r
  <2>4. held' = {}
    BY <2>3 DEF MarkInv
  <2>5. TypeOK'
    BY <1>0, <2>1, <2>2, <2>3 DEF TypeOK, Call, Operations, Outcomes, Allocators
  <2>6. QED
    BY <2>4, <2>5 DEF MarkInv, HeldMarked
<1>2. ASSUME NEW bits \in Requests, Alloc(bits)
      PROVE  MarkInv'
  <2> DEFINE r == alloc(al, bits)
             range == r.start..(r.start + bits - 1)
  <2>1. bits \in Nat
    BY RequestsAssumption
  <2>2. /\ r.a \in Allocators(Bytes)
        /\ r.start \in Nat
        /\ r.out \in Outcomes
        /\ al.bits \subseteq r.a.bits
        /\ r.out = "Ok" => range \subseteq r.a.bits
    <3>1. Allocated(Bytes, al, bits, r)
      BY BytesAssumption, <1>0, <2>1, AllocEffect, ZenonT(40)
    <3>2. QED
      BY <3>1 DEF Allocated, Granted
  <2>3. /\ al' = r.a
        /\ call' = Call("alloc", r.start, r.start + bits, r.out)
        /\ held' = IF r.out = "Ok" THEN held \cup range ELSE held
        /\ clash' = IF r.out = "Ok" THEN clash \cup (range \cap al.bits) ELSE clash
        /\ setup' = setup
    BY <1>2 DEF Alloc
  <2>4. range \subseteq Nat
    BY <2>1, <2>2, SMTT(40)
  <2> HIDE DEF r, range
  <2>5. TypeOK'
    <3>1. held' \subseteq Nat /\ clash' \subseteq Nat
      BY <1>0, <2>3, <2>4, Zenon
    <3>2. call' \in [op : Operations, lo : Nat, hi : Nat, out : Outcomes]
      BY <2>1, <2>2, <2>3 DEF Call, Operations
    <3>3. QED
      BY <1>0, <2>2, <2>3, <3>1, <3>2, SMTT(40) DEF TypeOK, Allocators
  <2>6. HeldMarked'
    BY <1>0, <2>2, <2>3, Zenon DEF HeldMarked
  <2>7. ~Booting'
    BY <2>3 DEF Booting, Call
  <2>8. QED
    BY <2>5, <2>6, <2>7 DEF MarkInv
<1>3. ASSUME NEW bit \in FreeEnds, Free(bit)
      PROVE  MarkInv'
  <2> DEFINE r == free(al, bit)
  <2>1. bit \in Nat
    BY FreeAssumption
  <2>2. r.a \in Allocators(Bytes) /\ r.a.bits = al.bits /\ r.out \in Outcomes
    <3>1. Freed(Bytes, al, r)
      BY BytesAssumption, <1>0, <2>1, FreeEffect, Zenon
    <3>2. QED
      BY <3>1 DEF Freed
  <2>3. /\ al' = r.a
        /\ call' = Call("free", bit, bit + 1, r.out)
        /\ held' \subseteq held
        /\ setup' = setup /\ clash' = clash
    BY <1>3 DEF Free
  <2> HIDE DEF r
  <2>4. TypeOK'
    BY <1>0, <2>1, <2>2, <2>3, SMTT(40) DEF TypeOK, Call, Operations, Allocators
  <2>5. HeldMarked' /\ ~Booting'
    BY <1>0, <2>2, <2>3 DEF HeldMarked, Booting, Call
  <2>6. QED
    BY <2>4, <2>5 DEF MarkInv
<1>4. ASSUME NEW lo \in FreeEnds, NEW hi \in FreeEnds, FreeRange(lo, hi)
      PROVE  MarkInv'
  <2> DEFINE r == free_range(al, lo, hi)
  <2>1. lo \in Nat /\ hi \in Nat /\ lo <= hi
    BY <1>4, FreeAssumption DEF FreeRange
  <2>2. r.a \in Allocators(Bytes) /\ al.bits \subseteq r.a.bits /\ r.out \in Outcomes
    <3>1. RangeFreed(Bytes, al, r)
      BY BytesAssumption, <1>0, <2>1, FreeRangeEffect, Zenon
    <3>2. QED
      BY <3>1 DEF RangeFreed
  <2>3. /\ al' = r.a
        /\ call' = Call("free_range", lo, hi, r.out)
        /\ held' \subseteq held
        /\ setup' = setup /\ clash' = clash
    BY <1>4 DEF FreeRange
  <2> HIDE DEF r
  <2>4. TypeOK'
    BY <1>0, <2>1, <2>2, <2>3, SMTT(40) DEF TypeOK, Call, Operations, Allocators
  <2>5. HeldMarked' /\ ~Booting'
    BY <1>0, <2>2, <2>3 DEF HeldMarked, Booting, Call
  <2>6. QED
    BY <2>4, <2>5 DEF MarkInv
<1>5. ASSUME UNCHANGED vars
      PROVE  MarkInv'
  BY <1>5 DEF vars, MarkInv, TypeOK, HeldMarked, Booting
<1>6. QED
  BY <1>1, <1>2, <1>3, <1>4, <1>5, SMTT(40) DEF Next, Halt

(* The allocator stays well formed through every sequence of calls, the    *)
(* ones that fail half way included: no bit outside the bitmap is ever     *)
(* set, and the size never moves (bitmap_allocator.rs:59-232).             *)
THEOREM TypeCorrect == Spec => []TypeOK
<1>1. MarkInv => TypeOK
  BY SMTT(40) DEF MarkInv
<1>2. QED
  BY <1>1, MarkInvInit, MarkInvStep, PTL DEF Spec

(* What clients own is marked, for bitmaps of every length and requests of *)
(* every size (alloc, bitmap_allocator.rs:59).                             *)
THEOREM HeldStaysMarked == Spec => []HeldMarked
<1>1. MarkInv => HeldMarked
  BY DEF MarkInv
<1>2. QED
  BY <1>1, MarkInvInit, MarkInvStep, PTL DEF Spec

(* free and free_range (bitmap_allocator.rs:119, 134) never give back what *)
(* a client owns: free answers Ok for a position only when its mark is     *)
(* clear, so that HeldMarked keeps it out of every client's hands, and     *)
(* free_range never does.                                                  *)
THEOREM ClientsGiveNothingBack == Spec => NothingComesBack
<1>1. MarkInv /\ [Next]_vars => [~Booting' => al.bits \subseteq al'.bits /\ held \subseteq held']_vars
  <2> SUFFICES ASSUME MarkInv, Next, ~Booting'
               PROVE  al.bits \subseteq al'.bits /\ held \subseteq held'
    OBVIOUS
  <2>0. al \in Allocators(Bytes) /\ held \subseteq al.bits
    BY DEF MarkInv, TypeOK, HeldMarked, Allocators
  <2>1. ASSUME NEW bits \in Requests, Alloc(bits)
        PROVE  al.bits \subseteq al'.bits /\ held \subseteq held'
    <3>1. bits \in Nat
      BY RequestsAssumption
    <3>2. Allocated(Bytes, al, bits, alloc(al, bits))
      BY BytesAssumption, <2>0, <3>1, AllocEffect, ZenonT(40)
    <3>3. QED
      BY <2>1, <3>2 DEF Alloc, Allocated
  <2>2. ASSUME NEW bit \in FreeEnds, Free(bit)
        PROVE  al.bits \subseteq al'.bits /\ held \subseteq held'
    <3>1. bit \in Nat
      BY FreeAssumption
    <3>2. Freed(Bytes, al, free(al, bit))
      BY BytesAssumption, <2>0, <3>1, FreeEffect, Zenon
    <3>3. free(al, bit).out = "Ok" => bit \notin held
      BY <2>0 DEF free, Return
    <3>4. QED
      BY <2>2, <3>2, <3>3 DEF Free, Freed
  <2>3. ASSUME NEW lo \in FreeEnds, NEW hi \in FreeEnds, FreeRange(lo, hi)
        PROVE  al.bits \subseteq al'.bits /\ held \subseteq held'
    <3>1. lo \in Nat /\ hi \in Nat /\ lo <= hi
      BY <2>3, FreeAssumption DEF FreeRange
    <3>2. RangeFreed(Bytes, al, free_range(al, lo, hi))
      BY BytesAssumption, <2>0, <3>1, FreeRangeEffect, Zenon
    <3>3. free_range(al, lo, hi).out # "Ok"
      <4>1. check_range(al, lo, hi, FALSE) \in {"OutOfBounds", "panic", "false", "true"}
        BY DEF check_range
      <4>2. QED
        BY <4>1 DEF free_range, Return
    <3>4. QED
      BY <2>3, <3>2, <3>3 DEF FreeRange, RangeFreed
  <2>4. ASSUME NEW x \in SetupRanges, FlagRange(x[1], x[2], x[3]) PROVE FALSE
    BY <2>4 DEF FlagRange, Booting, Call
  <2>5. QED
    BY <2>1, <2>2, <2>3, <2>4, Zenon DEF Next, Halt, vars
<1>2. QED
  BY <1>1, MarkInvInit, MarkInvStep, PTL DEF Spec, NothingComesBack

(* Up to 16 positions, the limit of scan_bits, no grant covers a position  *)
(* that was marked (bitmap_allocator.rs:75).                               *)
THEOREM SmallGrantsNeverClash ==
  ASSUME Requests \subseteq 0..16
  PROVE  Spec => []NoClash
<1>1. Init => NoClash
  BY DEF Init, NoClash
<1>2. MarkInv /\ NoClash /\ [Next]_vars => NoClash'
  <2> SUFFICES ASSUME MarkInv, NoClash, [Next]_vars PROVE NoClash'
    OBVIOUS
  <2>1. ASSUME NEW bits \in Requests, Alloc(bits)
        PROVE  NoClash'
    <3> DEFINE r == alloc(al, bits)
               range == r.start..(r.start + bits - 1)
    <3>1. bits \in Nat /\ bits <= 16
      OBVIOUS
    <3>2. al \in Allocators(Bytes)
      BY DEF MarkInv, TypeOK, Allocators
    <3>3. r.out = "Ok" => range \cap al.bits = {}
      <4>1. Allocated(Bytes, al, bits, r)
        BY BytesAssumption, <3>1, <3>2, AllocEffect, Zenon
      <4>2. QED
        BY <3>1, <4>1 DEF Allocated, Granted
    <3>4. clash' = IF r.out = "Ok" THEN clash \cup (range \cap al.bits) ELSE clash
      BY <2>1 DEF Alloc
    <3> HIDE DEF r, range
    <3>5. QED
      BY <3>3, <3>4 DEF NoClash
  <2>2. QED
    BY <2>1, Zenon DEF Next, Halt, vars, FlagRange, Free, FreeRange, NoClash
<1>3. QED
  BY <1>1, <1>2, MarkInvInit, MarkInvStep, PTL DEF Spec

(* alloc (bitmap_allocator.rs:61): for every bitmap and sequence of calls  *)
(* the cursor is inside the bitmap, or past the limit of the scan.         *)
THEOREM CursorStaysInsideOrDead == Spec => []CursorInsideOrDead
<1>1. Init => CursorInsideOrDead
  BY BytesAssumption, SMTT(40) DEF Init, New, CursorInsideOrDead
<1>2. MarkInv /\ CursorInsideOrDead /\ [Next]_vars => CursorInsideOrDead'
  <2> SUFFICES ASSUME MarkInv, CursorInsideOrDead, [Next]_vars PROVE CursorInsideOrDead'
    OBVIOUS
  <2>1. al \in Allocators(Bytes) /\ al' \in Allocators(Bytes)
    BY MarkInvStep DEF MarkInv, TypeOK, Allocators
  <2>2. ~Halted => InsideOrDead(Bytes, al.last)
    BY <2>1, BytesAssumption, SMTT(40) DEF CursorInsideOrDead, InsideOrDead, Allocators
  <2>3. SUFFICES ASSUME ~Halted' PROVE InsideOrDead(Bytes, al'.last)
    BY <2>1, BytesAssumption DEF CursorInsideOrDead, InsideOrDead, Allocators
  <2>4. ASSUME NEW bits \in Requests, Alloc(bits) PROVE InsideOrDead(Bytes, al'.last)
    <3>1. ~Halted /\ al' = alloc(al, bits).a /\ call'.out = alloc(al, bits).out /\ bits \in Nat
      BY <2>4, RequestsAssumption DEF Alloc, Call
    <3>2. QED
      BY BytesAssumption, <2>1, <2>2, <2>3, <3>1, AllocCursor, SMTT(40) DEF Halted
  <2>5. CASE al'.last = al.last /\ ~Halted
    BY <2>2, <2>5
  <2>6. ASSUME NEW x \in SetupRanges, FlagRange(x[1], x[2], x[3])
        PROVE  al'.last = al.last /\ ~Halted
    <3>1. x[1] \in Nat /\ x[2] \in Nat /\ x[1] <= x[2] /\ x[3] \in BOOLEAN
      BY SetupAssumption, SMTT(40)
    <3>2. flag_range(al, x[1], x[2], x[3]).a.last = al.last
      <4>1. FlaggedRange(Bytes, al, x[1], x[2], x[3], flag_range(al, x[1], x[2], x[3]))
        BY BytesAssumption, <2>1, <3>1, FlagRangeEffect, ZenonT(40)
      <4>2. QED
        BY <4>1 DEF FlaggedRange
    <3>3. QED
      BY <2>6, <3>2 DEF FlagRange
  <2>7. ASSUME NEW bit \in FreeEnds, Free(bit) PROVE al'.last = al.last /\ ~Halted
    <3>1. bit \in Nat
      BY FreeAssumption
    <3>2. free(al, bit).a.last = al.last
      <4>1. Freed(Bytes, al, free(al, bit))
        BY BytesAssumption, <2>1, <3>1, FreeEffect, Zenon
      <4>2. QED
        BY <4>1 DEF Freed
    <3>3. QED
      BY <2>7, <3>2 DEF Free
  <2>8. ASSUME NEW lo \in FreeEnds, NEW hi \in FreeEnds, FreeRange(lo, hi)
        PROVE  al'.last = al.last /\ ~Halted
    <3>1. lo \in Nat /\ hi \in Nat /\ lo <= hi
      BY <2>8, FreeAssumption DEF FreeRange
    <3>2. free_range(al, lo, hi).a.last = al.last
      <4>1. RangeFreed(Bytes, al, free_range(al, lo, hi))
        BY BytesAssumption, <2>1, <3>1, FreeRangeEffect, Zenon
      <4>2. QED
        BY <4>1 DEF RangeFreed
    <3>3. QED
      BY <2>8, <3>2 DEF FreeRange
  <2>9. CASE UNCHANGED vars
    BY <2>2, <2>3, <2>9, SMTT(40) DEF vars, Halted
  <2>10. QED
    BY <2>4, <2>5, <2>6, <2>7, <2>8, <2>9, SMTT(40) DEF Next, Halt
<1>3. QED
  BY <1>1, <1>2, MarkInvInit, MarkInvStep, PTL DEF Spec

(* scan (bitmap_allocator.rs:67): for every bitmap and sequence of calls   *)
(* that ask for up to 16 positions, and while the cursor is inside the     *)
(* bitmap, AllocationError means that no run of clear positions, rounded   *)
(* up to whole bytes, is left.                                             *)
THEOREM SmallFailuresAreTruthful ==
  ASSUME Requests \subseteq 0..16
  PROVE  Spec => []FailureIsTruthful
<1>1. Init => FailureIsTruthful
  BY DEF Init, Call, FailureIsTruthful
<1>2. MarkInv /\ FailureIsTruthful /\ [Next]_vars => FailureIsTruthful'
  <2> SUFFICES ASSUME MarkInv, FailureIsTruthful, [Next]_vars PROVE FailureIsTruthful'
    OBVIOUS
  <2>1. al \in Allocators(Bytes)
    BY DEF MarkInv, TypeOK, Allocators
  <2>2. ASSUME NEW bits \in Requests, Alloc(bits) PROVE FailureIsTruthful'
    <3> DEFINE r == alloc(al, bits)
               hit == scan(al, bits)
               n == AlignUp(bits)
    <3>1. al' = r.a /\ call' = Call("alloc", r.start, r.start + bits, r.out)
      BY <2>2 DEF Alloc
    <3>2. SUFFICES ASSUME r.out = "AllocationError", al'.last <= al'.size, ClearRun(n)'
                   PROVE  FALSE
      <4>1. r.start \in Nat /\ bits \in Nat
        <5>1. bits \in Nat
          BY RequestsAssumption
        <5>2. Allocated(Bytes, al, bits, r)
          BY BytesAssumption, <2>1, <5>1, AllocEffect, Zenon
        <5>3. QED
          BY <5>1, <5>2 DEF Allocated
      <4>2. call'.hi - call'.lo = bits /\ call'.out = r.out
        <5> HIDE DEF r
        <5>1. QED
          BY <3>1, <4>1 DEF Call
      <4>3. QED
        BY <3>2, <4>2 DEF FailureIsTruthful, ClearRun, AlignUp
    <3>3. bits \in Nat /\ bits <= 16 /\ n \in Nat
      BY DEF AlignUp
    <3>4. hit.out = "AllocationError" /\ al' = al
      <4> DEFINE end == hit.start + bits
                 moved == [al EXCEPT !.last = end]
                 flagged == flag_range(moved, hit.start, end, TRUE)
      <4>1. /\ hit.out # "Ok" => r = [a |-> al, out |-> hit.out, start |-> 0]
            /\ hit.out = "Ok" => r.out = flagged.out
        BY Zenon DEF alloc
      <4>2. hit.start \in Nat /\ end \in Nat /\ hit.start <= end
        BY BytesAssumption, <2>1, <3>3, ScanStartsInNat
      <4>3. moved \in Allocators(Bytes)
        BY <2>1, <4>2 DEF Allocators
      <4>4. flagged.out \in {"Ok", "OutOfBounds", "panic"}
        <5> HIDE DEF moved, end, hit
        <5>1. TRUE \in BOOLEAN
          OBVIOUS
        <5>2. QED
          <6>1. FlaggedRange(Bytes, moved, hit.start, end, TRUE, flagged)
            BY BytesAssumption, <4>2, <4>3, <5>1, FlagRangeEffect, Zenon
          <6>2. QED
            BY <6>1, Zenon DEF FlaggedRange
      <4> HIDE DEF r, hit, flagged
      <4>5. QED
        BY <3>1, <3>2, <4>1, <4>4, SMTT(40)
    <3>5. Fits(al, n) = {}
      BY <3>3, <3>4 DEF scan, scan_bits
    <3>6. al.size = 8 * Bytes /\ al.last <= 8 * Bytes
      BY <2>1, <3>2, <3>4, SMTT(40) DEF Allocators
    <3>7. PICK s \in 0..(8 * Bytes - n) : (s..(s + n - 1)) \cap al.bits = {}
      BY <3>2, <3>4, <3>6, SMTT(40) DEF ClearRun, AlignUp
    <3> HIDE DEF n
    <3>8. QED
      BY BytesAssumption, <2>1, <3>3, <3>5, <3>6, <3>7, ScanBitsComplete, Zenon
  <2>3. CASE UNCHANGED vars
    BY <2>3 DEF vars, FailureIsTruthful, ClearRun, AlignUp
  <2>4. CASE call'.op # "alloc"
    BY <2>4 DEF FailureIsTruthful
  <2>5. QED
    BY <2>2, <2>3, <2>4, SMTT(40) DEF Next, Halt, FlagRange, Free, FreeRange, Call
<1>3. QED
  BY <1>1, <1>2, MarkInvInit, MarkInvStep, PTL DEF Spec

-----------------------------------------------------------------------------
(* The loops of scan_bits and scan_bytes return what module Bitmap says,   *)
(* for every bitmap, cursor and request.                                   *)
(* What is known of a search.                                              *)
LEMMA InputIsSearch ==
  ASSUME in \in Inputs
  PROVE  /\ in.a.size \in Nat \ {0} /\ in.a.last \in Nat /\ in.target \in Nat
         /\ in.mode \in Modes
  BY InputsAssumption, Zenon DEF IsAllocator

(* All of F lies at or above s.                                            *)
NoneBelow(F, s) == \A q \in F : q >= s

LEMMA MinIs ==
  ASSUME NEW F, F \subseteq Nat, NEW s \in F, NoneBelow(F, s)
  PROVE  Min(F) = s
<1>1. \E x \in F : \A y \in F : x =< y
  BY DEF NoneBelow
<1>2. Min(F) \in F /\ Min(F) =< s
  BY <1>1, Zenon DEF Min
<1>3. Min(F) >= s /\ Min(F) \in Nat /\ s \in Nat
  BY <1>2, Zenon DEF NoneBelow
<1>4. QED
  BY <1>2, <1>3

-----------------------------------------------------------------------------
(* scan_bits.  The run of clear bits that the inner loop is reading began  *)
(* at current - found, and no start below that fits.                       *)
BitsFits == Fits(in.a, in.target)

Clear(c) == RingBit(in.a, c) \notin in.a.bits

BitsRun ==
  LET start == current - found
  IN  /\ in.a.last <= start /\ start < 8 * in.a.size /\ found <= in.target
      /\ NoneBelow(BitsFits, start)
      /\ \A c \in start..(current - 1 - sum) : Clear(c)
      /\ sum = 1 => found > 0 /\ current - 1 < 8 * in.a.size /\ ~Clear(current - 1)

BitsInv ==
  /\ pc = "outer" => in.a.last <= current /\ NoneBelow(BitsFits, current)
  /\ pc = "inner" => BitsRun
  /\ pc = "done" => res = scan_bits(in.a, in.target)

LEMMA BitsFitsIff ==
  ASSUME in \in Inputs, NEW s
  PROVE  s \in BitsFits <=>
           /\ s \in Nat /\ in.a.last <= s /\ s < 8 * in.a.size
           /\ \A c \in s..(s + in.target - 1) : c < 8 * in.a.size => Clear(c)
  BY InputIsSearch DEF BitsFits, Fits, Clear

LEMMA BitsFitsNat == in \in Inputs => BitsFits \subseteq Nat
  BY BitsFitsIff

(* A set bit ends a run: no start of the run fits.                         *)
LEMMA BitsRestart ==
  ASSUME ScanTypeOK, BitsRun, sum = 1
  PROVE  NoneBelow(BitsFits, current)
<1> SUFFICES ASSUME NEW q \in BitsFits, q < current PROVE FALSE
  BY BitsFitsNat DEF NoneBelow, ScanTypeOK
<1>1. q \in Nat /\ \A c \in q..(q + in.target - 1) : c < 8 * in.a.size => Clear(c)
  BY BitsFitsIff DEF ScanTypeOK
<1>2. q >= current - found /\ found <= in.target /\ found > 0
  BY DEF BitsRun, NoneBelow
<1>3. current - 1 \in q..(q + in.target - 1)
  BY <1>1, <1>2, InputIsSearch, SMTT(40) DEF ScanTypeOK
<1>4. QED
  BY <1>1, <1>3 DEF BitsRun

(* A run that is long enough, or that reaches the limit, is the answer.    *)
LEMMA BitsAnswer ==
  ASSUME ScanTypeOK, BitsRun, sum = 0, found >= in.target \/ current >= 8 * in.a.size
  PROVE  scan_bits(in.a, in.target) = [out |-> "Ok", start |-> current - found]
<1> DEFINE start == current - found
<1>1. /\ start \in Nat /\ in.a.last <= start /\ start < 8 * in.a.size
      /\ NoneBelow(BitsFits, start)
  BY InputIsSearch DEF BitsRun, ScanTypeOK
<1>2. ASSUME NEW c \in start..(start + in.target - 1), c < 8 * in.a.size
      PROVE  Clear(c)
  <2>1. c \in start..(current - 1 - sum)
    BY <1>2, InputIsSearch DEF BitsRun, ScanTypeOK
  <2>2. QED
    BY <2>1 DEF BitsRun
<1>3. start \in BitsFits
  BY <1>1, <1>2, BitsFitsIff DEF ScanTypeOK
<1>4. Min(BitsFits) = start
  BY <1>1, <1>3, MinIs, BitsFitsNat, SMTT(40) DEF ScanTypeOK
<1>5. QED
  BY <1>3, <1>4 DEF scan_bits, BitsFits

LEMMA BitsInvInit ==
  ASSUME ScanInit, in.mode = "bits"
  PROVE  BitsInv
<1>1. in \in Inputs /\ current = in.a.last /\ pc = "outer"
  BY DEF ScanInit
<1>2. in.a.last <= current /\ NoneBelow(BitsFits, current)
  BY <1>1, BitsFitsIff, InputIsSearch DEF NoneBelow
<1>3. QED
  BY <1>1, <1>2 DEF BitsInv

LEMMA BitsInvStep ==
  ASSUME ScanTypeOK, in.mode = "bits", BitsInv, [ScanNext]_scan_vars
  PROVE  BitsInv'
<1>1. in' = in /\ in \in Inputs
  BY DEF ScanNext, scan_vars, Enter, GiveUp, Read, ReadPanics, Continue, ReturnFound, Done, ScanTypeOK
<1>2. BitsFits' = BitsFits /\ \A c : Clear(c)' <=> Clear(c)
  BY <1>1 DEF BitsFits, Clear
<1>3. Limit = 8 * in.a.size /\ Stride = 1
  BY DEF Limit, Stride
<1>4. CASE Enter
  <2>1. pc' = "inner" /\ sum' = 0 /\ found' = 0 /\ current' = current
        /\ in.a.last <= current /\ current < 8 * in.a.size /\ NoneBelow(BitsFits, current)
    BY <1>3, <1>4 DEF Enter, BitsInv
  <2>2. BitsRun'
    BY <1>1, <1>2, <2>1, InputIsSearch, SMTT(40) DEF BitsRun, ScanTypeOK
  <2>3. QED
    BY <2>1, <2>2 DEF BitsInv
<1>5. CASE GiveUp
  <2>1. pc' = "done" /\ res' = [out |-> "AllocationError", start |-> 0]
        /\ current >= 8 * in.a.size /\ NoneBelow(BitsFits, current)
    BY <1>3, <1>5 DEF GiveUp, BitsInv
  <2>2. BitsFits = {}
    <3> SUFFICES ASSUME NEW q \in BitsFits PROVE FALSE
      OBVIOUS
    <3>1. q \in Nat /\ q < 8 * in.a.size /\ q >= current
      BY <1>1, <2>1, BitsFitsIff, SMTT(40) DEF NoneBelow
    <3>2. QED
      BY <2>1, <3>1, <1>1, InputIsSearch, SMTT(40) DEF ScanTypeOK
  <2>3. QED
    BY <1>1, <2>1, <2>2, SMTT(40) DEF BitsInv, scan_bits, BitsFits
<1>6. CASE Read
  <2>1. /\ BitsRun /\ sum = 0 /\ found < in.target /\ current < 8 * in.a.size
        /\ sum' = IF Clear(current) THEN 0 ELSE 1
        /\ found' = found + 1 /\ current' = current + 1 /\ pc' = "inner"
    BY <1>3, <1>6 DEF Read, InnerLoops, ReadsZero, Clear, NextPosition, BitsInv
  <2>2. current' - found' = current - found
    BY <2>1 DEF ScanTypeOK
  <2>3. \A c \in (current - found)..(current' - 1 - sum') : Clear(c)
    <3> TAKE c \in (current - found)..(current' - 1 - sum')
    <3>1. CASE c = current
      BY <2>1, <3>1, SMTT(40) DEF ScanTypeOK
    <3>2. CASE c # current
      <4>1. c \in (current - found)..(current - 1 - sum)
        BY <2>1, <3>2, SMTT(40) DEF ScanTypeOK
      <4>2. QED
        BY <2>1, <4>1, SMTT(40) DEF BitsRun
    <3>3. QED
      BY <3>1, <3>2
  <2>4. sum' = 1 => found' > 0 /\ current' - 1 < 8 * in.a.size /\ ~Clear(current' - 1)
    <3>1. current' - 1 = current /\ found' > 0
      BY <2>1 DEF ScanTypeOK
    <3>2. QED
      BY <2>1, <3>1, SMTT(40)
  <2>5. found' <= in.target
    BY <1>1, <2>1, InputIsSearch, SMTT(40) DEF ScanTypeOK
  <2>6. BitsRun'
    BY <1>1, <1>2, <2>1, <2>2, <2>3, <2>4, <2>5, SMTT(40) DEF BitsRun
  <2>7. QED
    BY <2>1, <2>6, SMTT(40) DEF BitsInv
<1>7. CASE ReadPanics
  BY <1>7 DEF ReadPanics, ReadsInside
<1>8. CASE Continue
  <2>1. BitsRun /\ sum = 1 /\ pc' = "outer" /\ current' = current
    BY <1>8, SMTT(40) DEF Continue, ScanTypeOK, BitsInv
  <2>2. in.a.last <= current /\ NoneBelow(BitsFits, current)
    BY <1>1, <2>1, BitsRestart, InputIsSearch, SMTT(40) DEF BitsRun, ScanTypeOK
  <2>3. QED
    BY <1>1, <1>2, <2>1, <2>2, SMTT(40) DEF BitsInv
<1>9. CASE ReturnFound
  <2>1. /\ BitsRun /\ sum = 0 /\ pc' = "done" /\ ~InnerLoops
        /\ res' = [out |-> "Ok", start |-> current - found]
    BY <1>3, <1>9, SMTT(40) DEF ReturnFound, BitsInv, ScanTypeOK
  <2>2. found >= in.target \/ current >= 8 * in.a.size
    BY <1>1, <1>3, <2>1, InputIsSearch, SMTT(40) DEF InnerLoops, ScanTypeOK
  <2>3. QED
    BY <1>1, <2>1, <2>2, BitsAnswer, SMTT(40) DEF BitsInv
<1>10. CASE UNCHANGED scan_vars
  BY <1>10, Zenon DEF scan_vars, BitsInv, BitsRun, BitsFits, Clear
<1>11. QED
  BY <1>4, <1>5, <1>6, <1>7, <1>8, <1>9, <1>10, SMTT(40) DEF ScanNext, Done

-----------------------------------------------------------------------------
(* scan_bytes.  The run of zero bytes that the inner loop is reading began *)
(* at current - 8 * found, no start below that fits, and all that was read *)
(* exists.                                                                 *)
Seen == Visited(in.a)

BytesFits == ByteFits(in.a, in.target)

Zero(p) == ByteIsZero(in.a, p)

BytesRun ==
  LET start == current - 8 * found
  IN  /\ start \in Seen /\ found <= in.target
      /\ NoneBelow(BytesFits, start)
      /\ \A p \in Seen : p >= start /\ p < current - 8 * sum => Zero(p)
      /\ sum = 1 => found > 0 /\ current - 8 \in Seen /\ ~Zero(current - 8)

BytesInv ==
  /\ pc # "done" => /\ current % 8 = 0 /\ AlignUp(in.a.last) <= current
                    /\ \A p \in Seen : p < current => p < BitmapLen(in.a)
  /\ pc = "outer" => NoneBelow(BytesFits, current)
  /\ pc = "inner" => BytesRun
  /\ pc = "done" => res = scan_bytes(in.a, in.target)

LEMMA AlignedUp ==
  ASSUME NEW x \in Nat
  PROVE  AlignUp(x) \in Nat /\ AlignUp(x) % 8 = 0
  BY DEF AlignUp

LEMMA NextAligned ==
  ASSUME NEW c \in Nat, NEW p \in Nat, c % 8 = 0, p % 8 = 0
  PROVE  (c + 8) % 8 = 0 /\ (p < c + 8 => p <= c)
  OBVIOUS

LEMMA SeenIff ==
  ASSUME in \in Inputs, NEW p
  PROVE  p \in Seen <=> p \in Nat /\ AlignUp(in.a.last) <= p /\ p < in.a.size /\ p % 8 = 0
<1>1. AlignUp(in.a.last) \in Nat /\ in.a.size \in Nat
  BY InputIsSearch, AlignedUp, SMTT(40)
<1>2. QED
  BY <1>1, SMTT(40) DEF Seen, Visited

LEMMA BytesFitsIff ==
  ASSUME in \in Inputs, NEW s
  PROVE  s \in BytesFits <=>
           /\ s \in Seen
           /\ \A p \in Seen : p \in s..(s + 8 * (in.target - 1)) => Zero(p)
  BY SMTT(40) DEF BytesFits, ByteFits, Seen, Zero

LEMMA BytesFitsNat == in \in Inputs => BytesFits \subseteq Nat
  BY BytesFitsIff, SeenIff, SMTT(40)

(* A byte that is not zero ends a run: no start of the run fits.           *)
LEMMA BytesRestart ==
  ASSUME ScanTypeOK, BytesRun, sum = 1, current % 8 = 0
  PROVE  NoneBelow(BytesFits, current)
<1> SUFFICES ASSUME NEW q \in BytesFits, q < current PROVE FALSE
  BY BytesFitsNat, SMTT(40) DEF NoneBelow, ScanTypeOK
<1>1. /\ q \in Nat /\ q % 8 = 0
      /\ \A p \in Seen : p \in q..(q + 8 * (in.target - 1)) => Zero(p)
  BY BytesFitsIff, SeenIff, SMTT(40) DEF ScanTypeOK
<1>2. q >= current - 8 * found /\ found <= in.target /\ found > 0
  BY DEF BytesRun, NoneBelow
<1>3. current - 8 \in Seen /\ ~Zero(current - 8)
  BY DEF BytesRun
<1>4. current - 8 \in Nat /\ (current - 8) % 8 = 0
  BY <1>3, SeenIff DEF ScanTypeOK
<1>5. q <= current - 8
  BY <1>1, <1>4, SMTT(40) DEF ScanTypeOK
<1>6. current - 8 \in q..(q + 8 * (in.target - 1))
  BY <1>1, <1>2, <1>4, <1>5, InputIsSearch, SMTT(40) DEF ScanTypeOK
<1>7. QED
  BY <1>1, <1>3, <1>6, SMTT(40)

(* A run that is long enough, or that reaches the limit, is the answer.    *)
LEMMA BytesAnswer ==
  ASSUME ScanTypeOK, BytesRun, sum = 0, found >= in.target \/ current >= in.a.size
  PROVE  scan_bytes(in.a, in.target) = [out |-> "Ok", start |-> current - 8 * found]
<1> DEFINE start == current - 8 * found
<1>1. start \in Seen /\ start \in Nat /\ NoneBelow(BytesFits, start)
  BY SeenIff DEF BytesRun, ScanTypeOK
<1>2. ASSUME NEW p \in Seen, p \in start..(start + 8 * (in.target - 1))
      PROVE  Zero(p)
  <2>1. p \in Nat /\ p < in.a.size /\ p >= start
    BY <1>1, <1>2, SeenIff, SMTT(40) DEF ScanTypeOK
  <2>2. p < current
    BY <1>1, <1>2, <2>1, InputIsSearch, SMTT(40) DEF ScanTypeOK
  <2>3. QED
    BY <1>2, <2>1, <2>2, SMTT(40) DEF BytesRun, ScanTypeOK
<1>3. start \in BytesFits
  BY <1>1, <1>2, BytesFitsIff, SMTT(40) DEF ScanTypeOK
<1>4. Min(BytesFits) = start
  BY <1>1, <1>3, MinIs, BytesFitsNat, SMTT(40) DEF ScanTypeOK
<1>5. QED
  BY <1>3, <1>4, SMTT(40) DEF scan_bytes, BytesFits

(* A read past the bitmap: no run can be long enough.                      *)
LEMMA BytesOutside ==
  ASSUME ScanTypeOK, BytesRun, sum = 0, found < in.target, current \in Seen,
         current >= BitmapLen(in.a)
  PROVE  scan_bytes(in.a, in.target) = [out |-> "panic", start |-> 0]
<1>1. BytesFits = {}
  <2> SUFFICES ASSUME NEW q \in BytesFits PROVE FALSE
    OBVIOUS
  <2>1. /\ q \in Nat /\ q \in Seen /\ q >= current - 8 * found
        /\ \A p \in Seen : p \in q..(q + 8 * (in.target - 1)) => Zero(p)
    BY BytesFitsIff, SeenIff, SMTT(40) DEF ScanTypeOK, BytesRun, NoneBelow
  <2>2. CASE q <= current
    <3>1. current \in q..(q + 8 * (in.target - 1))
      BY <2>1, <2>2, InputIsSearch, SMTT(40) DEF ScanTypeOK
    <3>2. Zero(current)
      BY <2>1, <3>1, SMTT(40)
    <3>3. QED
      BY <3>2, InputIsSearch, SMTT(40) DEF Zero, ByteIsZero, BitmapLen, ScanTypeOK
  <2>3. CASE q > current
    <3>1. q \in q..(q + 8 * (in.target - 1))
      BY <2>1, InputIsSearch, SMTT(40) DEF ScanTypeOK
    <3>2. Zero(q)
      BY <2>1, <3>1, SMTT(40)
    <3>3. QED
      BY <2>1, <2>3, <3>2, InputIsSearch, SMTT(40) DEF Zero, ByteIsZero, BitmapLen, ScanTypeOK
  <2>4. QED
    BY <2>1, <2>2, <2>3, SMTT(40) DEF ScanTypeOK
<1>2. QED
  BY <1>1 DEF scan_bytes, BytesFits, Seen

LEMMA BytesInvInit ==
  ASSUME ScanInit, in.mode = "bytes"
  PROVE  BytesInv
<1>1. in \in Inputs /\ current = AlignUp(in.a.last) /\ pc = "outer"
  BY DEF ScanInit
<1>2. current \in Nat /\ current % 8 = 0
  BY <1>1, AlignedUp, InputIsSearch, SMTT(40)
<1>3. \A p \in Seen : p \in Nat /\ p >= current
  BY <1>1, <1>2, SeenIff, SMTT(40)
<1>4. NoneBelow(BytesFits, current)
  BY <1>1, <1>3, BytesFitsIff, SMTT(40) DEF NoneBelow
<1>5. QED
  BY <1>1, <1>2, <1>3, <1>4, SMTT(40) DEF BytesInv

LEMMA BytesInvStep ==
  ASSUME ScanTypeOK, in.mode = "bytes", BytesInv, [ScanNext]_scan_vars
  PROVE  BytesInv'
<1>1. in' = in /\ in \in Inputs
  BY DEF ScanNext, scan_vars, Enter, GiveUp, Read, ReadPanics, Continue, ReturnFound, Done, ScanTypeOK
<1>2. BytesFits' = BytesFits /\ Seen' = Seen /\ \A p : Zero(p)' <=> Zero(p)
  BY <1>1 DEF BytesFits, Seen, Zero
<1>3. Limit = in.a.size /\ Stride = 8
  BY SMTT(40) DEF Limit, Stride
<1>4. ASSUME pc # "done", current < in.a.size
      PROVE  current \in Seen
  BY <1>1, <1>4, SeenIff, SMTT(40) DEF BytesInv, ScanTypeOK
<1>5. CASE Enter
  <2>1. /\ pc' = "inner" /\ sum' = 0 /\ found' = 0 /\ current' = current
        /\ current \in Seen /\ NoneBelow(BytesFits, current)
    BY <1>3, <1>4, <1>5, SMTT(40) DEF Enter, BytesInv
  <2>2. current' - 8 * found' = current /\ found' <= in.target /\ current' - 8 * sum' = current
    BY <1>1, <2>1, InputIsSearch, SMTT(40) DEF ScanTypeOK
  <2>3. \A p \in Seen : ~(p >= current /\ p < current)
    BY <1>1, SeenIff, SMTT(40) DEF ScanTypeOK
  <2>4. BytesRun'
    BY <1>1, <1>2, <2>1, <2>2, <2>3, SMTT(40) DEF BytesRun
  <2>5. QED
    BY <1>1, <1>2, <1>5, <2>1, <2>4, SMTT(40) DEF BytesInv, Enter
<1>6. CASE GiveUp
  <2>1. /\ pc' = "done" /\ res' = [out |-> "AllocationError", start |-> 0]
        /\ current >= in.a.size /\ NoneBelow(BytesFits, current)
        /\ \A p \in Seen : p < current => p < BitmapLen(in.a)
    BY <1>3, <1>6, SMTT(40) DEF GiveUp, BytesInv
  <2>2. \A p \in Seen : p \in Nat /\ p < current
    BY <1>1, <2>1, SeenIff, InputIsSearch, SMTT(40) DEF ScanTypeOK
  <2>3. BytesFits = {}
    BY <1>1, <2>1, <2>2, BytesFitsIff, SMTT(40) DEF NoneBelow, ScanTypeOK
  <2>4. \A p \in Seen : ~(p >= BitmapLen(in.a))
    <3>1. BitmapLen(in.a) \in Nat
      BY <1>1, InputIsSearch, SMTT(40) DEF BitmapLen
    <3>2. QED
      BY <2>1, <2>2, <3>1, SMTT(40)
  <2>5. QED
    BY <1>1, <2>1, <2>3, <2>4, ZenonT(40) DEF BytesInv, scan_bytes, BytesFits, Seen
<1>7. CASE Read
  <2>1. /\ BytesRun /\ sum = 0 /\ found < in.target /\ current \in Seen
        /\ current < BitmapLen(in.a) /\ current % 8 = 0 /\ AlignUp(in.a.last) <= current
        /\ found' = found + 1 /\ current' = current + 8 /\ pc' = "inner"
    BY <1>3, <1>4, <1>7, SMTT(40) DEF Read, InnerLoops, ReadsInside, NextPosition, BytesInv
  <2>2. sum' = IF Zero(current) THEN 0 ELSE 1
    BY <1>7, <2>1, SMTT(40) DEF Read, ReadsZero, Zero, ByteIsZero
  <2>3. current' - 8 * found' = current - 8 * found /\ current' - 8 = current
    BY <2>1, SMTT(40) DEF ScanTypeOK
  <2>4. \A p \in Seen : p \in Nat /\ (p < current' => p <= current)
    BY <1>1, <2>1, SeenIff, NextAligned, SMTT(40) DEF ScanTypeOK
  <2>5. \A p \in Seen : p >= current - 8 * found /\ p < current' - 8 * sum' => Zero(p)
    <3> SUFFICES ASSUME NEW p \in Seen, p >= current - 8 * found, p < current' - 8 * sum'
                 PROVE  Zero(p)
      OBVIOUS
    <3>1. CASE p < current
      BY <2>1, <3>1, SMTT(40) DEF BytesRun, ScanTypeOK
    <3>2. CASE ~(p < current)
      <4>1. sum' = 0 /\ p < current'
        BY <2>1, <2>2, <2>4, <3>2, SMTT(40) DEF ScanTypeOK
      <4>2. p = current
        BY <2>4, <3>2, <4>1, SMTT(40) DEF ScanTypeOK
      <4>3. QED
        BY <2>2, <4>1, <4>2, SMTT(40)
    <3>3. QED
      BY <3>1, <3>2
  <2>6. found' > 0 /\ found' <= in.target
    BY <1>1, <2>1, InputIsSearch, SMTT(40) DEF ScanTypeOK
  <2>7. sum' = 1 => found' > 0 /\ current' - 8 \in Seen /\ ~Zero(current' - 8)
    BY <2>1, <2>2, <2>3, <2>6, SMTT(40)
  <2>8. BytesRun'
    <3>1. current - 8 * found \in Seen /\ NoneBelow(BytesFits, current - 8 * found)
      BY <2>1, SMTT(40) DEF BytesRun
    <3>2. QED
      BY <1>1, <1>2, <2>3, <2>5, <2>6, <2>7, <3>1, SMTT(40) DEF BytesRun
  <2>9. current' % 8 = 0 /\ AlignUp(in.a.last) <= current'
    BY <1>1, <2>1, NextAligned, AlignedUp, InputIsSearch, SMTT(40) DEF ScanTypeOK
  <2>10. \A p \in Seen : p < current' => p < BitmapLen(in.a)
    <3>1. BitmapLen(in.a) \in Nat
      BY <1>1, InputIsSearch DEF BitmapLen
    <3>2. QED
      BY <2>1, <2>4, <3>1, SMTT(40) DEF ScanTypeOK
  <2>11. QED
    BY <1>1, <1>2, <2>1, <2>8, <2>9, <2>10, SMTT(40) DEF BytesInv
<1>8. CASE ReadPanics
  <2>1. /\ BytesRun /\ sum = 0 /\ found < in.target /\ current \in Seen
        /\ pc' = "done" /\ res' = [out |-> "panic", start |-> 0]
        /\ ~(current < BitmapLen(in.a))
    BY <1>3, <1>4, <1>8, SMTT(40) DEF ReadPanics, InnerLoops, ReadsInside, BytesInv
  <2>2. current >= BitmapLen(in.a)
    BY <1>1, <2>1, InputIsSearch, SMTT(40) DEF BitmapLen, ScanTypeOK
  <2>3. QED
    BY <1>1, <2>1, <2>2, BytesOutside, SMTT(40) DEF BytesInv
<1>9. CASE Continue
  <2>1. BytesRun /\ sum = 1 /\ pc' = "outer" /\ current' = current /\ current % 8 = 0
    BY <1>9 DEF Continue, ScanTypeOK, BytesInv
  <2>2. NoneBelow(BytesFits, current)
    BY <2>1, BytesRestart, SMTT(40)
  <2>3. QED
    BY <1>1, <1>2, <1>9, <2>1, <2>2, SMTT(40) DEF BytesInv, Continue
<1>10. CASE ReturnFound
  <2>1. /\ BytesRun /\ sum = 0 /\ pc' = "done" /\ ~InnerLoops
        /\ res' = [out |-> "Ok", start |-> current - 8 * found]
    BY <1>3, <1>10, SMTT(40) DEF ReturnFound, BytesInv, ScanTypeOK
  <2>2. found >= in.target \/ current >= in.a.size
    BY <1>1, <1>3, <2>1, InputIsSearch, SMTT(40) DEF InnerLoops, ScanTypeOK
  <2>3. QED
    BY <1>1, <2>1, <2>2, BytesAnswer, SMTT(40) DEF BytesInv
<1>11. CASE UNCHANGED scan_vars
  BY <1>11, SMTT(40) DEF scan_vars, BytesInv, BytesRun, BytesFits, Seen, Zero
<1>12. QED
  BY <1>5, <1>6, <1>7, <1>8, <1>9, <1>10, <1>11, SMTT(40) DEF ScanNext, Done

-----------------------------------------------------------------------------
LEMMA TypeInit == ScanInit => ScanTypeOK
<1> SUFFICES ASSUME ScanInit PROVE ScanTypeOK
  OBVIOUS
<1>1. in \in Inputs /\ Stride \in Nat
  BY DEF ScanInit, Stride
<1>2. current \in Nat
  BY <1>1, AlignedUp, InputIsSearch, SMTT(40) DEF ScanInit
<1>3. QED
  BY <1>1, <1>2, SMTT(40) DEF ScanInit, ScanTypeOK

LEMMA TypeStep == ScanTypeOK /\ [ScanNext]_scan_vars => ScanTypeOK'
<1> SUFFICES ASSUME ScanTypeOK, [ScanNext]_scan_vars PROVE ScanTypeOK'
  OBVIOUS
<1>1. in' = in /\ Stride' = Stride /\ (Stride = 1 \/ Stride = 8)
  BY DEF ScanNext, scan_vars, Enter, GiveUp, Read, ReadPanics, Continue, ReturnFound, Done, Stride
<1>2. CASE Read
  <2>1. current' = current + Stride /\ found' = found + 1
    BY <1>2 DEF Read, NextPosition
  <2>2. current' \in Nat /\ found' \in Nat /\ found' * Stride <= current'
    BY <1>1, <2>1, SMTT(40) DEF ScanTypeOK
  <2>3. QED
    BY <1>1, <1>2, <2>2, SMTT(40) DEF Read, ScanTypeOK
<1>3. CASE ReturnFound
  <2>1. current - found * Stride \in Nat
    BY <1>1, SMTT(40) DEF ScanTypeOK
  <2>2. QED
    BY <1>1, <1>3, <2>1, SMTT(40) DEF ReturnFound, ScanTypeOK
<1>4. CASE Enter
  <2>1. 0 * Stride <= current
    BY <1>1, SMTT(40) DEF ScanTypeOK
  <2>2. QED
    BY <1>1, <1>4, <2>1, SMTT(40) DEF Enter, ScanTypeOK
<1>5. CASE GiveUp \/ ReadPanics \/ Continue
  BY <1>1, <1>5, SMTT(40) DEF GiveUp, ReadPanics, Continue, ScanTypeOK
<1>6. CASE UNCHANGED scan_vars
  BY <1>1, <1>6, SMTT(40) DEF scan_vars, ScanTypeOK
<1>7. QED
  BY <1>2, <1>3, <1>4, <1>5, <1>6, SMTT(40) DEF ScanNext, Done

(* The inductive invariant: the search that runs is one of the two.        *)
ScanInv ==
  /\ ScanTypeOK
  /\ in.mode = "bits" => BitsInv
  /\ in.mode = "bytes" => BytesInv

LEMMA ScanInvariant == ScanSpec => []ScanInv
<1>1. ScanInit => ScanInv
  BY TypeInit, BitsInvInit, BytesInvInit, SMTT(40) DEF ScanInv
<1>2. ScanInv /\ [ScanNext]_scan_vars => ScanInv'
  <2> SUFFICES ASSUME ScanInv, [ScanNext]_scan_vars PROVE ScanInv'
    OBVIOUS
  <2>1. in' = in
    BY DEF ScanNext, scan_vars, Enter, GiveUp, Read, ReadPanics, Continue, ReturnFound, Done
  <2>2. QED
    BY <2>1, TypeStep, BitsInvStep, BytesInvStep, SMTT(40) DEF ScanInv
<1>3. QED
  BY <1>1, <1>2, PTL DEF ScanSpec

(* scan_bits and scan_bytes (bitmap_allocator.rs:79,100): the counters of  *)
(* the loops never drop below zero, whatever the bitmap and the request.   *)
THEOREM ScanTypeCorrect == ScanSpec => []ScanTypeOK
<1>1. ScanInv => ScanTypeOK
  BY SMTT(40) DEF ScanInv
<1>2. QED
  BY <1>1, ScanInvariant, PTL

(* scan_bits and scan_bytes (bitmap_allocator.rs:79,100): whatever the     *)
(* bitmap, the cursor and the request, the loops return the first start    *)
(* that fits, AllocationError when there is none, and panic exactly when   *)
(* the search runs off the bitmap.                                         *)
THEOREM LoopsReturnFirstFit == ScanSpec => []ReturnsFirstFit
<1>1. ScanInv => ReturnsFirstFit
  <2> SUFFICES ASSUME ScanInv PROVE ReturnsFirstFit
    OBVIOUS
  <2>1. in.mode = "bits" \/ in.mode = "bytes"
    BY InputIsSearch DEF ScanInv, ScanTypeOK, Modes
  <2>2. QED
    BY <2>1 DEF ScanInv, BitsInv, BytesInv, ReturnsFirstFit
<1>2. QED
  BY <1>1, ScanInvariant, PTL
=============================================================================
