---------------------------- MODULE MemoryLemmas ----------------------------
(***************************************************************************)
(* Facts about the operators of modules Bitmap and PageTableOps, for every *)
(* bitmap, fanout and page size.  The proofs about the state machines that *)
(* are built from these operators cite them.                               *)
(***************************************************************************)
EXTENDS Bitmap, PageTableOps, FiniteSetTheorems, WellFoundedInduction, TLAPS

-----------------------------------------------------------------------------
(* The allocators over a bitmap of so many bytes.                          *)
Allocators(bytes) == [bits : SUBSET (0..(8 * bytes - 1)), size : {8 * bytes}, last : Nat]

(* Min of FiniteSetsExt is the least element of any non-empty set of       *)
(* naturals.                                                               *)
LEMMA NatMin ==
  ASSUME NEW S, S \subseteq Nat, S # {}
  PROVE  Min(S) \in S /\ \A y \in S : Min(S) <= y
<1> DEFINE R == {ss \in Nat \X Nat : ss[1] < ss[2]}
<1>1. OpToRel(<, Nat) = R
  BY DEF OpToRel
<1>2. IsWellFoundedOn(R, Nat)
  BY NatLessThanWellFounded, <1>1, Zenon
<1>3. \A x, y \in Nat : y < x => <<y, x>> \in R
  OBVIOUS
<1> HIDE DEF R
<1>4. PICK x \in S : \A y \in S : ~ (<<y, x>> \in R)
  BY <1>2, WFMin, Zenon
<1>5. \A y \in S : x <= y
  <2> TAKE y \in S
  <2>1. x \in Nat /\ y \in Nat
    OBVIOUS
  <2>2. ~(y < x)
    BY <1>3, <1>4, <2>1, Zenon
  <2> QED
    BY <2>1, <2>2
<1>6. QED
  BY <1>5, Zenon DEF Min

(* A position is an index of the bitmap exactly when it is below size.     *)
LEMMA IndexableIff ==
  ASSUME NEW bytes \in Nat, NEW a \in Allocators(bytes), NEW b \in Nat
  PROVE  Indexable(a, b) <=> b < 8 * bytes
  BY DEF Indexable, BitmapLen, Allocators

LEMMA ModSmall ==
  ASSUME NEW x \in Nat, NEW n \in Nat, x < n
  PROVE  x % n = x
  OBVIOUS

(* Inside the bitmap the ring of scan_bits is the bitmap itself.           *)
LEMMA RingBitInside ==
  ASSUME NEW bytes \in Nat \ {0}, NEW a \in Allocators(bytes), NEW c \in Nat, c < 8 * bytes
  PROVE  RingBit(a, c) = c
<1>1. BitmapLen(a) = bytes
  BY DEF BitmapLen, Allocators
<1>2. c \div 8 < bytes /\ c \div 8 \in Nat /\ bytes \in Nat
  OBVIOUS
<1>3. (c \div 8) % bytes = c \div 8
  BY <1>2, ModSmall, Zenon
<1>4. c = 8 * (c \div 8) + (c % 8)
  OBVIOUS
<1>5. QED
  BY <1>1, <1>3, <1>4 DEF RingBit

(* flag on each of a set of positions.                                     *)
FlaggedEach(bytes, a, S, flag, r) ==
  /\ r.a \in Allocators(bytes) /\ r.a.last = a.last
  /\ r.out \in {"Ok", "OutOfBounds", "panic"}
  /\ r.out = "Ok" => S \subseteq 0..(8 * bytes - 1)
  /\ r.a.bits = IF r.out = "Ok" /\ flag THEN a.bits \cup S ELSE a.bits

LEMMA FlagEachEffect ==
  ASSUME NEW bytes \in Nat, NEW a \in Allocators(bytes), NEW S \in SUBSET Nat, NEW flag \in BOOLEAN
  PROVE  FlaggedEach(bytes, a, S, flag, FlagEach(a, S, flag))
<1>1. \A b \in S : Indexable(a, b) <=> b < 8 * bytes
  BY IndexableIff
<1>2. QED
  BY <1>1 DEF FlagEach, Return, Allocators, FlaggedEach

(* flag_range with true only adds, with false only removes, positions of   *)
(* the range; when it succeeds with true it has added them all.            *)
FlaggedRange(bytes, a, lo, hi, flag, r) ==
  /\ r.a \in Allocators(bytes) /\ r.a.last = a.last
  /\ r.out \in {"Ok", "OutOfBounds", "panic"}
  /\ r.out = "Ok" => lo..(hi - 1) \subseteq 0..(8 * bytes - 1)
  /\ r.out = "Ok" /\ flag => r.a.bits = a.bits \cup (lo..(hi - 1))
  /\ flag => a.bits \subseteq r.a.bits
  /\ ~flag => a.bits \ (lo..(hi - 1)) \subseteq r.a.bits

LEMMA FlagRangeEffect ==
  ASSUME NEW bytes \in Nat, NEW a \in Allocators(bytes), NEW lo \in Nat, NEW hi \in Nat, lo <= hi,
         NEW flag \in BOOLEAN
  PROVE  FlaggedRange(bytes, a, lo, hi, flag, flag_range(a, lo, hi, flag))
<1> DEFINE r == flag_range(a, lo, hi, flag)
           range == lo..(hi - 1)
           body == AlignUp(lo)..(AlignDown(hi) - 1)
           ends == range \ body
           filled == [a EXCEPT !.bits = IF flag THEN @ \cup body ELSE @ \ body]
<1>1. CASE ~range_in_bounds(a, hi)
  <2>1. r = Return(a, "OutOfBounds")
    BY <1>1 DEF flag_range
  <2>2. QED
    BY <2>1 DEF Return, FlaggedRange
<1>2. CASE range_in_bounds(a, hi) /\ hi - lo < 8
  <2>1. r = FlagEach(a, range, flag)
    BY <1>2 DEF flag_range
  <2>2. range \in SUBSET Nat
    OBVIOUS
  <2> HIDE DEF range, r
  <2>3. /\ r.a \in Allocators(bytes)
        /\ r.a.last = a.last
        /\ r.out \in {"Ok", "OutOfBounds", "panic"}
        /\ r.out = "Ok" => range \subseteq 0..(8 * bytes - 1)
        /\ r.a.bits = IF r.out = "Ok" /\ flag THEN a.bits \cup range ELSE a.bits
    <3>1. FlaggedEach(bytes, a, range, flag, r)
      BY <2>1, <2>2, FlagEachEffect, Zenon
    <3>2. QED
      BY <3>1 DEF FlaggedEach
  <2>4. /\ r.out = "Ok" /\ flag => r.a.bits = a.bits \cup range
        /\ flag => a.bits \subseteq r.a.bits
        /\ ~flag => a.bits \ range \subseteq r.a.bits
    BY <2>3
  <2>5. QED
    BY <2>3, <2>4 DEF range, r, FlaggedRange
<1>3. CASE range_in_bounds(a, hi) /\ hi - lo >= 8 /\ \E b \in body : ~Indexable(a, b)
  <2>1. r = Return(a, "panic")
    BY <1>3 DEF flag_range
  <2>2. QED
    BY <2>1 DEF Return, FlaggedRange
<1>4. CASE range_in_bounds(a, hi) /\ hi - lo >= 8 /\ \A b \in body : Indexable(a, b)
  <2>1. r = FlagEach(filled, ends, flag)
    BY <1>4 DEF flag_range
  <2>2. AlignUp(lo) \in Nat /\ AlignDown(hi) \in Nat /\ lo <= AlignUp(lo) /\ AlignDown(hi) <= hi
    BY DEF AlignUp, AlignDown
  <2>3. body \subseteq range /\ range \subseteq Nat
    BY <2>2
  <2>4. body \subseteq 0..(8 * bytes - 1)
    <3> SUFFICES ASSUME NEW b \in body PROVE b \in 0..(8 * bytes - 1)
      OBVIOUS
    <3>1. b \in Nat
      BY <2>3
    <3>2. b < 8 * bytes
      BY <1>4, <3>1, IndexableIff
    <3>3. QED
      BY <3>1, <3>2
  <2> HIDE DEF body
  <2>5. filled \in Allocators(bytes) /\ filled.last = a.last
        /\ filled.bits = IF flag THEN a.bits \cup body ELSE a.bits \ body
    BY <2>4 DEF Allocators
  <2> HIDE DEF filled, range, r
  <2>6. ends \in SUBSET Nat
    BY <2>3
  <2>7. /\ r.a \in Allocators(bytes)
        /\ r.a.last = filled.last
        /\ r.out \in {"Ok", "OutOfBounds", "panic"}
        /\ r.out = "Ok" => ends \subseteq 0..(8 * bytes - 1)
        /\ r.a.bits = IF r.out = "Ok" /\ flag THEN filled.bits \cup ends ELSE filled.bits
    <3>1. FlaggedEach(bytes, filled, ends, flag, r)
      BY <2>1, <2>5, <2>6, FlagEachEffect, Zenon
    <3>2. QED
      BY <3>1 DEF FlaggedEach
  <2>8. /\ r.a \in Allocators(bytes)
        /\ r.a.last = a.last
        /\ r.out \in {"Ok", "OutOfBounds", "panic"}
    BY <2>5, <2>7
  <2>9. r.out = "Ok" => range \subseteq 0..(8 * bytes - 1)
    BY <2>4, <2>7, Zenon
  <2>10. r.out = "Ok" /\ flag => r.a.bits = a.bits \cup range
    BY <2>3, <2>5, <2>7, Zenon
  <2>11. /\ flag => a.bits \subseteq r.a.bits
         /\ ~flag => a.bits \ range \subseteq r.a.bits
    BY <2>3, <2>5, <2>7, Zenon
  <2>12. QED
    BY <2>8, <2>9, <2>10, <2>11, Zenon DEF range, r, FlaggedRange
<1>5. hi - lo < 8 \/ hi - lo >= 8
  OBVIOUS
<1>6. QED
  BY <1>1, <1>2, <1>3, <1>4, <1>5

(* What scan_bits finds below the end of the bitmap is clear.              *)
LEMMA ScanBitsFindsClear ==
  ASSUME NEW bytes \in Nat \ {0}, NEW a \in Allocators(bytes), NEW target \in Nat,
         scan_bits(a, target).out = "Ok"
  PROVE  LET s == scan_bits(a, target).start
         IN  /\ s \in Nat
             /\ \A c \in s..(s + target - 1) : c < 8 * bytes => c \notin a.bits
<1> DEFINE s == scan_bits(a, target).start
<1>1. Fits(a, target) # {}
  BY DEF scan_bits
<1>2. Fits(a, target) \subseteq Nat
  BY DEF Fits, Allocators
<1>3. s = Min(Fits(a, target))
  BY <1>1 DEF scan_bits
<1>4. s \in Fits(a, target)
  BY <1>1, <1>2, <1>3, NatMin
<1>5. a.size = 8 * bytes
  BY DEF Allocators
<1>6. /\ s \in Nat
      /\ \A c \in s..(s + target - 1) : c < a.size * 8 => RingBit(a, c) \notin a.bits
  BY <1>2, <1>4 DEF Fits
<1> HIDE DEF s
<1>7. ASSUME NEW c \in s..(s + target - 1), c < 8 * bytes
      PROVE  c \notin a.bits
  <2>1. c \in Nat /\ c < a.size * 8
    BY <1>5, <1>6, <1>7
  <2>2. RingBit(a, c) = c
    BY <2>1, <1>7, RingBitInside
  <2>3. QED
    BY <1>6, <2>1, <2>2
<1>8. QED
  BY <1>6, <1>7 DEF s

(* scan answers with a position, wherever it searched.                     *)
LEMMA ScanStartsInNat ==
  ASSUME NEW bytes \in Nat \ {0}, NEW a \in Allocators(bytes), NEW bits \in Nat
  PROVE  /\ scan(a, bits).start \in Nat
         /\ scan(a, bits).out \in {"Ok", "OutOfBounds", "AllocationError", "panic"}
<1>1. ASSUME NEW target \in Nat
      PROVE  scan_bits(a, target).start \in Nat
             /\ scan_bits(a, target).out \in {"Ok", "AllocationError"}
  <2>1. Fits(a, target) \subseteq Nat
    BY DEF Fits, Allocators
  <2>2. QED
    BY <2>1, NatMin DEF scan_bits
<1>2. scan_bytes(a, bits).start \in Nat
      /\ scan_bytes(a, bits).out \in {"Ok", "AllocationError", "panic"}
  <2>1. AlignUp(a.last) \in Nat /\ a.size \in Nat
    BY DEF AlignUp, Allocators
  <2>2. ByteFits(a, bits) \subseteq Nat
    BY <2>1 DEF ByteFits, Visited
  <2>3. QED
    BY <2>2, NatMin DEF scan_bytes
<1>3. AlignUp(bits) \in Nat
  BY DEF AlignUp
<1>4. QED
  BY <1>1, <1>2, <1>3 DEF scan

(* alloc marks what it grants and clears nothing; up to 16 positions it    *)
(* grants only what was clear.                                             *)
Granted(r, bits) == r.start..(r.start + bits - 1)

Allocated(bytes, a, bits, r) ==
  /\ r.a \in Allocators(bytes) /\ r.start \in Nat /\ r.out \in Outcomes
  /\ a.bits \subseteq r.a.bits
  /\ r.out = "Ok" => Granted(r, bits) \subseteq r.a.bits
  /\ r.out = "Ok" /\ bits <= 16 => Granted(r, bits) \cap a.bits = {}

LEMMA AllocEffect ==
  ASSUME NEW bytes \in Nat \ {0}, NEW a \in Allocators(bytes), NEW bits \in Nat
  PROVE  Allocated(bytes, a, bits, alloc(a, bits))
<1> DEFINE r == alloc(a, bits)
           found == scan(a, bits)
           end == found.start + bits
           moved == [a EXCEPT !.last = end]
           flagged == flag_range(moved, found.start, end, TRUE)
<1>1. /\ found.start \in Nat
      /\ found.out \in {"Ok", "OutOfBounds", "AllocationError", "panic"}
  BY ScanStartsInNat
<1>2. CASE found.out # "Ok"
  <2>1. r = [a |-> a, out |-> found.out, start |-> 0]
    BY <1>2 DEF alloc
  <2>2. QED
    BY <1>1, <1>2, <2>1 DEF Outcomes, Allocated
<1>3. CASE found.out = "Ok"
  <2>1. r = [a |-> flagged.a, out |-> flagged.out, start |-> found.start]
    BY <1>3 DEF alloc
  <2> HIDE DEF found
  <2>2. moved \in Allocators(bytes) /\ moved.bits = a.bits
    BY <1>1 DEF Allocators
  <2>3. end \in Nat /\ found.start <= end /\ end - 1 = found.start + bits - 1
    BY <1>1
  <2> HIDE DEF moved, end
  <2>4. /\ flagged.a \in Allocators(bytes)
        /\ flagged.out \in {"Ok", "OutOfBounds", "panic"}
        /\ flagged.out = "Ok" => found.start..(end - 1) \subseteq 0..(8 * bytes - 1)
        /\ flagged.out = "Ok" => flagged.a.bits = moved.bits \cup (found.start..(end - 1))
        /\ moved.bits \subseteq flagged.a.bits
    <3>1. TRUE \in BOOLEAN
      OBVIOUS
    <3>2. QED
      <4>1. FlaggedRange(bytes, moved, found.start, end, TRUE, flagged)
        BY <1>1, <2>2, <2>3, <3>1, FlagRangeEffect, Zenon
      <4>2. QED
        BY <4>1, Zenon DEF FlaggedRange
  <2> HIDE DEF flagged, r
  <2>5. ASSUME flagged.out = "Ok", bits <= 16, NEW c \in found.start..(end - 1)
        PROVE  c \notin a.bits
    <3>1. c \in Nat /\ c < 8 * bytes
      BY <2>3, <2>4, <2>5, <1>1
    <3>2. found = scan_bits(a, AlignUp(bits))
      BY <1>3, <2>5 DEF found, scan
    <3>3. AlignUp(bits) \in Nat /\ bits <= AlignUp(bits)
      BY DEF AlignUp
    <3>4. \A x \in found.start..(found.start + AlignUp(bits) - 1) : x < 8 * bytes => x \notin a.bits
      BY <1>3, <3>2, <3>3, ScanBitsFindsClear
    <3>5. c \in found.start..(found.start + AlignUp(bits) - 1)
      BY <1>1, <2>3, <2>5, <3>3
    <3>6. QED
      BY <3>1, <3>4, <3>5
  <2>6. /\ r.a \in Allocators(bytes)
        /\ r.start \in Nat
        /\ r.out \in Outcomes
        /\ a.bits \subseteq r.a.bits
    BY <1>1, <2>1, <2>2, <2>4 DEF Outcomes
  <2>7. /\ r.out = "Ok" => r.start..(r.start + bits - 1) \subseteq r.a.bits
        /\ r.out = "Ok" /\ bits <= 16 => r.start..(r.start + bits - 1) \cap a.bits = {}
    BY <2>1, <2>3, <2>4, <2>5
  <2>8. QED
    BY <2>6, <2>7 DEF r, Allocated, Granted
<1>4. QED
  BY <1>2, <1>3

(* free leaves the bitmap as it is, and says Ok only of a clear position.  *)
Freed(bytes, a, r) ==
  r.a \in Allocators(bytes) /\ r.a.bits = a.bits /\ r.a.last = a.last /\ r.out \in Outcomes

LEMMA FreeEffect ==
  ASSUME NEW bytes \in Nat \ {0}, NEW a \in Allocators(bytes), NEW bit \in Nat
  PROVE  Freed(bytes, a, free(a, bit))
<1>1. /\ FlagEach(a, {bit}, FALSE).a \in Allocators(bytes)
      /\ FlagEach(a, {bit}, FALSE).a.bits = a.bits
      /\ FlagEach(a, {bit}, FALSE).a.last = a.last
      /\ FlagEach(a, {bit}, FALSE).out \in {"Ok", "OutOfBounds", "panic"}
  <2>1. {bit} \in SUBSET Nat /\ FALSE \in BOOLEAN
    OBVIOUS
  <2>2. QED
    <3>1. FlaggedEach(bytes, a, {bit}, FALSE, FlagEach(a, {bit}, FALSE))
      BY <2>1, FlagEachEffect, Zenon
    <3>2. QED
      BY <3>1, Zenon DEF FlaggedEach
<1>2. QED
  BY <1>1, Zenon DEF free, Return, Outcomes, Freed

(* free_range clears nothing either: it gets to flag_range only when the   *)
(* whole range is clear already.                                           *)
RangeFreed(bytes, a, r) ==
  /\ r.a \in Allocators(bytes) /\ r.a.last = a.last
  /\ a.bits \subseteq r.a.bits
  /\ r.out \in Outcomes \ {"Ok"}

LEMMA FreeRangeEffect ==
  ASSUME NEW bytes \in Nat \ {0}, NEW a \in Allocators(bytes), NEW lo \in Nat, NEW hi \in Nat, lo <= hi
  PROVE  RangeFreed(bytes, a, free_range(a, lo, hi))
<1> DEFINE r == free_range(a, lo, hi)
           checked == check_range(a, lo, hi, FALSE)
           flagged == flag_range(a, lo, hi, FALSE)
<1>1. checked \in {"OutOfBounds", "panic", "false", "true"}
  BY DEF check_range
<1>2. CASE checked \in {"OutOfBounds", "panic"}
  <2>1. r = Return(a, checked)
    BY <1>2, Zenon DEF free_range
  <2> HIDE DEF checked, r
  <2>2. QED
    BY <1>2, <2>1 DEF Return, Outcomes, r, RangeFreed
<1>3. CASE checked = "false"
  <2>1. r = Return(a, "DoubleFree")
    BY <1>3, Zenon DEF free_range
  <2>2. QED
    BY <2>1 DEF Return, Outcomes, RangeFreed
<1>4. CASE checked = "true"
  <2>1. r = Return(flagged.a, IF flagged.out = "Ok" THEN "panic" ELSE flagged.out)
    BY <1>4 DEF free_range
  <2>2. /\ Agrees(a, lo..(hi - 1), FALSE)
        /\ \A b \in lo..(hi - 1) : Indexable(a, b)
    BY <1>4, Zenon DEF check_range
  <2>3. a.bits \cap (lo..(hi - 1)) = {}
    BY <2>2 DEF Agrees
  <2>4. /\ flagged.a \in Allocators(bytes) /\ flagged.a.last = a.last
        /\ flagged.out \in {"Ok", "OutOfBounds", "panic"}
        /\ a.bits \ (lo..(hi - 1)) \subseteq flagged.a.bits
    <3>1. FALSE \in BOOLEAN
      OBVIOUS
    <3>2. FlaggedRange(bytes, a, lo, hi, FALSE, flagged)
      BY <3>1, FlagRangeEffect, Zenon
    <3>3. QED
      BY <3>2, Zenon DEF FlaggedRange
  <2> HIDE DEF flagged, r
  <2>5. QED
    BY <2>1, <2>3, <2>4 DEF Return, Outcomes, r, RangeFreed
<1>5. QED
  BY <1>1, <1>2, <1>3, <1>4, Zenon

(* The cursor.  alloc moves it to the end of what it found: inside the     *)
(* bitmap when flag_range succeeds, past the limit of the scan when it     *)
(* refuses the range.                                                      *)
LEMMA FlagRangeRefuses ==
  ASSUME NEW bytes \in Nat \ {0}, NEW a \in Allocators(bytes), NEW lo \in Nat, NEW hi \in Nat, NEW flag \in BOOLEAN,
         flag_range(a, lo, hi, flag).out = "OutOfBounds"
  PROVE  hi > 64 * bytes
<1> SUFFICES ASSUME hi <= 64 * bytes PROVE FALSE
  OBVIOUS
<1>1. range_in_bounds(a, hi)
  BY DEF range_in_bounds, Allocators
<1>2. \A b \in lo..(hi - 1) : in_range(a, b)
  BY DEF in_range, Allocators
<1>3. ASSUME NEW x, x.size = a.size, NEW S \in SUBSET (lo..(hi - 1))
      PROVE  FlagEach(x, S, flag).out # "OutOfBounds"
  BY <1>2, <1>3 DEF FlagEach, Return, in_range
<1>4. lo..(hi - 1) \in SUBSET (lo..(hi - 1))
  OBVIOUS
<1> DEFINE body == AlignUp(lo)..(AlignDown(hi) - 1)
           filled == [a EXCEPT !.bits = IF flag THEN @ \cup body ELSE @ \ body]
<1>5. (lo..(hi - 1)) \ body \in SUBSET (lo..(hi - 1)) /\ filled.size = a.size
  BY DEF Allocators
<1>6. \/ flag_range(a, lo, hi, flag) = FlagEach(a, lo..(hi - 1), flag)
      \/ flag_range(a, lo, hi, flag) = Return(a, "panic")
      \/ flag_range(a, lo, hi, flag) = FlagEach(filled, (lo..(hi - 1)) \ body, flag)
  BY <1>1 DEF flag_range
<1> HIDE DEF body, filled
<1>7. QED
  BY <1>3, <1>4, <1>5, <1>6 DEF Return

InsideOrDead(bytes, last) == last <= 8 * bytes \/ last > 64 * bytes

LEMMA AllocCursor ==
  ASSUME NEW bytes \in Nat \ {0}, NEW a \in Allocators(bytes), NEW bits \in Nat, InsideOrDead(bytes, a.last), alloc(a, bits).out # "panic"
  PROVE  InsideOrDead(bytes, alloc(a, bits).a.last)
<1> DEFINE r == alloc(a, bits)
           found == scan(a, bits)
           end == found.start + bits
           moved == [a EXCEPT !.last = end]
           flagged == flag_range(moved, found.start, end, TRUE)
<1>1. found.start \in Nat /\ end \in Nat /\ found.start <= end
  BY ScanStartsInNat
<1>2. CASE found.out # "Ok"
  BY <1>2 DEF alloc
<1>3. CASE found.out = "Ok"
  <2>1. r = [a |-> flagged.a, out |-> flagged.out, start |-> found.start]
    BY <1>3 DEF alloc
  <2>2. moved \in Allocators(bytes) /\ moved.last = end
    BY <1>1 DEF Allocators
  <2>3. bits = 0 => end = a.last
    <3> SUFFICES ASSUME bits = 0 PROVE found.start = a.last
      BY <1>1 DEF Allocators
    <3>1. found = scan_bits(a, 0)
      BY <1>3 DEF scan, AlignUp, Allocators
    <3>2. Fits(a, 0) = a.last..(a.size * 8 - 1)
      BY DEF Fits, Allocators
    <3>3. Fits(a, 0) # {} /\ found.start = Min(Fits(a, 0))
      BY <1>3, <3>1 DEF scan_bits
    <3>4. Fits(a, 0) \subseteq Nat /\ a.last \in Nat /\ a.size \in Nat
      BY <3>2 DEF Allocators
    <3>5. found.start \in Fits(a, 0) /\ \A y \in Fits(a, 0) : found.start <= y
      BY <3>3, <3>4, NatMin
    <3> HIDE DEF found
    <3>6. a.last \in Fits(a, 0)
      BY <3>2, <3>4, <3>5, SMTT(40)
    <3>7. QED
      BY <1>1, <3>2, <3>4, <3>5, <3>6, SMTT(40)
  <2> HIDE DEF found
  <2> HIDE DEF moved, end
  <2>4. /\ flagged.a.last = end
        /\ flagged.out \in {"Ok", "OutOfBounds", "panic"}
        /\ flagged.out = "Ok" => found.start..(end - 1) \subseteq 0..(8 * bytes - 1)
        /\ flagged.out = "OutOfBounds" => end > 64 * bytes
    <3>1. TRUE \in BOOLEAN
      OBVIOUS
    <3>2. QED
      <4>1. FlaggedRange(bytes, moved, found.start, end, TRUE, flagged)
        BY <1>1, <2>2, <3>1, FlagRangeEffect, Zenon
      <4>2. flagged.out = "OutOfBounds" => end > 64 * bytes
        BY <1>1, <2>2, <3>1, FlagRangeRefuses, Zenon
      <4>3. QED
        BY <2>2, <4>1, <4>2, Zenon DEF FlaggedRange
  <2> HIDE DEF flagged, r
  <2>5. flagged.out = "Ok" /\ bits # 0 => end <= 8 * bytes
    <3>1. bits # 0 => end - 1 \in found.start..(end - 1)
      BY <1>1 DEF end
    <3>2. QED
      BY <1>1, <2>4, <3>1
  <2>6. QED
    BY <1>1, <2>1, <2>3, <2>4, <2>5 DEF InsideOrDead, r
<1>4. QED
  BY <1>2, <1>3

-----------------------------------------------------------------------------
(* scan_bits is complete while the cursor is inside: it reads the bitmap a *)
(* second time, where each run of clear positions comes whole.             *)
LEMMA RingBitAgain ==
  ASSUME NEW bytes \in Nat \ {0}, NEW a \in Allocators(bytes), NEW c \in Nat, c < 8 * bytes
  PROVE  RingBit(a, c + 8 * bytes) = c
<1>1. BitmapLen(a) = bytes /\ bytes \in Nat \ {0}
  BY DEF BitmapLen, Allocators
<1>2. PICK x \in Nat : x = c \div 8
  OBVIOUS
<1>3. x < bytes /\ c = 8 * x + (c % 8)
  BY <1>1, <1>2
<1>4. (c + 8 * bytes) \div 8 = x + bytes /\ (c + 8 * bytes) % 8 = c % 8
  BY <1>1, <1>2
<1>5. (x + bytes) % bytes = x
  BY <1>1, <1>3, SMTT(40)
<1>6. QED
  BY <1>1, <1>3, <1>4, <1>5 DEF RingBit

LEMMA ScanBitsComplete ==
  ASSUME NEW bytes \in Nat \ {0}, NEW a \in Allocators(bytes), a.last <= 8 * bytes, NEW n \in Nat, NEW s \in 0..(8 * bytes - n),
         (s..(s + n - 1)) \cap a.bits = {}
  PROVE  Fits(a, n) # {}
<1>1. a.last \in Nat /\ a.size = 8 * bytes /\ bytes \in Nat /\ bytes > 0 /\ s \in Nat /\ s + n <= 8 * bytes
  BY DEF Allocators
<1>2. CASE n = 0
  <2>1. a.last \in a.last..(a.size * 8 - 1) /\ a.last..(a.last + n - 1) = {}
    BY <1>1, <1>2
  <2>2. a.last \in Fits(a, n)
    BY <2>1 DEF Fits
  <2>3. QED
    BY <2>2
<1>3. CASE n > 0
  <2> DEFINE s1 == s + 8 * bytes
  <2>1. s1 \in a.last..(a.size * 8 - 1)
    BY <1>1, <1>3
  <2>2. ASSUME NEW c \in s1..(s1 + n - 1) PROVE RingBit(a, c) \notin a.bits
    <3>1. PICK b \in s..(s + n - 1) : c = b + 8 * bytes
      <4>1. c - 8 * bytes \in s..(s + n - 1) /\ c = (c - 8 * bytes) + 8 * bytes
        BY <1>1
      <4>2. QED
        BY <4>1
    <3>2. b \in Nat /\ b < 8 * bytes
      BY <1>1
    <3>3. RingBit(a, c) = b
      BY <3>1, <3>2, RingBitAgain
    <3>4. QED
      BY <3>3
  <2> HIDE DEF s1
  <2>3. s1 \in Fits(a, n)
    BY <2>1, <2>2 DEF Fits
  <2>4. QED
    BY <2>3
<1>4. QED
  BY <1>2, <1>3

-----------------------------------------------------------------------------
(* The contents of memory: full tables, the root among them.               *)
AllEntries == [addr : Nat, flags : PageTableFlags]

IsMem(root, M) ==
  /\ M \in [DOMAIN M -> [Indices -> AllEntries]]
  /\ DOMAIN M \subseteq Nat /\ root \in DOMAIN M

(* A used entry above level 1 that is not the recursive one.               *)
IsLink(root, M, lv, f, i) ==
  /\ f \in DOMAIN M /\ i \in Indices /\ lv[f] > 1
  /\ ~(f = root /\ i = RECURSIVE_INDEX)
  /\ ~is_unused(M[f][i])

(* lv gives every table its level: links lead one level down, to a table   *)
(* of their own each, and reach every table but the root.                  *)
HasLevels(root, M, lv) ==
  lv \in [DOMAIN M -> 1..4] /\ \A f \in DOMAIN M : lv[f] = 4 <=> f = root

LinksDown(root, M, lv) ==
  \A f \in DOMAIN M, i \in Indices :
    IsLink(root, M, lv, f, i) => M[f][i].addr \in DOMAIN M /\ lv[M[f][i].addr] = lv[f] - 1

LinksApart(root, M, lv) ==
  \A f, g \in DOMAIN M, i, j \in Indices :
    IsLink(root, M, lv, f, i) /\ IsLink(root, M, lv, g, j) /\ M[f][i].addr = M[g][j].addr => f = g /\ i = j

AllLinked(root, M, lv) ==
  \A g \in DOMAIN M \ {root} :
    \E f \in DOMAIN M, i \in Indices : IsLink(root, M, lv, f, i) /\ M[f][i].addr = g

IsTree(root, M, lv) ==
  /\ HasLevels(root, M, lv) /\ LinksDown(root, M, lv) /\ LinksApart(root, M, lv) /\ AllLinked(root, M, lv)
  /\ M[root][RECURSIVE_INDEX] = Entry(root, flags_rw)

LEMMA EntriesInSet ==
  /\ Unused \in AllEntries
  /\ \A g \in Nat : Entry(g, flags_rwx) \in AllEntries /\ ~is_unused(Entry(g, flags_rwx))
  /\ \A g \in Nat : Entry(g, flags_rw) \in AllEntries /\ ~is_unused(Entry(g, flags_rw))
  /\ \A g \in Nat, flags \in PageTableFlags : Entry(g, flags) \in AllEntries
<1>1. /\ flags_rwx # {} /\ flags_rw # {}
      /\ flags_rwx \in PageTableFlags /\ flags_rw \in PageTableFlags /\ {} \in PageTableFlags
  BY DEF flags_rwx, flags_rw, PageTableFlags
<1>2. QED
  BY <1>1 DEF Unused, AllEntries, Entry, is_unused

(* Writing an entry of a level 1 table changes no link.                    *)
LEMMA LeafWrite ==
  ASSUME NEW root, NEW M, NEW lv, IsMem(root, M), IsTree(root, M, lv),
         NEW f \in DOMAIN M, lv[f] = 1, NEW i \in Indices, NEW e \in AllEntries
  PROVE  LET M1 == [M EXCEPT ![f][i] = e] IN IsMem(root, M1) /\ IsTree(root, M1, lv)
<1> DEFINE M1 == [M EXCEPT ![f][i] = e]
<1>1. DOMAIN M1 = DOMAIN M /\ \A g \in DOMAIN M : g # f => M1[g] = M[g]
  BY DEF IsMem
<1>2. M1[f] = [M[f] EXCEPT ![i] = e] /\ M1[f] \in [Indices -> AllEntries]
  BY DEF IsMem
<1>3. IsMem(root, M1)
  BY <1>1, <1>2 DEF IsMem
<1>4. f # root
  BY DEF IsTree, HasLevels
<1>5. \A g \in DOMAIN M, j \in Indices :
        /\ IsLink(root, M1, lv, g, j) <=> IsLink(root, M, lv, g, j)
        /\ IsLink(root, M, lv, g, j) => M1[g][j] = M[g][j]
  BY <1>1 DEF IsLink
<1>6. M1[root][RECURSIVE_INDEX] = M[root][RECURSIVE_INDEX]
  BY <1>1, <1>4 DEF IsMem
<1> HIDE DEF M1
<1>7. HasLevels(root, M1, lv)
  BY <1>1 DEF IsTree, HasLevels
<1>8. LinksDown(root, M1, lv)
  BY <1>1, <1>5 DEF IsTree, LinksDown
<1>9. LinksApart(root, M1, lv)
  BY <1>1, <1>5 DEF IsTree, LinksApart
<1>10. AllLinked(root, M1, lv)
  <2> SUFFICES ASSUME NEW g \in DOMAIN M \ {root}
               PROVE  \E h \in DOMAIN M, j \in Indices : IsLink(root, M1, lv, h, j) /\ M1[h][j].addr = g
    BY <1>1 DEF AllLinked
  <2>1. PICK h \in DOMAIN M, j \in Indices : IsLink(root, M, lv, h, j) /\ M[h][j].addr = g
    BY DEF IsTree, AllLinked
  <2>2. QED
    BY <1>5, <2>1
<1>11. QED
  BY <1>3, <1>6, <1>7, <1>8, <1>9, <1>10 DEF M1, IsTree

(* The memory with a new table g, linked from slot i of table f.           *)
WithTable(M, f, i, g) ==
  new_page_table_level([M EXCEPT ![f][i] = Entry(g, flags_rwx)], g)

WithLevel(M, lv, f, g) == [h \in DOMAIN M \cup {g} |-> IF h = g THEN lv[f] - 1 ELSE lv[h]]

TableAdded(root, M, M1, f, i, g) ==
  /\ DOMAIN M1 = DOMAIN M \cup {g} /\ M1[g] = EmptyTable
  /\ M1[f] = [M[f] EXCEPT ![i] = Entry(g, flags_rwx)]
  /\ \A h \in DOMAIN M : h # f => M1[h] = M[h]
  /\ IsMem(root, M1)

LEMMA WithTableIs ==
  ASSUME NEW root, NEW M, IsMem(root, M), NEW f \in DOMAIN M, NEW i \in Indices, NEW g \in Nat \ DOMAIN M
  PROVE  TableAdded(root, M, WithTable(M, f, i, g), f, i, g)
<1> DEFINE M0 == [M EXCEPT ![f][i] = Entry(g, flags_rwx)]
           M1 == WithTable(M, f, i, g)
<1>1. /\ DOMAIN M0 = DOMAIN M /\ M0[f] = [M[f] EXCEPT ![i] = Entry(g, flags_rwx)]
      /\ \A h \in DOMAIN M : h # f => M0[h] = M[h]
  BY DEF IsMem
<1>2. M1 = [h \in DOMAIN M \cup {g} |-> IF h = g THEN EmptyTable ELSE M0[h]]
  BY <1>1 DEF WithTable, new_page_table_level
<1>3. EmptyTable \in [Indices -> AllEntries] /\ Entry(g, flags_rwx) \in AllEntries
  BY EntriesInSet DEF EmptyTable
<1> HIDE DEF M0, M1
<1>4. \A h \in DOMAIN M \cup {g} : M1[h] \in [Indices -> AllEntries]
  BY <1>1, <1>2, <1>3 DEF IsMem
<1>5. IsMem(root, M1)
  BY <1>2, <1>4, Zenon DEF IsMem
<1>6. QED
  BY <1>1, <1>2, <1>5, Zenon DEF M1, TableAdded

(* Linking a fresh table below a table of level 2 to 4.                    *)
LEMMA LinkTable ==
  ASSUME NEW root, NEW M, NEW lv, IsMem(root, M), IsTree(root, M, lv),
         NEW f \in DOMAIN M, lv[f] > 1, NEW i \in Indices,
         ~(f = root /\ i = RECURSIVE_INDEX), is_unused(M[f][i]),
         NEW g \in Nat \ DOMAIN M
  PROVE  LET M1 == WithTable(M, f, i, g)
             l1 == WithLevel(M, lv, f, g)
         IN  IsMem(root, M1) /\ IsTree(root, M1, l1) /\ l1[g] = lv[f] - 1
<1> DEFINE M1 == WithTable(M, f, i, g)
           l1 == WithLevel(M, lv, f, g)
           D == DOMAIN M
<1>1. /\ DOMAIN M1 = D \cup {g} /\ M1[g] = EmptyTable
      /\ M1[f] = [M[f] EXCEPT ![i] = Entry(g, flags_rwx)]
      /\ \A h \in D : h # f => M1[h] = M[h]
      /\ IsMem(root, M1)
  <2>1. TableAdded(root, M, M1, f, i, g)
    BY WithTableIs
  <2>2. QED
    BY <2>1 DEF TableAdded
<1>2. l1[g] = lv[f] - 1 /\ \A h \in D : l1[h] = lv[h]
  BY DEF WithLevel
<1>3. HasLevels(root, M1, l1)
  <2>1. lv \in [D -> 1..4] /\ \A h \in D : lv[h] = 4 <=> h = root
    BY DEF IsTree, HasLevels
  <2>2. lv[f] - 1 \in 1..3 /\ g # root
    BY <2>1 DEF IsMem
  <2>3. l1 \in [D \cup {g} -> 1..4]
    BY <2>1, <2>2 DEF WithLevel
  <2>4. QED
    BY <1>1, <1>2, <2>1, <2>2, <2>3 DEF HasLevels
<1>4. M1[f][i] = Entry(g, flags_rwx) /\ \A j \in Indices : j # i => M1[f][j] = M[f][j]
  BY <1>1 DEF IsMem
<1>5. \A j \in Indices : is_unused(M1[g][j])
  BY <1>1 DEF EmptyTable, is_unused
<1>6. IsLink(root, M1, l1, f, i) /\ M1[f][i].addr = g
  BY <1>1, <1>2, <1>4, EntriesInSet DEF IsLink, Entry
<1> HIDE DEF M1, l1, D
<1>7. ASSUME NEW h \in D \cup {g}, NEW j \in Indices, IsLink(root, M1, l1, h, j), ~(h = f /\ j = i)
      PROVE  h \in D /\ IsLink(root, M, lv, h, j) /\ M1[h][j] = M[h][j]
  <2>1. h \in D /\ h # g
    BY <1>5, <1>7 DEF IsLink, D
  <2>2. M1[h][j] = M[h][j]
    BY <1>1, <1>4, <1>7, <2>1, Zenon
  <2>3. QED
    BY <1>2, <1>7, <2>1, <2>2 DEF IsLink, D
<1>8. ASSUME NEW h \in D, NEW j \in Indices, IsLink(root, M, lv, h, j)
      PROVE  IsLink(root, M1, l1, h, j) /\ M1[h][j] = M[h][j] /\ M[h][j].addr \in D
  <2>1. ~(h = f /\ j = i)
    BY <1>8 DEF IsLink
  <2>2. M1[h][j] = M[h][j]
    BY <1>1, <1>4, <2>1, Zenon
  <2>3. QED
    BY <1>1, <1>2, <1>8, <2>2 DEF IsLink, D, IsTree, LinksDown
<1>9. LinksDown(root, M1, l1)
  <2> SUFFICES ASSUME NEW h \in D \cup {g}, NEW j \in Indices, IsLink(root, M1, l1, h, j)
               PROVE  M1[h][j].addr \in D \cup {g} /\ l1[M1[h][j].addr] = l1[h] - 1
    BY <1>1 DEF LinksDown
  <2>1. CASE h = f /\ j = i
    BY <1>2, <1>6, <2>1 DEF D
  <2>2. CASE ~(h = f /\ j = i)
    <3>1. h \in D /\ IsLink(root, M, lv, h, j) /\ M1[h][j] = M[h][j]
      BY <1>7, <2>2
    <3>2. M[h][j].addr \in D /\ lv[M[h][j].addr] = lv[h] - 1
      BY <3>1 DEF IsTree, LinksDown, D
    <3>3. QED
      BY <1>2, <3>1, <3>2
  <2>3. QED
    BY <2>1, <2>2
<1>10. LinksApart(root, M1, l1)
  <2> SUFFICES ASSUME NEW h \in D \cup {g}, NEW k \in D \cup {g}, NEW j \in Indices, NEW n \in Indices,
                      IsLink(root, M1, l1, h, j), IsLink(root, M1, l1, k, n), M1[h][j].addr = M1[k][n].addr
               PROVE  h = k /\ j = n
    BY <1>1 DEF LinksApart
  <2>1. ASSUME NEW x \in D \cup {g}, NEW y \in Indices, IsLink(root, M1, l1, x, y), ~(x = f /\ y = i)
        PROVE  M1[x][y].addr # g
    BY <1>7, <1>8, <2>1 DEF D
  <2>2. CASE (h = f /\ j = i) \/ (k = f /\ n = i)
    BY <1>6, <2>1, <2>2
  <2>3. CASE ~(h = f /\ j = i) /\ ~(k = f /\ n = i)
    <3>1. /\ h \in D /\ IsLink(root, M, lv, h, j) /\ M1[h][j] = M[h][j]
          /\ k \in D /\ IsLink(root, M, lv, k, n) /\ M1[k][n] = M[k][n]
      BY <1>7, <2>3
    <3>2. QED
      BY <3>1 DEF IsTree, LinksApart, D
  <2>4. QED
    BY <2>2, <2>3
<1>11. AllLinked(root, M1, l1)
  <2> SUFFICES ASSUME NEW h \in (D \cup {g}) \ {root}
               PROVE  \E k \in D \cup {g}, j \in Indices : IsLink(root, M1, l1, k, j) /\ M1[k][j].addr = h
    BY <1>1 DEF AllLinked
  <2>1. CASE h = g
    BY <1>6, <2>1 DEF D
  <2>2. CASE h # g
    <3>1. PICK k \in D, j \in Indices : IsLink(root, M, lv, k, j) /\ M[k][j].addr = h
      BY <2>2 DEF IsTree, AllLinked, D
    <3>2. QED
      BY <1>8, <3>1
  <2>3. QED
    BY <2>1, <2>2
<1>12. M1[root][RECURSIVE_INDEX] = Entry(root, flags_rw)
  BY <1>1, <1>4, RecursiveIndexAssumption, Zenon DEF IsTree, IsMem, D, Indices
<1>13. QED
  BY <1>1, <1>2, <1>3, <1>9, <1>10, <1>11, <1>12, SMTT(40) DEF IsTree, M1, l1

-----------------------------------------------------------------------------
(* The path from the root to a page that is not reserved.                  *)
IsTable(root, u) == u = [mem |-> u.mem, lvl4 |-> root] /\ IsMem(root, u.mem)

LEMMA IndexInTable ==
  ASSUME NEW to \in Nat, NEW n \in 1..4
  PROVE  get_page_index(n, to) \in Indices
<1> DEFINE p1 == PageOf(to)
           p2 == p1 \div Fanout
           p3 == p2 \div Fanout
           p4 == p3 \div Fanout
<1>1. p1 \in Int /\ p2 \in Int /\ p3 \in Int /\ p4 \in Int
  BY PageSizeAssumption, FanoutAssumption DEF PageOf
<1>2. get_page_index(n, to) = <<p1, p2, p3, p4>>[n] % Fanout
  BY DEF get_page_index
<1> HIDE DEF p1, p2, p3, p4
<1>3. <<p1, p2, p3, p4>>[n] \in Int
  BY <1>1, SMTT(40)
<1>4. QED
  BY <1>2, <1>3, FanoutAssumption DEF Indices

LEMMA ChildIs ==
  ASSUME NEW root, NEW u, IsTable(root, u), NEW lv, IsTree(root, u.mem, lv), NEW f \in DOMAIN u.mem, lv[f] > 1,
         NEW i \in Indices, ~(f = root /\ i = RECURSIVE_INDEX)
  PROVE  /\ Child(u, f, i) = None <=> is_unused(u.mem[f][i])
         /\ Child(u, f, i) # None =>
              Child(u, f, i) \in DOMAIN u.mem /\ lv[Child(u, f, i)] = lv[f] - 1
<1>1. f # None /\ u.mem[f][i] \in AllEntries /\ u.mem[f][i].addr # None
  BY DEF IsTable, IsMem, None, AllEntries
<1>2. ~is_unused(u.mem[f][i]) => IsLink(root, u.mem, lv, f, i)
  BY DEF IsLink
<1>3. QED
  BY <1>1, <1>2, Zenon DEF Child, IsTree, LinksDown

LEMMA PathIs ==
  ASSUME NEW root, NEW u, IsTable(root, u), NEW lv, IsTree(root, u.mem, lv), NEW to \in Nat, ~Reserved(to)
  PROVE  /\ get_page_table(u, 4, to) = root
         /\ \A n \in 1..4 : get_page_table(u, n, to) # None =>
              get_page_table(u, n, to) \in DOMAIN u.mem /\ lv[get_page_table(u, n, to)] = n
         /\ \A n \in 1..3 : get_page_table(u, n, to) = None <=>
              \/ get_page_table(u, n + 1, to) = None
              \/ is_unused(u.mem[get_page_table(u, n + 1, to)][get_page_index(n + 1, to)])
<1> DEFINE i4 == get_page_index(4, to)
           i3 == get_page_index(3, to)
           i2 == get_page_index(2, to)
           l3 == Child(u, root, i4)
           l2 == Child(u, l3, i3)
           l1 == Child(u, l2, i2)
<1>1. /\ get_page_table(u, 4, to) = root /\ get_page_table(u, 3, to) = l3
      /\ get_page_table(u, 2, to) = l2 /\ get_page_table(u, 1, to) = l1
  BY DEF get_page_table, IsTable
<1>2. i4 \in Indices /\ i3 \in Indices /\ i2 \in Indices /\ i4 # RECURSIVE_INDEX
  BY IndexInTable DEF Reserved
<1>3. root \in DOMAIN u.mem /\ root # None /\ lv[root] = 4
      /\ lv \in [DOMAIN u.mem -> 1..4] /\ \A f \in DOMAIN u.mem : lv[f] = 4 <=> f = root
  BY DEF IsTable, IsMem, None, IsTree, HasLevels
<1> HIDE DEF i4, i3, i2
<1>4. /\ l3 = None <=> is_unused(u.mem[root][i4])
      /\ l3 # None => l3 \in DOMAIN u.mem /\ lv[l3] = 3
  BY <1>2, <1>3, ChildIs
<1> HIDE DEF l3
<1>5. /\ l2 = None <=> l3 = None \/ is_unused(u.mem[l3][i3])
      /\ l2 # None => l2 \in DOMAIN u.mem /\ lv[l2] = 2
  <2>1. CASE l3 = None
    BY <2>1 DEF Child
  <2>2. CASE l3 # None
    BY <1>2, <1>3, <1>4, <2>2, ChildIs
  <2>3. QED
    BY <2>1, <2>2
<1> HIDE DEF l2
<1>6. /\ l1 = None <=> l2 = None \/ is_unused(u.mem[l2][i2])
      /\ l1 # None => l1 \in DOMAIN u.mem /\ lv[l1] = 1
  <2>1. CASE l2 = None
    BY <2>1 DEF Child
  <2>2. CASE l2 # None
    BY <1>2, <1>3, <1>5, <2>2, ChildIs
  <2>3. QED
    BY <2>1, <2>2
<1> HIDE DEF l1
<1>7. ASSUME NEW n \in 1..4, get_page_table(u, n, to) # None
      PROVE  get_page_table(u, n, to) \in DOMAIN u.mem /\ lv[get_page_table(u, n, to)] = n
  <2>1. n = 1 \/ n = 2 \/ n = 3 \/ n = 4
    OBVIOUS
  <2>2. QED
    BY <1>1, <1>3, <1>4, <1>5, <1>6, <1>7, <2>1
<1>8. ASSUME NEW n \in 1..3
      PROVE  get_page_table(u, n, to) = None <=>
               \/ get_page_table(u, n + 1, to) = None
               \/ is_unused(u.mem[get_page_table(u, n + 1, to)][get_page_index(n + 1, to)])
  <2>1. (n = 1 /\ n + 1 = 2) \/ (n = 2 /\ n + 1 = 3) \/ (n = 3 /\ n + 1 = 4)
    BY SMTT(40)
  <2>2. QED
    BY <1>1, <1>3, <1>4, <1>5, <1>6, <2>1 DEF i2, i3, i4
<1>9. QED
  BY <1>1, <1>7, <1>8

(* The path and the entry of a page in terms of its four indices.          *)
LEMMA LookupIs ==
  ASSUME NEW root, NEW u, IsTable(root, u), NEW q
  PROVE  /\ get_page_table(u, 4, q) = root
         /\ get_page_table(u, 3, q) = Child(u, root, get_page_index(4, q))
         /\ get_page_table(u, 2, q) = Child(u, get_page_table(u, 3, q), get_page_index(3, q))
         /\ get_page_table(u, 1, q) = Child(u, get_page_table(u, 2, q), get_page_index(2, q))
         /\ Lookup(u, q) = IF get_page_table(u, 1, q) = None THEN Unused
                           ELSE u.mem[get_page_table(u, 1, q)][get_page_index(1, q)]
  BY SMTT(40) DEF get_page_table, Lookup, IsTable

(* A new table g changes no translation.  It is the next table on the path *)
(* of the pages whose path ended in its slot.                              *)
OnlyExtends(u, u1, f, i, g, q) ==
  /\ Lookup(u1, q) = Lookup(u, q)
  /\ \A n \in 1..4 : get_page_table(u, n, q) # None
                     => get_page_table(u1, n, q) = get_page_table(u, n, q)
  /\ \A n \in 2..4 : get_page_table(u, n, q) = f /\ get_page_index(n, q) = i
                     => get_page_table(u1, n - 1, q) = g

LEMMA LinkKeepsLookup ==
  ASSUME NEW root, NEW u, IsTable(root, u), NEW lv, IsTree(root, u.mem, lv),
         NEW f \in DOMAIN u.mem, lv[f] > 1, NEW i \in Indices,
         ~(f = root /\ i = RECURSIVE_INDEX), is_unused(u.mem[f][i]),
         NEW g \in Nat \ DOMAIN u.mem,
         NEW u1, u1 = [mem |-> WithTable(u.mem, f, i, g), lvl4 |-> root],
         NEW q \in Nat, ~Reserved(q)
  PROVE  OnlyExtends(u, u1, f, i, g, q)
<1> DEFINE i1 == get_page_index(1, q)
           i2 == get_page_index(2, q)
           i3 == get_page_index(3, q)
           i4 == get_page_index(4, q)
           a3 == get_page_table(u, 3, q)
           a2 == get_page_table(u, 2, q)
           a1 == get_page_table(u, 1, q)
           b3 == get_page_table(u1, 3, q)
           b2 == get_page_table(u1, 2, q)
           b1 == get_page_table(u1, 1, q)
<1> SUFFICES /\ Lookup(u1, q) = Lookup(u, q)
             /\ \A n \in 1..4 : get_page_table(u, n, q) # None
                                => get_page_table(u1, n, q) = get_page_table(u, n, q)
             /\ \A n \in 2..4 : get_page_table(u, n, q) = f /\ get_page_index(n, q) = i
                                => get_page_table(u1, n - 1, q) = g
  BY DEF OnlyExtends
<1>1. TableAdded(root, u.mem, u1.mem, f, i, g)
  BY WithTableIs DEF IsTable
<1>2. /\ g \in DOMAIN u1.mem /\ u1.mem[g] = EmptyTable /\ IsTable(root, u1)
      /\ u1.mem[f] = [u.mem[f] EXCEPT ![i] = Entry(g, flags_rwx)]
      /\ \A h \in DOMAIN u.mem : h # f => u1.mem[h] = u.mem[h]
  BY <1>1 DEF TableAdded, IsTable
<1>3. /\ u1.mem[f][i] = Entry(g, flags_rwx)
      /\ \A h \in DOMAIN u.mem, j \in Indices : ~(h = f /\ j = i) => u1.mem[h][j] = u.mem[h][j]
  BY <1>2 DEF IsTable, IsMem
<1>4. i1 \in Indices /\ i2 \in Indices /\ i3 \in Indices /\ i4 \in Indices
  BY IndexInTable
<1>5. f # None /\ g # None /\ root # None /\ root \in DOMAIN u.mem
  BY SMTT(40) DEF IsTable, IsMem, None
<1>6. Child(u1, f, i) = g /\ Child(u, f, i) = None
  BY <1>3, <1>5, EntriesInSet, SMTT(40) DEF Child, Entry
<1>7. \A j \in Indices : Child(u1, g, j) = None
  BY <1>2 DEF Child, EmptyTable, is_unused
<1>8. \A j : Child(u, None, j) = None /\ Child(u1, None, j) = None
  BY SMTT(40) DEF Child
<1>same. \A c, j : (c = None \/ c \in DOMAIN u.mem) /\ j \in Indices /\ ~(c = f /\ j = i)
                 => Child(u1, c, j) = Child(u, c, j)
  BY <1>3, SMTT(40) DEF Child
<1>9. /\ a3 = Child(u, root, i4) /\ a2 = Child(u, a3, i3) /\ a1 = Child(u, a2, i2)
      /\ Lookup(u, q) = IF a1 = None THEN Unused ELSE u.mem[a1][i1]
      /\ get_page_table(u, 4, q) = root
  BY LookupIs, SMTT(40)
<1>10. /\ b3 = Child(u1, root, i4) /\ b2 = Child(u1, b3, i3) /\ b1 = Child(u1, b2, i2)
       /\ Lookup(u1, q) = IF b1 = None THEN Unused ELSE u1.mem[b1][i1]
       /\ get_page_table(u1, 4, q) = root
  BY <1>2, LookupIs, SMTT(40)
<1>11. /\ a3 = None \/ (a3 \in DOMAIN u.mem /\ lv[a3] = 3)
       /\ a2 = None \/ (a2 \in DOMAIN u.mem /\ lv[a2] = 2)
       /\ a1 = None \/ (a1 \in DOMAIN u.mem /\ lv[a1] = 1)
       /\ lv[root] = 4
  BY <1>5, PathIs, SMTT(40) DEF IsTree, HasLevels
<1>12. \A n \in 2..4 : get_page_table(u, n, q) = f /\ get_page_index(n, q) = i =>
         \/ n = 4 /\ root = f /\ i4 = i
         \/ n = 3 /\ a3 = f /\ i3 = i
         \/ n = 2 /\ a2 = f /\ i2 = i
  <2> TAKE n \in 2..4
  <2>1. n = 4 \/ n = 3 \/ n = 2
    OBVIOUS
  <2>2. QED
    BY <1>9, <2>1
<1>13. get_page_table(u1, 4 - 1, q) = b3 /\ get_page_table(u1, 3 - 1, q) = b2 /\ get_page_table(u1, 2 - 1, q) = b1
  BY SMTT(40)
<1>kept. \A n \in 1..4 : get_page_table(u, n, q) # None
                         => get_page_table(u1, n, q) = get_page_table(u, n, q)
  <2>1. a3 # None => b3 = a3
    BY <1>same, <1>4, <1>5, <1>6, <1>9, <1>10, SMTT(40)
  <2>2. a2 # None => b2 = a2
    BY <1>same, <1>4, <1>6, <1>8, <1>9, <1>10, <1>11, <2>1, SMTT(40)
  <2>3. a1 # None => b1 = a1
    BY <1>same, <1>4, <1>6, <1>8, <1>9, <1>10, <1>11, <2>2, SMTT(40)
  <2>4. \A n \in 1..4 : n = 1 \/ n = 2 \/ n = 3 \/ n = 4
    BY SMTT(40)
  <2>5. QED
    BY <1>9, <1>10, <2>1, <2>2, <2>3, <2>4, SMTT(40)
<1> HIDE DEF i1, i2, i3, i4, a1, a2, a3, b1, b2, b3
<1>14. CASE root = f /\ i4 = i
  <2>1. a3 = None /\ a2 = None /\ a1 = None /\ b3 = g /\ b2 = None /\ b1 = None
    BY <1>4, <1>6, <1>7, <1>8, <1>9, <1>10, <1>14, SMTT(40)
  <2>2. QED
    BY <1>kept, <1>5, <1>9, <1>10, <1>12, <1>13, <2>1, SMTT(40)
<1>15. CASE ~(root = f /\ i4 = i)
  <2>1. b3 = a3
    BY <1>same, <1>4, <1>5, <1>9, <1>10, <1>15, SMTT(40)
  <2>2. CASE a3 = f /\ i3 = i
    <3>1. a2 = None /\ a1 = None /\ b2 = g /\ b1 = None
      BY <1>4, <1>6, <1>7, <1>8, <1>9, <1>10, <2>1, <2>2, SMTT(40)
    <3>2. QED
      BY <1>kept, <1>5, <1>9, <1>10, <1>12, <1>13, <1>15, <3>1, SMTT(40)
  <2>3. CASE ~(a3 = f /\ i3 = i)
    <3>1. b2 = a2
      BY <1>same, <1>4, <1>9, <1>10, <1>11, <2>1, <2>3, SMTT(40)
    <3>2. CASE a2 = f /\ i2 = i
      <4>1. a1 = None /\ b1 = g
        BY <1>6, <1>9, <1>10, <3>1, <3>2, SMTT(40)
      <4>2. u1.mem[g][i1] = Unused
        BY <1>2, <1>4, ZenonT(40) DEF EmptyTable
      <4>3. QED
        BY <1>kept, <1>5, <1>9, <1>10, <1>12, <1>13, <1>15, <2>3, <4>1, <4>2, SMTT(40)
    <3>3. CASE ~(a2 = f /\ i2 = i)
      <4>1. b1 = a1
        BY <1>same, <1>4, <1>9, <1>10, <1>11, <3>1, <3>3, SMTT(40)
      <4>2. a1 # None => a1 # f /\ u1.mem[a1][i1] = u.mem[a1][i1]
        BY <1>3, <1>4, <1>11, SMTT(40)
      <4>3. QED
        BY <1>kept, <1>9, <1>10, <1>12, <1>15, <2>3, <3>3, <4>1, <4>2, ZenonT(40)
    <3>4. QED
      BY <3>2, <3>3
  <2>4. QED
    BY <2>2, <2>3, SMTT(40)
<1>16. QED
  BY <1>14, <1>15

-----------------------------------------------------------------------------
(* What the frame allocator still gives: frames of A that are not tables,  *)
(* each once.                                                              *)
PoolFor(pool, M, A) ==
  /\ A \subseteq Nat /\ pool \in Seq(A)
  /\ \A i \in 1..Len(pool) : pool[i] \notin DOMAIN M
  /\ \A i, j \in 1..Len(pool) : i # j => pool[i] # pool[j]

(* The loop of map stands at the table of level n of the page.             *)
At(root, s, n, lv, to, A) ==
  /\ s = [t |-> s.t, pool |-> s.pool, table |-> s.table, out |-> "Ok"]
  /\ IsTable(root, s.t) /\ IsTree(root, s.t.mem, lv)
  /\ s.table \in DOMAIN s.t.mem /\ lv[s.table] = n
  /\ s.table = get_page_table(s.t, n, to)
  /\ PoolFor(s.pool, s.t.mem, A)

Open(s, n, to) == is_unused(s.t.mem[s.table][get_page_index(n, to)])

(* The allocator failed, or gave a frame that is not aligned, with the     *)
(* tables linked so far in the tree.                                       *)
Failed(root, s, A) ==
  /\ s.out = "TableAllocationFailed" \/ (s.out = "panic" /\ \E g \in A : ~Aligned(g))
  /\ IsTable(root, s.t) /\ \E lv : IsTree(root, s.t.mem, lv)

(* The same translations.                                                  *)
SameSpace(u, u1) == \A q \in Nat : ~Reserved(q) => Lookup(u1, q) = Lookup(u, q)

(* The tables on the path of a page stay where they are.                   *)
PathsKept(u, u1) ==
  \A q \in Nat, n \in 1..4 :
    ~Reserved(q) /\ get_page_table(u, n, q) # None
      => get_page_table(u1, n, q) = get_page_table(u, n, q)

(* The loop of map adds tables on the path of the page, and nothing else.  *)
Grew(u, u1, to, A) ==
  /\ SameSpace(u, u1) /\ PathsKept(u, u1)
  /\ \A f \in DOMAIN u1.mem \ DOMAIN u.mem :
       f \in A /\ f # None /\ \E n \in 1..3 : get_page_table(u1, n, to) = f

LEMMA GrewAgain ==
  ASSUME NEW A, NEW u, NEW v, NEW w, NEW to \in Nat, ~Reserved(to), Grew(u, v, to, A), Grew(v, w, to, A)
  PROVE  Grew(u, w, to, A)
<1>1. SameSpace(u, w)
  BY DEF Grew, SameSpace
<1>2. PathsKept(u, w)
  BY DEF Grew, PathsKept
<1>3. ASSUME NEW f \in DOMAIN w.mem \ DOMAIN u.mem
      PROVE  f \in A /\ f # None /\ \E n \in 1..3 : get_page_table(w, n, to) = f
  <2>1. CASE f \notin DOMAIN v.mem
    BY <2>1 DEF Grew
  <2>2. CASE f \in DOMAIN v.mem
    <3>1. PICK n \in 1..3 : f \in A /\ f # None /\ get_page_table(v, n, to) = f
      BY <2>2 DEF Grew
    <3>2. n \in 1..4
      OBVIOUS
    <3>3. get_page_table(w, n, to) = f
      BY <3>1, <3>2 DEF Grew, PathsKept
    <3>4. QED
      BY <3>1, <3>3
  <2>3. QED
    BY <2>1, <2>2
<1>4. QED
  BY <1>1, <1>2, <1>3 DEF Grew

LEMMA PoolHead ==
  ASSUME NEW A, NEW M, NEW pool, PoolFor(pool, M, A), pool # <<>>
  PROVE  Head(pool) \in A /\ Head(pool) \in Nat \ DOMAIN M
<1>1. pool \in Seq(A) /\ Len(pool) \in Nat /\ Len(pool) > 0 /\ Head(pool) = pool[1]
  BY DEF PoolFor
<1>2. 1 \in 1..Len(pool)
  BY <1>1
<1>3. pool[1] \in A /\ pool[1] \notin DOMAIN M
  BY <1>1, <1>2 DEF PoolFor
<1>4. QED
  BY <1>1, <1>3, Zenon DEF PoolFor

LEMMA PoolTail ==
  ASSUME NEW A, NEW M, NEW M1, NEW pool, PoolFor(pool, M, A), pool # <<>>,
         DOMAIN M1 = DOMAIN M \cup {Head(pool)}
  PROVE  PoolFor(Tail(pool), M1, A)
<1>1. pool \in Seq(A) /\ Len(pool) \in Nat /\ Len(pool) > 0 /\ Head(pool) = pool[1]
  BY DEF PoolFor
<1>3. /\ Tail(pool) \in Seq(A) /\ Len(Tail(pool)) = Len(pool) - 1
      /\ \A i \in 1..(Len(pool) - 1) : Tail(pool)[i] = pool[i + 1]
  BY <1>1
<1>4. ASSUME NEW i \in 1..(Len(pool) - 1)
      PROVE  Tail(pool)[i] \notin DOMAIN M1
  <2>1. i + 1 \in 1..Len(pool) /\ i + 1 # 1 /\ 1 \in 1..Len(pool)
    BY <1>1
  <2>2. pool[i + 1] \notin DOMAIN M /\ pool[i + 1] # pool[1]
    BY <2>1 DEF PoolFor
  <2>3. QED
    BY <1>1, <1>3, <2>2
<1>5. ASSUME NEW i \in 1..(Len(pool) - 1), NEW j \in 1..(Len(pool) - 1), i # j
      PROVE  Tail(pool)[i] # Tail(pool)[j]
  <2>1. i + 1 \in 1..Len(pool) /\ j + 1 \in 1..Len(pool) /\ i + 1 # j + 1
    BY <1>1, <1>5
  <2>2. pool[i + 1] # pool[j + 1]
    BY <2>1, SMTT(40) DEF PoolFor
  <2>3. QED
    BY <1>3, <2>2
<1>6. QED
  BY <1>3, <1>4, <1>5 DEF PoolFor

(* A turn of the loop goes down one level, to an empty table, or fails.    *)
LEMMA LinkGoesDown ==
  ASSUME NEW root, NEW A, NEW s, NEW lv, NEW n \in 2..4, NEW to \in Nat, ~Reserved(to),
         At(root, s, n, lv, to, A), Open(s, n, to)
  PROVE  /\ Grew(s.t, Link(s, n, to).t, to, A)
         /\ \/ Failed(root, Link(s, n, to), A)
            \/ /\ \E l1 : At(root, Link(s, n, to), n - 1, l1, to, A)
               /\ \A m \in 1..4 : Open(Link(s, n, to), m, to)
<1> DEFINE i == get_page_index(n, to)
           M == s.t.mem
           g == Head(s.pool)
           r == Link(s, n, to)
<1>1. /\ IsTable(root, s.t) /\ IsMem(root, M) /\ IsTree(root, M, lv) /\ s.table \in DOMAIN M /\ lv[s.table] = n
      /\ PoolFor(s.pool, M, A) /\ s.out = "Ok" /\ is_unused(M[s.table][i])
  BY DEF At, IsTable, Open
<1>2. i \in Indices
  BY IndexInTable
<1>3. ~(s.table = root /\ i = RECURSIVE_INDEX)
  <2>1. s.table = root => n = 4
    BY <1>1, ZenonT(40) DEF IsTree, HasLevels
  <2>2. QED
    BY <2>1 DEF Reserved
<1>4. CASE s.pool = <<>>
  <2>1. r = [s EXCEPT !.out = "TableAllocationFailed"]
    BY <1>1, <1>4 DEF Link
  <2>2. r.out = "TableAllocationFailed" /\ r.t = s.t
    BY <2>1, Zenon DEF At
  <2>3. QED
    BY <1>1, <2>2, Zenon DEF Failed, Grew, SameSpace, PathsKept
<1>g. s.pool # <<>> => g \in A /\ g \in Nat \ DOMAIN M
  BY <1>1, PoolHead, ZenonT(40)
<1>p. CASE s.pool # <<>> /\ ~Aligned(g)
  <2>1. r = [s EXCEPT !.out = "panic"]
    BY <1>1, <1>p DEF Link
  <2>2. r.out = "panic" /\ r.t = s.t
    BY <2>1 DEF At
  <2>3. QED
    BY <1>1, <1>g, <1>p, <2>2, Zenon DEF Failed, Grew, SameSpace, PathsKept
<1>5. CASE s.pool # <<>> /\ Aligned(g)
  <2> DEFINE M1 == WithTable(M, s.table, i, g)
             l1 == WithLevel(M, lv, s.table, g)
  <2>1. g \in A /\ g \in Nat \ DOMAIN M /\ Aligned(g)
    BY <1>5, <1>g
  <2>2. r = [ t     |-> [mem |-> M1, lvl4 |-> root], pool |-> Tail(s.pool),
              table |-> g, out |-> "Ok" ]
    <3>1. s.t = [mem |-> M, lvl4 |-> root]
      BY <1>1 DEF IsTable
    <3> DEFINE linked == SetEntry(s.t, s.table, i, Entry(g, flags_rwx))
               M0 == [M EXCEPT ![s.table][i] = Entry(g, flags_rwx)]
    <3>2. linked = [mem |-> M0, lvl4 |-> root]
      BY <3>1, SMTT(40) DEF SetEntry
    <3>3. r = [ t     |-> [linked EXCEPT !.mem = new_page_table_level(linked.mem, g)],
                pool  |-> Tail(s.pool), table |-> g, out |-> "Ok" ]
      BY <1>1, <1>5, <2>1 DEF Link, FramesAfterAlloc
    <3> HIDE DEF linked, M0, g, i
    <3>4. [linked EXCEPT !.mem = new_page_table_level(linked.mem, g)] =
            [mem |-> new_page_table_level(M0, g), lvl4 |-> root]
      BY <3>2
    <3>5. M1 = new_page_table_level(M0, g)
      BY DEF WithTable, M0
    <3>6. QED
      BY <3>3, <3>4, <3>5, ZenonT(40)
  <2>3. IsMem(root, M1) /\ IsTree(root, M1, l1) /\ l1[g] = n - 1
    <3>1. lv[s.table] > 1 /\ lv[s.table] = n
      BY <1>1, SMTT(40)
    <3> HIDE DEF M1, l1, g, i
    <3>2. IsMem(root, M1) /\ IsTree(root, M1, l1) /\ l1[g] = lv[s.table] - 1
      BY <1>1, <1>2, <1>3, <2>1, <3>1, LinkTable, SMTT(40) DEF M1, l1
    <3>3. QED
      BY <3>1, <3>2, SMTT(40)
  <2>4. DOMAIN M1 = DOMAIN M \cup {g} /\ M1[g] = EmptyTable
    <3>1. TableAdded(root, M, M1, s.table, i, g)
      BY <1>1, <1>2, <2>1, WithTableIs, Zenon
    <3>2. QED
      BY <3>1, Zenon DEF TableAdded
  <2>5. PoolFor(Tail(s.pool), M1, A)
    BY <1>1, <1>5, <2>4, PoolTail, ZenonT(40)
  <2>path. /\ SameSpace(s.t, r.t) /\ PathsKept(s.t, r.t)
           /\ get_page_table(r.t, n - 1, to) = g
    <3>1. r.t = [mem |-> M1, lvl4 |-> root]
      BY <2>2
    <3>2. get_page_table(s.t, n, to) = s.table
      BY ZenonT(40) DEF At
    <3>3. ASSUME NEW q \in Nat, ~Reserved(q)
          PROVE  /\ Lookup(r.t, q) = Lookup(s.t, q)
                 /\ \A m \in 1..4 : get_page_table(s.t, m, q) # None
                                    => get_page_table(r.t, m, q) = get_page_table(s.t, m, q)
                 /\ \A m \in 2..4 : get_page_table(s.t, m, q) = s.table /\ get_page_index(m, q) = i
                                    => get_page_table(r.t, m - 1, q) = g
      <4> HIDE DEF r
      <4>1. lv[s.table] > 1
        BY <1>1
      <4>2. OnlyExtends(s.t, r.t, s.table, i, g, q)
        BY <1>1, <1>2, <1>3, <2>1, <3>1, <3>3, <4>1, LinkKeepsLookup, ZenonT(40)
      <4>3. QED
        BY <4>2, ZenonT(40) DEF OnlyExtends
    <3>4. SameSpace(s.t, r.t) /\ PathsKept(s.t, r.t)
      BY <3>3, SMTT(40) DEF SameSpace, PathsKept
    <3>5. QED
      BY <3>2, <3>3, <3>4, Zenon
  <2> HIDE DEF M1, l1, g
  <2>6. At(root, r, n - 1, l1, to, A)
    BY <2>2, <2>3, <2>4, <2>5, <2>path, SMTT(40) DEF At, IsTable
  <2>7. \A m \in 1..4 : Open(r, m, to)
    BY <2>2, <2>4, IndexInTable, SMTT(40) DEF Open, EmptyTable, is_unused
  <2>8. Grew(s.t, r.t, to, A)
    <3>1. DOMAIN r.t.mem = DOMAIN s.t.mem \cup {g}
      BY <2>2, <2>4, SMTT(40)
    <3>2. n - 1 \in 1..3 /\ g # None
      BY <2>1, SMTT(40) DEF None
    <3> HIDE DEF r
    <3>3. QED
      BY <2>1, <2>path, <3>1, <3>2, ZenonT(40) DEF Grew
  <2>9. QED
    BY <2>6, <2>7, <2>8
<1>6. QED
  BY <1>4, <1>p, <1>5, SMTT(40)

LEMMA FailedStays ==
  ASSUME NEW root, NEW A, NEW s, NEW n, NEW to, Failed(root, s, A)
  PROVE  Link(s, n, to) = s
  BY DEF Failed, Link

(* From an open slot of level n on, the remaining turns reach level 1.     *)
LEMMA DownFrom3 ==
  ASSUME NEW root, NEW A, NEW s, NEW lv, NEW to \in Nat, ~Reserved(to), At(root, s, 3, lv, to, A), Open(s, 3, to)
  PROVE  LET r == Link(Link(s, 3, to), 2, to)
         IN  Grew(s.t, r.t, to, A) /\ (Failed(root, r, A) \/ \E l1 : At(root, r, 1, l1, to, A))
<1> DEFINE s3 == Link(s, 3, to)
<1>1. /\ Grew(s.t, s3.t, to, A)
      /\ Failed(root, s3, A) \/ ((\E l1 : At(root, s3, 3 - 1, l1, to, A)) /\ \A m \in 1..4 : Open(s3, m, to))
  <2>1. 3 \in 2..4
    OBVIOUS
  <2>2. QED
    BY <2>1, LinkGoesDown, Zenon
<1> HIDE DEF s3
<1>2. CASE Failed(root, s3, A)
  <2>1. Link(s3, 2, to) = s3
    BY <1>2, FailedStays, SMTT(40)
  <2>2. QED
    BY <1>1, <1>2, <2>1 DEF s3
<1>3. CASE (\E l1 : At(root, s3, 3 - 1, l1, to, A)) /\ \A m \in 1..4 : Open(s3, m, to)
  <2>1. PICK l1 : At(root, s3, 2, l1, to, A)
    BY <1>3
  <2>2. Open(s3, 2, to)
    BY <1>3
  <2>3. /\ Grew(s3.t, Link(s3, 2, to).t, to, A)
        /\ Failed(root, Link(s3, 2, to), A) \/ \E l2 : At(root, Link(s3, 2, to), 2 - 1, l2, to, A)
    BY <2>1, <2>2, LinkGoesDown, SMTT(40)
  <2>4. QED
    BY <1>1, <2>3, GrewAgain DEF s3
<1>4. QED
  BY <1>1, <1>2, <1>3

LEMMA DownFrom4 ==
  ASSUME NEW root, NEW A, NEW s, NEW lv, NEW to \in Nat, ~Reserved(to), At(root, s, 4, lv, to, A), Open(s, 4, to)
  PROVE  LET r == Link(Link(Link(s, 4, to), 3, to), 2, to)
         IN  Grew(s.t, r.t, to, A) /\ (Failed(root, r, A) \/ \E l1 : At(root, r, 1, l1, to, A))
<1> DEFINE s4 == Link(s, 4, to)
<1>1. /\ Grew(s.t, s4.t, to, A)
      /\ Failed(root, s4, A) \/ ((\E l1 : At(root, s4, 4 - 1, l1, to, A)) /\ \A m \in 1..4 : Open(s4, m, to))
  <2>1. 4 \in 2..4
    OBVIOUS
  <2>2. QED
    BY <2>1, LinkGoesDown, Zenon
<1> HIDE DEF s4
<1>2. CASE Failed(root, s4, A)
  <2>1. Link(s4, 3, to) = s4 /\ Link(s4, 2, to) = s4
    BY <1>2, FailedStays, SMTT(40)
  <2>2. QED
    BY <1>1, <1>2, <2>1 DEF s4
<1>3. CASE (\E l1 : At(root, s4, 4 - 1, l1, to, A)) /\ \A m \in 1..4 : Open(s4, m, to)
  <2>1. PICK l1 : At(root, s4, 3, l1, to, A)
    BY <1>3
  <2>2. Open(s4, 3, to)
    BY <1>3
  <2> DEFINE r == Link(Link(s4, 3, to), 2, to)
  <2>3. Grew(s4.t, r.t, to, A) /\ (Failed(root, r, A) \/ \E l2 : At(root, r, 1, l2, to, A))
    BY <2>1, <2>2, DownFrom3
  <2>4. QED
    BY <1>1, <2>3, GrewAgain DEF s4
<1>4. QED
  BY <1>1, <1>2, <1>3

LEMMA LowestLevelIs ==
  ASSUME NEW root, NEW u, IsTable(root, u), NEW to, get_page_table(u, 4, to) = root
  PROVE  LET n == LowestLevel(u, to)
         IN  /\ n \in 1..4 /\ get_page_table(u, n, to) # None
             /\ \A l \in 1..(n - 1) : get_page_table(u, l, to) = None
<1> DEFINE P(n) == /\ get_page_table(u, n, to) # None
                   /\ \A l \in 1..(n - 1) : get_page_table(u, l, to) = None
<1>1. root # None
  BY DEF IsTable, IsMem, None
<1>2. \E n \in 1..4 : P(n)
  <2>1. CASE get_page_table(u, 1, to) # None
    <3>1. 1 \in 1..4 /\ P(1)
      BY <2>1
    <3>2. QED
      BY <3>1
  <2>2. CASE get_page_table(u, 1, to) = None /\ get_page_table(u, 2, to) # None
    <3>1. 2 \in 1..4 /\ P(2)
      BY <2>2
    <3>2. QED
      BY <3>1
  <2>3. CASE /\ get_page_table(u, 1, to) = None /\ get_page_table(u, 2, to) = None
             /\ get_page_table(u, 3, to) # None
    <3>1. 3 \in 1..4 /\ P(3)
      BY <2>3
    <3>2. QED
      BY <3>1
  <2>4. CASE /\ get_page_table(u, 1, to) = None /\ get_page_table(u, 2, to) = None
             /\ get_page_table(u, 3, to) = None
    <3>1. 4 \in 1..4 /\ P(4)
      BY <1>1, <2>4
    <3>2. QED
      BY <3>1
  <2>5. QED
    BY <2>1, <2>2, <2>3, <2>4
<1>3. LowestLevel(u, to) = CHOOSE n \in 1..4 : P(n)
  BY DEF LowestLevel
<1> HIDE DEF P
<1>4. LowestLevel(u, to) \in 1..4 /\ P(LowestLevel(u, to))
  BY <1>2, <1>3, SMTT(40)
<1>5. QED
  BY <1>4 DEF P

(* map creates what is missing of the path, or fails with a part of it.    *)
LEMMA CreateLevelsIs ==
  ASSUME NEW root, NEW u, IsTable(root, u), NEW lv, IsTree(root, u.mem, lv), NEW A, NEW pool, PoolFor(pool, u.mem, A),
         NEW to \in Nat, ~Reserved(to)
  PROVE  LET r == CreateLevels(u, pool, LowestLevel(u, to), to)
         IN  Grew(u, r.t, to, A) /\ (Failed(root, r, A) \/ \E l1 : At(root, r, 1, l1, to, A))
<1> DEFINE n == LowestLevel(u, to)
           s == [t |-> u, pool |-> pool, table |-> get_page_table(u, n, to), out |-> "Ok"]
           r == CreateLevels(u, pool, n, to)
<1>1. get_page_table(u, 4, to) = root
  BY PathIs, Zenon
<1>2. /\ n \in 1..4 /\ get_page_table(u, n, to) # None
      /\ \A l \in 1..(n - 1) : get_page_table(u, l, to) = None
  BY <1>1, LowestLevelIs, SMTT(40)
<1> HIDE DEF n
<1>3. get_page_table(u, n, to) \in DOMAIN u.mem /\ lv[get_page_table(u, n, to)] = n
  BY <1>2, PathIs, SMTT(40)
<1>4. At(root, s, n, lv, to, A)
  BY <1>3, Zenon DEF At
<1>5. n > 1 => Open(s, n, to)
  <2> SUFFICES ASSUME n > 1 PROVE Open(s, n, to)
    OBVIOUS
  <2>1. n - 1 \in 1..3 /\ n - 1 + 1 = n /\ n - 1 \in 1..(n - 1)
    BY <1>2
  <2>2. get_page_table(u, n - 1, to) = None
    BY <1>2, <2>1, SMTT(40)
  <2>3. get_page_table(u, n, to) = None \/ is_unused(u.mem[get_page_table(u, n, to)][get_page_index(n, to)])
    BY <2>1, <2>2, PathIs, SMTT(40)
  <2>4. QED
    BY <1>2, <2>3 DEF Open
<1>u. s.t = u
  OBVIOUS
<1>6. r = CASE n = 4 -> Link(Link(Link(s, 4, to), 3, to), 2, to)
            [] n = 3 -> Link(Link(s, 3, to), 2, to)
            [] n = 2 -> Link(s, 2, to)
            [] n = 1 -> s
  BY <1>2 DEF CreateLevels
<1> HIDE DEF s, r
<1>7. CASE n = 4
  BY <1>4, <1>5, <1>6, <1>7, <1>u, DownFrom4 DEF r, n
<1>8. CASE n = 3
  BY <1>4, <1>5, <1>6, <1>8, <1>u, DownFrom3 DEF r, n
<1>9. CASE n = 2
  <2>1. r = Link(s, 2, to)
    BY <1>6, <1>9
  <2>2. At(root, s, 2, lv, to, A) /\ Open(s, 2, to)
    BY <1>4, <1>5, <1>9
  <2>3. 2 \in 2..4 /\ 2 - 1 = 1
    OBVIOUS
  <2>4. Grew(s.t, r.t, to, A) /\ (Failed(root, r, A) \/ \E l1 : At(root, r, 2 - 1, l1, to, A))
    BY <2>1, <2>2, <2>3, LinkGoesDown, Zenon
  <2>5. QED
    BY <1>u, <2>3, <2>4, Zenon DEF r, n
<1>10. CASE n = 1
  BY <1>4, <1>6, <1>10, <1>u DEF r, n, Grew, SameSpace, PathsKept
<1>11. QED
  BY <1>2, <1>7, <1>8, <1>9, <1>10, SMTT(40)

-----------------------------------------------------------------------------
Tree(root, u) == IsTable(root, u) /\ \E lv : IsTree(root, u.mem, lv)

(* The table that new makes: the root with its recursive entry.            *)
LEMMA NewIsTree ==
  ASSUME NEW root \in Nat
  PROVE  Tree(root, new(root))
<1> DEFINE M == [f \in {root} |-> [EmptyTable EXCEPT ![RECURSIVE_INDEX] = Entry(root, flags_rw)]]
           lv == [f \in {root} |-> 4]
<1>1. new(root) = [mem |-> M, lvl4 |-> root]
  BY DEF new
<1>2. RECURSIVE_INDEX \in Indices
  BY RecursiveIndexAssumption DEF Indices
<1>3. EmptyTable \in [Indices -> AllEntries] /\ Entry(root, flags_rw) \in AllEntries
  BY EntriesInSet DEF EmptyTable
<1>4. /\ M[root][RECURSIVE_INDEX] = Entry(root, flags_rw)
      /\ \A i \in Indices : i # RECURSIVE_INDEX => M[root][i] = Unused
  BY <1>2 DEF EmptyTable
<1>5. IsMem(root, M)
  BY <1>2, <1>3 DEF IsMem
<1>6. \A f \in DOMAIN M, i \in Indices : ~IsLink(root, M, lv, f, i)
  BY <1>4 DEF IsLink, is_unused
<1>7. HasLevels(root, M, lv)
  BY DEF HasLevels
<1>8. IsTree(root, M, lv)
  BY <1>4, <1>6, <1>7, Zenon DEF IsTree, LinksDown, LinksApart, AllLinked
<1> HIDE DEF M, lv
<1>9. QED
  BY <1>1, <1>5, <1>8 DEF Tree, IsTable

LEMMA NewIsEmpty ==
  ASSUME NEW root \in Nat, NEW q \in Nat, ~Reserved(q)
  PROVE  Lookup(new(root), q) = Unused
<1> DEFINE u == new(root)
           i == get_page_index(4, q)
<1>1. IsTable(root, u)
  BY NewIsTree DEF Tree
<1>2. i \in Indices /\ i # RECURSIVE_INDEX
  BY IndexInTable DEF Reserved
<1>3. u.mem[root][i] = Unused
  BY <1>2 DEF new, EmptyTable
<1> HIDE DEF u
<1>4. Child(u, root, i) = None
  BY <1>3, SMTT(40) DEF Child, is_unused
<1>5. get_page_table(u, 1, q) = None
  BY <1>1, <1>4, LookupIs, SMTT(40) DEF Child
<1>6. QED
  BY <1>1, <1>5, LookupIs DEF u

LEMMA SetEntryIs ==
  ASSUME NEW root, NEW u, IsTable(root, u), NEW f, NEW i, NEW e
  PROVE  SetEntry(u, f, i, e) = [mem |-> [u.mem EXCEPT ![f][i] = e], lvl4 |-> root]
  BY DEF SetEntry, IsTable

LEMMA LeafKeepsTree ==
  ASSUME NEW root, NEW u, IsTable(root, u), NEW lv, IsTree(root, u.mem, lv), NEW f \in DOMAIN u.mem, lv[f] = 1,
         NEW i \in Indices, NEW e \in AllEntries
  PROVE  Tree(root, SetEntry(u, f, i, e))
<1> DEFINE M1 == [u.mem EXCEPT ![f][i] = e]
<1>1. SetEntry(u, f, i, e) = [mem |-> M1, lvl4 |-> root]
  BY SetEntryIs
<1>2. IsMem(root, M1) /\ IsTree(root, M1, lv)
  BY LeafWrite, SMTT(40) DEF IsTable
<1> HIDE DEF M1
<1>3. QED
  BY <1>1, <1>2, SMTT(40) DEF Tree, IsTable

Misaligned(from, A) == ~Aligned(from) \/ \E g \in A : ~Aligned(g)

LEMMA MapKeepsTree ==
  ASSUME NEW root, NEW u, Tree(root, u), NEW A, NEW pool, PoolFor(pool, u.mem, A), NEW from \in Nat, NEW to \in Nat,
         NEW flags \in PageTableFlags
  PROVE  LET r == map(u, pool, from, to, flags)
         IN  Tree(root, r.t) /\ (r.out = "panic" => Misaligned(from, A))
<1> DEFINE s == CreateLevels(u, pool, LowestLevel(u, to), to)
           i == get_page_index(1, to)
           r == map(u, pool, from, to, flags)
<1>1. CASE Reserved(to)
  <2>1. r = [t |-> u, pool |-> pool, out |-> "AttemptedMappingToReserved"]
    BY <1>1, ZenonT(40) DEF map, Reserved
  <2>2. QED
    BY <2>1
<1>2. CASE ~Reserved(to)
  <2>1. PICK lv : IsTree(root, u.mem, lv)
    BY DEF Tree
  <2>2. Failed(root, s, A) \/ \E l1 : At(root, s, 1, l1, to, A)
    BY <1>2, <2>1, CreateLevelsIs, Zenon DEF Tree
  <2>3. \/ r = [t |-> s.t, pool |-> s.pool, out |-> s.out] /\ s.out # "Ok"
        \/ /\ s.out = "Ok"
           /\ \/ r = [t |-> s.t, pool |-> s.pool, out |-> "AlreadyMapped"]
              \/ r = [t |-> s.t, pool |-> s.pool, out |-> "panic"] /\ ~Aligned(from)
              \/ r = [ t    |-> SetEntry(s.t, s.table, i, Entry(from, flags)),
                       pool |-> s.pool, out |-> "Ok" ]
    BY <1>2, Zenon DEF map, Reserved
  <2> HIDE DEF s, r
  <2>4. CASE Failed(root, s, A)
    <3>1. s.out # "Ok" /\ (s.out = "panic" => Misaligned(from, A)) /\ Tree(root, s.t)
      BY <2>4, ZenonT(40) DEF Failed, Tree, Misaligned
    <3>2. r.t = s.t /\ r.out = s.out
      BY <2>3, <3>1, SMTT(40)
    <3>3. QED
      BY <3>1, <3>2, Zenon DEF r
  <2>5. ASSUME NEW l1, At(root, s, 1, l1, to, A)
        PROVE  Tree(root, r.t) /\ (r.out = "panic" => Misaligned(from, A))
    <3>1. s.out = "Ok" /\ IsTable(root, s.t) /\ IsTree(root, s.t.mem, l1) /\ s.table \in DOMAIN s.t.mem /\ l1[s.table] = 1
      BY <2>5 DEF At
    <3>2. i \in Indices /\ Entry(from, flags) \in AllEntries
      BY IndexInTable, EntriesInSet
    <3>3. Tree(root, s.t) /\ Tree(root, SetEntry(s.t, s.table, i, Entry(from, flags)))
      BY <3>1, <3>2, LeafKeepsTree, ZenonT(40) DEF Tree
    <3>4. \/ r.t = s.t /\ (r.out = "panic" => Misaligned(from, A))
          \/ r.t = SetEntry(s.t, s.table, i, Entry(from, flags)) /\ r.out = "Ok"
      BY <2>3, <3>1, SMTT(40) DEF Misaligned
    <3>5. QED
      BY <3>3, <3>4
  <2>6. QED
    BY <2>2, <2>4, <2>5, Zenon DEF r
<1>3. QED
  BY <1>1, <1>2

(* unmap and update_flags write an entry of a level 1 table, or nothing.   *)
LEMMA UnmapKeepsTree ==
  ASSUME NEW root, NEW u, Tree(root, u), NEW to \in Nat, ~Reserved(to)
  PROVE  Tree(root, unmap(u, to).t) /\ unmap(u, to).out # "panic"
<1> DEFINE f == get_page_table(u, 1, to)
           i == get_page_index(1, to)
<1>1. PICK lv : IsTree(root, u.mem, lv)
  BY SMTT(40) DEF Tree
<1>2. f # None => f \in DOMAIN u.mem /\ lv[f] = 1
  BY <1>1, PathIs DEF Tree
<1>3. i \in Indices /\ Unused \in AllEntries
  BY IndexInTable, EntriesInSet, SMTT(40)
<1>4. f # None => Tree(root, SetEntry(u, f, i, Unused))
  BY <1>1, <1>2, <1>3, LeafKeepsTree, Zenon DEF Tree
<1>5. f = None => is_unused(Lookup(u, to))
  BY SMTT(40) DEF Lookup, is_unused
<1>6. \/ unmap(u, to) = [t |-> u, out |-> "NotMapped"]
      \/ f # None /\ unmap(u, to) = [t |-> SetEntry(u, f, i, Unused), out |-> "Ok"]
  BY <1>5, Zenon DEF unmap
<1>7. QED
  BY <1>4, <1>6

LEMMA UpdateKeepsTree ==
  ASSUME NEW root, NEW u, Tree(root, u), NEW to \in Nat, ~Reserved(to), NEW flags \in PageTableFlags
  PROVE  Tree(root, update_flags(u, to, flags).t) /\ update_flags(u, to, flags).out # "panic"
<1> DEFINE f == get_page_table(u, 1, to)
           i == get_page_index(1, to)
           e == Entry(u.mem[f][i].addr, flags)
<1>1. PICK lv : IsTree(root, u.mem, lv)
  BY SMTT(40) DEF Tree
<1>2. f # None => f \in DOMAIN u.mem /\ lv[f] = 1
  BY <1>1, PathIs, SMTT(40) DEF Tree
<1>3. i \in Indices
  BY IndexInTable
<1>4. f # None => u.mem[f][i].addr \in Nat
  BY <1>2, <1>3, Zenon DEF Tree, IsTable, IsMem, AllEntries
<1>5. f # None => Tree(root, SetEntry(u, f, i, e))
  BY <1>1, <1>2, <1>3, <1>4, LeafKeepsTree, EntriesInSet, Zenon DEF Tree
<1>6. \/ update_flags(u, to, flags) = [t |-> u, out |-> "Ok"]
      \/ update_flags(u, to, flags) = [t |-> u, out |-> "NotMapped"]
      \/ f # None /\ update_flags(u, to, flags) = [t |-> SetEntry(u, f, i, e), out |-> "Ok"]
  BY Zenon DEF update_flags
<1>7. QED
  BY <1>5, <1>6

-----------------------------------------------------------------------------
(* Addresses of one page share all four indices.                           *)
SamePage(q, to) == \A n \in 1..4 : get_page_index(n, q) = get_page_index(n, to)

LEMMA SameLookup ==
  ASSUME NEW u, NEW q, NEW to, SamePage(q, to)
  PROVE  Lookup(u, q) = Lookup(u, to) /\ (Reserved(q) <=> Reserved(to))
<1>1. /\ get_page_index(1, q) = get_page_index(1, to) /\ get_page_index(2, q) = get_page_index(2, to)
      /\ get_page_index(3, q) = get_page_index(3, to) /\ get_page_index(4, q) = get_page_index(4, to)
  BY DEF SamePage
<1>2. get_page_table(u, 1, q) = get_page_table(u, 1, to)
  BY <1>1, Zenon DEF get_page_table
<1>3. QED
  BY <1>1, <1>2, Zenon DEF Lookup, Reserved

(* The page of "to" has the entry e in u1, and all others what u has.      *)
Changed(u, u1, to, e) ==
  \A q \in Nat : ~Reserved(q) => Lookup(u1, q) = IF SamePage(q, to) THEN e ELSE Lookup(u, q)

(* PathIs, as a predicate of the page.                                     *)
OnPath(u, lv, to) ==
  /\ \A n \in 1..4 : get_page_table(u, n, to) # None =>
       get_page_table(u, n, to) \in DOMAIN u.mem /\ lv[get_page_table(u, n, to)] = n
  /\ \A n \in 1..3 : get_page_table(u, n, to) = None <=>
       \/ get_page_table(u, n + 1, to) = None
       \/ is_unused(u.mem[get_page_table(u, n + 1, to)][get_page_index(n + 1, to)])

LEMMA PathKnown ==
  ASSUME NEW root, NEW u, IsTable(root, u), NEW lv, IsTree(root, u.mem, lv),
         NEW to \in Nat, ~Reserved(to)
  PROVE  OnPath(u, lv, to)
  BY PathIs, SMTT(40) DEF OnPath

(* A table is linked from one entry of one table.                          *)
OneStep(u, q, to, k) ==
  /\ get_page_table(u, k + 1, q) # None /\ get_page_table(u, k + 1, q) = get_page_table(u, k + 1, to)
  /\ get_page_index(k + 1, q) = get_page_index(k + 1, to)

LEMMA OneParent ==
  ASSUME NEW root, NEW u, IsTable(root, u), NEW lv, IsTree(root, u.mem, lv),
         NEW q \in Nat, ~Reserved(q), NEW to \in Nat, ~Reserved(to),
         NEW k \in 1..3, get_page_table(u, k, q) # None, get_page_table(u, k, q) = get_page_table(u, k, to)
  PROVE  OneStep(u, q, to, k)
<1> DEFINE T(n, x) == get_page_table(u, n, x)
           I(n, x) == get_page_index(n, x)
<1>1. ASSUME NEW x \in Nat, ~Reserved(x), NEW n \in 1..3, T(n, x) # None
      PROVE  /\ T(n + 1, x) # None /\ IsLink(root, u.mem, lv, T(n + 1, x), I(n + 1, x))
             /\ T(n, x) = u.mem[T(n + 1, x)][I(n + 1, x)].addr
  <2>1. n + 1 \in 1..4 /\ n + 1 > 1
    OBVIOUS
  <2>p. OnPath(u, lv, x)
    BY <1>1, PathKnown, Zenon
  <2>2. T(n + 1, x) # None /\ ~is_unused(u.mem[T(n + 1, x)][I(n + 1, x)])
    BY <1>1, <2>p, Zenon DEF OnPath
  <2>3. T(n + 1, x) \in DOMAIN u.mem /\ lv[T(n + 1, x)] = n + 1
    BY <2>1, <2>2, <2>p, Zenon DEF OnPath
  <2>4. I(n + 1, x) \in Indices
    BY <2>1, IndexInTable
  <2>5. T(n + 1, x) = root => I(n + 1, x) # RECURSIVE_INDEX
    <3>1. T(n + 1, x) = root => n + 1 = 4
      BY <2>3 DEF IsTree, HasLevels
    <3>2. QED
      BY <1>1, <3>1 DEF Reserved
  <2>6. T(n, x) = Child(u, T(n + 1, x), I(n + 1, x))
    <3>1. (n = 1 /\ n + 1 = 2) \/ (n = 2 /\ n + 1 = 3) \/ (n = 3 /\ n + 1 = 4)
      OBVIOUS
    <3>2. QED
      BY <3>1, LookupIs
  <2>7. QED
    BY <2>1, <2>2, <2>3, <2>4, <2>5, <2>6, Zenon DEF IsLink, Child
<1>2. T(k, q) # None /\ T(k, q) = T(k, to)
  OBVIOUS
<1>3. /\ T(k + 1, q) # None /\ IsLink(root, u.mem, lv, T(k + 1, q), I(k + 1, q))
      /\ T(k, q) = u.mem[T(k + 1, q)][I(k + 1, q)].addr
  BY <1>1, <1>2, Zenon
<1>4. /\ IsLink(root, u.mem, lv, T(k + 1, to), I(k + 1, to))
      /\ T(k, to) = u.mem[T(k + 1, to)][I(k + 1, to)].addr
  BY <1>1, <1>2, Zenon
<1>5. \A a, b, i, j : IsLink(root, u.mem, lv, a, i) /\ IsLink(root, u.mem, lv, b, j)
                      /\ u.mem[a][i].addr = u.mem[b][j].addr => a = b /\ i = j
  BY ZenonT(40) DEF IsTree, LinksApart, IsLink
<1> HIDE DEF T, I
<1>7. T(k + 1, q) = T(k + 1, to) /\ I(k + 1, q) = I(k + 1, to)
  <2>1. PICK a, b, i, j : a = T(k + 1, q) /\ b = T(k + 1, to) /\ i = I(k + 1, q) /\ j = I(k + 1, to)
    OBVIOUS
  <2>2. /\ IsLink(root, u.mem, lv, a, i) /\ IsLink(root, u.mem, lv, b, j)
        /\ u.mem[a][i].addr = u.mem[b][j].addr
    BY <1>2, <1>3, <1>4, <2>1, Zenon
  <2>3. a = b /\ i = j
    BY <1>5, <2>2, Zenon
  <2>4. QED
    BY <2>1, <2>3, Zenon
<1>8. QED
  BY <1>3, <1>7, Zenon DEF OneStep, T, I

(* Two paths to one table of a level have the same indices above it.       *)
OneWay(q, to, k) == \A n \in (k + 1)..4 : get_page_index(n, q) = get_page_index(n, to)

LEMMA OnePath ==
  ASSUME NEW root, NEW u, IsTable(root, u), NEW lv, IsTree(root, u.mem, lv),
         NEW q \in Nat, ~Reserved(q), NEW to \in Nat, ~Reserved(to),
         NEW k \in 1..3, get_page_table(u, k, q) # None, get_page_table(u, k, q) = get_page_table(u, k, to)
  PROVE  OneWay(q, to, k)
<1> DEFINE Same(n) == get_page_table(u, n, q) # None /\ get_page_table(u, n, q) = get_page_table(u, n, to)
           I(n) == get_page_index(n, q) = get_page_index(n, to)
<1>1. \A n \in 1..3 : Same(n) => Same(n + 1) /\ I(n + 1)
  <2>1. \A n \in 1..3 : Same(n) => OneStep(u, q, to, n)
    BY OneParent, Zenon
  <2>2. QED
    BY <2>1, Zenon DEF OneStep
<1>2. Same(k)
  OBVIOUS
<1> HIDE DEF Same, I
<1>3. /\ Same(1) => Same(2) /\ I(2)
      /\ Same(2) => Same(3) /\ I(3)
      /\ Same(3) => I(4)
  <2>1. 1 \in 1..3 /\ 2 \in 1..3 /\ 3 \in 1..3 /\ 1 + 1 = 2 /\ 2 + 1 = 3 /\ 3 + 1 = 4
    BY SMTT(40)
  <2>2. /\ Same(1) => Same(1 + 1) /\ I(1 + 1)
        /\ Same(2) => Same(2 + 1) /\ I(2 + 1)
        /\ Same(3) => Same(3 + 1) /\ I(3 + 1)
    BY <1>1, <2>1, Zenon
  <2>3. QED
    BY <2>1, <2>2, Zenon
<1>4. /\ k = 1 \/ k = 2 \/ k = 3
      /\ \A n \in (k + 1)..4 : \/ n = 4 \/ (n = 3 /\ (k = 1 \/ k = 2)) \/ (n = 2 /\ k = 1)
  BY SMTT(40)
<1>5. \A n \in (k + 1)..4 : I(n)
  BY <1>2, <1>3, <1>4, Zenon
<1>6. QED
  BY <1>5, Zenon DEF OneWay, I

(* Writing the entry of a page changes its translation only.               *)
LEMMA LeafLookup ==
  ASSUME NEW root, NEW u, IsTable(root, u), NEW lv, IsTree(root, u.mem, lv), NEW to \in Nat, ~Reserved(to),
         NEW f, f = get_page_table(u, 1, to), f # None,
         NEW i, i = get_page_index(1, to), NEW e \in AllEntries
  PROVE  Changed(u, SetEntry(u, f, i, e), to, e)
<1> DEFINE u1 == SetEntry(u, f, i, e)
<1>1. f \in DOMAIN u.mem /\ lv[f] = 1 /\ i \in Indices
  <2>1. 1 \in 1..4
    BY SMTT(40)
  <2>2. QED
    BY <2>1, PathIs, IndexInTable, SMTT(40)
<1>2. u1.mem = [u.mem EXCEPT ![f][i] = e] /\ IsTable(root, u1)
  <2>1. Tree(root, u1)
    BY <1>1, LeafKeepsTree, ZenonT(40)
  <2>2. u1 = [mem |-> [u.mem EXCEPT ![f][i] = e], lvl4 |-> root]
    BY SetEntryIs, SMTT(40)
  <2>3. QED
    BY <2>1, <2>2, SMTT(40) DEF Tree
<1>3. /\ u1.mem[f][i] = e
      /\ \A h \in DOMAIN u.mem, j \in Indices : ~(h = f /\ j = i) => u1.mem[h][j] = u.mem[h][j]
  BY <1>1, <1>2 DEF IsTable, IsMem
<1> HIDE DEF u1
<1> SUFFICES ASSUME NEW q \in Nat, ~Reserved(q)
             PROVE  Lookup(u1, q) = IF SamePage(q, to) THEN e ELSE Lookup(u, q)
  BY DEF Changed, u1
<1> DEFINE i1 == get_page_index(1, q)
           i2 == get_page_index(2, q)
           i3 == get_page_index(3, q)
           i4 == get_page_index(4, q)
           a3 == get_page_table(u, 3, q)
           a2 == get_page_table(u, 2, q)
           a1 == get_page_table(u, 1, q)
<1>5. i1 \in Indices /\ i2 \in Indices /\ i3 \in Indices /\ i4 \in Indices
  BY IndexInTable, SMTT(40)
<1>6. /\ a3 = None \/ (a3 \in DOMAIN u.mem /\ lv[a3] = 3)
      /\ a2 = None \/ (a2 \in DOMAIN u.mem /\ lv[a2] = 2)
      /\ a1 = None \/ (a1 \in DOMAIN u.mem /\ lv[a1] = 1)
      /\ root \in DOMAIN u.mem /\ lv[root] = 4
  BY PathIs, SMTT(40) DEF IsTree, HasLevels, IsTable, IsMem
<1>7. /\ a3 = Child(u, root, i4) /\ a2 = Child(u, a3, i3) /\ a1 = Child(u, a2, i2)
      /\ Lookup(u, q) = IF a1 = None THEN Unused ELSE u.mem[a1][i1]
  BY LookupIs, SMTT(40)
<1>8. \A c, j : (c = None \/ c \in DOMAIN u.mem) /\ j \in Indices /\ c # f
                => Child(u1, c, j) = Child(u, c, j)
  BY <1>3, Zenon DEF Child
<1>9. Lookup(u1, q) = IF a1 = None THEN Unused ELSE u1.mem[a1][i1]
  <2>1. f # None /\ root # f /\ a3 # f /\ a2 # f
    BY <1>1, <1>6, SMTT(40)
  <2>w. /\ get_page_table(u1, 3, q) = Child(u1, root, i4)
        /\ get_page_table(u1, 2, q) = Child(u1, get_page_table(u1, 3, q), i3)
        /\ get_page_table(u1, 1, q) = Child(u1, get_page_table(u1, 2, q), i2)
    BY <1>2, LookupIs, SMTT(40)
  <2> HIDE DEF i1, i2, i3, i4, a1, a2, a3
  <2>2. get_page_table(u1, 3, q) = a3
    BY <1>5, <1>6, <1>7, <1>8, <2>1, <2>w, Zenon
  <2>3. get_page_table(u1, 2, q) = a2
    BY <1>5, <1>6, <1>7, <1>8, <2>1, <2>2, <2>w, Zenon
  <2>4. get_page_table(u1, 1, q) = a1
    BY <1>5, <1>6, <1>7, <1>8, <2>1, <2>3, <2>w, Zenon
  <2>5. QED
    BY <2>4, SMTT(40) DEF Lookup, i1
<1>10. SamePage(q, to) <=> a1 = f /\ i1 = i
  <2>1. ASSUME SamePage(q, to) PROVE a1 = f /\ i1 = i
    <3>1. /\ i1 = i /\ i2 = get_page_index(2, to) /\ i3 = get_page_index(3, to)
          /\ i4 = get_page_index(4, to)
      BY <2>1 DEF SamePage
    <3>2. QED
      BY <1>7, <3>1, LookupIs
  <2>2. ASSUME a1 = f, i1 = i PROVE SamePage(q, to)
    <3>1. \A n \in 2..4 : get_page_index(n, q) = get_page_index(n, to)
      <4>1. 1 \in 1..3 /\ 1 + 1 = 2
        BY SMTT(40)
      <4>2. OneWay(q, to, 1)
        BY <2>2, <4>1, OnePath, SMTT(40)
      <4>3. QED
        BY <4>1, <4>2, Zenon DEF OneWay
    <3>2. \A n \in 1..4 : n = 1 \/ n \in 2..4
      OBVIOUS
    <3>3. QED
      BY <2>2, <3>1, <3>2 DEF SamePage
  <2>3. QED
    BY <2>1, <2>2, SMTT(40)
<1> HIDE DEF i1, i2, i3, i4, a1, a2, a3
<1>11. QED
  BY <1>3, <1>5, <1>6, <1>7, <1>9, <1>10, ZenonT(40)

-----------------------------------------------------------------------------
(* What a call with result r did to the translations of u.                 *)
MapDid(u, r, to, e) ==
  \/ r.out = "Ok" /\ ~Reserved(to) /\ Lookup(u, to) = Unused /\ Changed(u, r.t, to, e)
  \/ r.out # "Ok" /\ SameSpace(u, r.t)

LEMMA MapEffect ==
  ASSUME NEW root, NEW u, Tree(root, u), NEW A, NEW pool, PoolFor(pool, u.mem, A), NEW from \in Nat, NEW to \in Nat,
         NEW flags \in PageTableFlags
  PROVE  MapDid(u, map(u, pool, from, to, flags), to, Entry(from, flags))
<1> DEFINE s == CreateLevels(u, pool, LowestLevel(u, to), to)
           i == get_page_index(1, to)
           e == Entry(from, flags)
           r == map(u, pool, from, to, flags)
<1>1. CASE Reserved(to)
  <2>1. r = [t |-> u, pool |-> pool, out |-> "AttemptedMappingToReserved"]
    BY <1>1, Zenon DEF map, Reserved
  <2>2. QED
    BY <2>1, SMTT(40) DEF MapDid, SameSpace
<1>2. CASE ~Reserved(to)
  <2>1. PICK lv : IsTree(root, u.mem, lv)
    BY DEF Tree
  <2>2. SameSpace(u, s.t) /\ (Failed(root, s, A) \/ \E l1 : At(root, s, 1, l1, to, A))
    BY <1>2, <2>1, CreateLevelsIs, Zenon DEF Tree, Grew
  <2>3. \/ r = [t |-> s.t, pool |-> s.pool, out |-> s.out] /\ s.out # "Ok"
        \/ /\ s.out = "Ok"
           /\ \/ r = [t |-> s.t, pool |-> s.pool, out |-> "AlreadyMapped"]
              \/ r = [t |-> s.t, pool |-> s.pool, out |-> "panic"]
              \/ /\ r = [t |-> SetEntry(s.t, s.table, i, e), pool |-> s.pool, out |-> "Ok"]
                 /\ s.t.mem[s.table][i] = Unused
    BY <1>2, Zenon DEF map, Reserved, already_mapped, is_unused
  <2> HIDE DEF s, r
  <2>4. CASE r.out # "Ok"
    <3>1. r.t = s.t
      BY <2>3, <2>4
    <3>2. QED
      BY <2>2, <2>4, <3>1, ZenonT(40) DEF MapDid, r
  <2>5. CASE r.out = "Ok"
    <3>1. /\ s.out = "Ok" /\ s.t.mem[s.table][i] = Unused
          /\ r.t = SetEntry(s.t, s.table, i, e)
      BY <2>3, <2>5
    <3>2. PICK l1 : At(root, s, 1, l1, to, A)
      BY <2>2, <3>1, Zenon DEF Failed
    <3>3. /\ IsTable(root, s.t) /\ IsTree(root, s.t.mem, l1) /\ s.table \in DOMAIN s.t.mem
          /\ s.table = get_page_table(s.t, 1, to)
      BY <3>2, SMTT(40) DEF At
    <3>4. s.table # None
      BY <3>3, SMTT(40) DEF IsTable, IsMem, None
    <3>5. e \in AllEntries
      BY EntriesInSet, Zenon
    <3>6. Changed(s.t, r.t, to, e)
      BY <1>2, <3>1, <3>3, <3>4, <3>5, LeafLookup, Zenon
    <3>7. Lookup(s.t, to) = Unused
      BY <3>1, <3>3, <3>4, ZenonT(40) DEF Lookup
    <3>8. Changed(u, r.t, to, e) /\ Lookup(u, to) = Unused
      BY <1>2, <2>2, <3>6, <3>7, Zenon DEF Changed, SameSpace
    <3>9. QED
      BY <1>2, <2>5, <3>8, SMTT(40) DEF MapDid, r
  <2>6. QED
    BY <2>4, <2>5, Zenon
<1>3. QED
  BY <1>1, <1>2, SMTT(40)

(* What the errors of map say of the page.                                 *)
MapReported(u, r, to) ==
  /\ r.out \in {"Ok", "panic", "TableAllocationFailed", "AlreadyMapped", "AttemptedMappingToReserved"}
  /\ r.out = "AlreadyMapped" => Lookup(u, to) # Unused
  /\ r.out = "AttemptedMappingToReserved" => Reserved(to)

LEMMA MapOutcome ==
  ASSUME NEW root, NEW u, Tree(root, u), NEW A, NEW pool, PoolFor(pool, u.mem, A), NEW from \in Nat, NEW to \in Nat,
         NEW flags \in PageTableFlags
  PROVE  MapReported(u, map(u, pool, from, to, flags), to)
<1> DEFINE s == CreateLevels(u, pool, LowestLevel(u, to), to)
           i == get_page_index(1, to)
           r == map(u, pool, from, to, flags)
<1>1. CASE Reserved(to)
  BY <1>1, Zenon DEF map, MapReported
<1>2. CASE ~Reserved(to)
  <2>1. PICK lv : IsTree(root, u.mem, lv)
    BY DEF Tree
  <2>2. SameSpace(u, s.t) /\ (Failed(root, s, A) \/ \E l1 : At(root, s, 1, l1, to, A))
    BY <1>2, <2>1, CreateLevelsIs, Zenon DEF Tree, Grew
  <2>3. \/ r.out = s.out /\ s.out # "Ok"
        \/ s.out = "Ok" /\ r.out \in {"Ok", "panic"}
        \/ s.out = "Ok" /\ r.out = "AlreadyMapped" /\ s.t.mem[s.table][i] # Unused
    BY <1>2, Zenon DEF map, Reserved, already_mapped, is_unused
  <2> HIDE DEF s, r
  <2>4. CASE Failed(root, s, A)
    BY <2>3, <2>4, ZenonT(40) DEF Failed, MapReported, r
  <2>5. ASSUME NEW l1, At(root, s, 1, l1, to, A)
        PROVE  MapReported(u, r, to)
    <3>1. /\ s.out = "Ok" /\ IsTable(root, s.t) /\ s.table \in DOMAIN s.t.mem
          /\ s.table = get_page_table(s.t, 1, to)
      BY <2>5, SMTT(40) DEF At
    <3>2. s.table # None
      BY <3>1, SMTT(40) DEF IsTable, IsMem, None
    <3>3. Lookup(u, to) = s.t.mem[s.table][i]
      BY <1>2, <2>2, <3>1, <3>2, Zenon DEF Lookup, SameSpace
    <3>4. QED
      BY <2>3, <3>1, <3>3, Zenon DEF MapReported
  <2>6. QED
    BY <2>2, <2>4, <2>5, Zenon DEF r
<1>3. QED
  BY <1>1, <1>2, Zenon

LEMMA UnmapEffect ==
  ASSUME NEW root, NEW u, Tree(root, u), NEW to \in Nat, ~Reserved(to)
  PROVE  \/ Lookup(u, to) = Unused /\ unmap(u, to).t = u
         \/ Lookup(u, to) # Unused /\ Changed(u, unmap(u, to).t, to, Unused)
<1> DEFINE f == get_page_table(u, 1, to)
           i == get_page_index(1, to)
<1>1. PICK lv : IsTree(root, u.mem, lv)
  BY DEF Tree
<1>2. CASE Lookup(u, to) = Unused
  BY <1>2 DEF unmap, is_unused
<1>3. CASE Lookup(u, to) # Unused
  <2>1. f # None /\ unmap(u, to).t = SetEntry(u, f, i, Unused)
    BY <1>3, SMTT(40) DEF unmap, is_unused, Lookup
  <2>2. Changed(u, SetEntry(u, f, i, Unused), to, Unused)
    BY <1>1, <2>1, LeafLookup, EntriesInSet DEF Tree
  <2>3. QED
    BY <1>3, <2>1, <2>2, SMTT(40)
<1>4. QED
  BY <1>2, <1>3, Zenon

LEMMA UpdateEffect ==
  ASSUME NEW root, NEW u, Tree(root, u), NEW to \in Nat, ~Reserved(to), NEW flags \in PageTableFlags
  PROVE  \/ Lookup(u, to) = Unused /\ update_flags(u, to, flags).t = u
         \/ /\ Lookup(u, to) # Unused
            /\ Changed(u, update_flags(u, to, flags).t, to, Entry(Lookup(u, to).addr, flags))
<1> DEFINE f == get_page_table(u, 1, to)
           i == get_page_index(1, to)
           e == Entry(Lookup(u, to).addr, flags)
<1>1. PICK lv : IsTree(root, u.mem, lv)
  BY DEF Tree
<1>2. CASE Lookup(u, to) = Unused
  BY <1>2, Zenon DEF update_flags, is_unused, Lookup
<1>3. CASE Lookup(u, to) # Unused
  <2>1. f # None /\ Lookup(u, to) = u.mem[f][i]
    BY <1>3, SMTT(40) DEF Lookup
  <2>2. update_flags(u, to, flags).t = SetEntry(u, f, i, e)
    BY <1>3, <2>1 DEF update_flags, is_unused
  <2>3. e \in AllEntries
    <3>1. f \in DOMAIN u.mem /\ i \in Indices
      BY <1>1, <2>1, PathIs, IndexInTable DEF Tree
    <3>2. Lookup(u, to).addr \in Nat
      BY <2>1, <3>1, SMTT(40) DEF Tree, IsTable, IsMem, AllEntries
    <3>3. QED
      BY <3>2, EntriesInSet, ZenonT(40)
  <2>4. Changed(u, SetEntry(u, f, i, e), to, e)
    BY <1>1, <2>1, <2>3, LeafLookup DEF Tree
  <2>5. QED
    BY <1>3, <2>2, <2>4
<1>4. QED
  BY <1>2, <1>3, Zenon

-----------------------------------------------------------------------------
(* Two pages with the same four indices are one page.                      *)
LEMMA DivMod ==
  ASSUME NEW a \in Nat
  PROVE  /\ a \div Fanout \in Nat /\ a % Fanout \in Indices
         /\ a = Fanout * (a \div Fanout) + (a % Fanout)
  BY FanoutAssumption DEF Indices

LEMMA DivBelow ==
  ASSUME NEW a \in Nat, NEW b \in Nat, a < b * Fanout
  PROVE  a \div Fanout < b
<1>1. Fanout \in Nat /\ Fanout > 0
  BY FanoutAssumption
<1>2. PICK c \in Nat : c = a \div Fanout
  BY DivMod
<1>3. Fanout * c <= a
  BY <1>1, <1>2, DivMod DEF Indices
<1>4. c < b
  <2> SUFFICES ASSUME c >= b PROVE FALSE
    OBVIOUS
  <2>1. Fanout * c >= Fanout * b
    BY <1>1
  <2>2. QED
    BY <1>1, <1>3, <2>1
<1>5. QED
  BY <1>2, <1>4

LEMMA LastDigit ==
  ASSUME NEW a \in Nat, a < Fanout
  PROVE  a % Fanout = a
  BY FanoutAssumption

LEMMA IndexIs ==
  ASSUME NEW a
  PROVE  /\ get_page_index(1, a) = PageOf(a) % Fanout
         /\ get_page_index(2, a) = (PageOf(a) \div Fanout) % Fanout
         /\ get_page_index(3, a) = ((PageOf(a) \div Fanout) \div Fanout) % Fanout
         /\ get_page_index(4, a) = (((PageOf(a) \div Fanout) \div Fanout) \div Fanout) % Fanout
  BY DEF get_page_index

LEMMA SpaceSize == Fanout * Fanout * Fanout * Fanout \in Nat
<1>1. Fanout * Fanout \in Nat
  BY FanoutAssumption
<1>2. Fanout * Fanout * Fanout \in Nat
  BY <1>1, FanoutAssumption
<1>3. QED
  BY <1>2, FanoutAssumption

(* Numbers with the same last digit whose other digits differ are far apart. *)
LEMMA DigitGap ==
  ASSUME NEW x \in Nat, NEW y \in Nat, x % Fanout = y % Fanout,
         NEW k \in Nat, x \div Fanout >= (y \div Fanout) + k
  PROVE  x >= y + k * Fanout
<1>1. Fanout \in Nat
  BY FanoutAssumption
<1>2. PICK c \in Nat : c = x \div Fanout
  BY DivMod
<1>3. PICK d \in Nat : d = y \div Fanout
  BY DivMod
<1>4. PICK e \in Nat : e = x % Fanout
  BY DivMod DEF Indices
<1>5. x = Fanout * c + e /\ y = Fanout * d + e
  BY <1>2, <1>3, <1>4, DivMod
<1>6. c >= d + k
  BY <1>2, <1>3
<1>7. Fanout * c >= Fanout * (d + k)
  BY <1>1, <1>6
<1>8. Fanout * (d + k) = Fanout * d + k * Fanout /\ Fanout * d \in Nat /\ k * Fanout \in Nat
  BY <1>1
<1>9. QED
  BY <1>1, <1>5, <1>7, <1>8

LEMMA DigitOrder ==
  ASSUME NEW x \in Nat, NEW y \in Nat, x % Fanout = y % Fanout, x \div Fanout >= y \div Fanout
  PROVE  x >= y
<1>1. x \div Fanout \in Nat /\ y \div Fanout \in Nat /\ Fanout \in Nat
  BY DivMod, FanoutAssumption
<1>2. x >= y + 0 * Fanout
  BY <1>1, DigitGap
<1>3. QED
  BY <1>1, <1>2

(* Of two pages with the same four indices, the later comes a whole        *)
(* address space after the other.                                          *)
LEMMA SpaceGap ==
  ASSUME NEW a, NEW b, PageOf(a) \in Nat, PageOf(b) \in Nat, SamePage(a, b), PageOf(a) > PageOf(b)
  PROVE  PageOf(a) >= PageOf(b) + Fanout * Fanout * Fanout * Fanout
<1> DEFINE p1 == PageOf(a)
           p2 == p1 \div Fanout
           p3 == p2 \div Fanout
           p4 == p3 \div Fanout
           p5 == p4 \div Fanout
           r1 == PageOf(b)
           r2 == r1 \div Fanout
           r3 == r2 \div Fanout
           r4 == r3 \div Fanout
           r5 == r4 \div Fanout
<1>1. p1 % Fanout = r1 % Fanout /\ p2 % Fanout = r2 % Fanout
  BY IndexIs DEF SamePage
<1>2. p3 % Fanout = r3 % Fanout /\ p4 % Fanout = r4 % Fanout
  BY IndexIs DEF SamePage
<1>3. 0 \in Nat /\ Fanout \in Nat /\ Fanout * Fanout \in Nat /\ Fanout * Fanout * Fanout \in Nat
  BY FanoutAssumption
<1>4. p1 \in Nat /\ p2 \in Nat /\ r1 \in Nat /\ r2 \in Nat
  BY DivMod
<1> HIDE DEF p1, p2, r1, r2
<1>5. p3 \in Nat /\ r3 \in Nat
  BY <1>4, DivMod DEF p3, r3
<1> HIDE DEF p3, r3
<1>6. p4 \in Nat /\ r4 \in Nat
  BY <1>5, DivMod DEF p4, r4
<1> HIDE DEF p4, r4
<1>7. p5 \in Nat /\ r5 \in Nat
  BY <1>6, DivMod DEF p5, r5
<1> HIDE DEF p5, r5
<1>8. CASE r5 >= p5
  <2>1. r4 >= p4
    BY <1>2, <1>3, <1>6, <1>7, <1>8, DigitOrder, Zenon DEF p5, r5
  <2>2. r3 >= p3
    BY <1>2, <1>3, <1>5, <1>6, <2>1, DigitOrder, Zenon DEF p4, r4
  <2>3. r2 >= p2
    BY <1>1, <1>3, <1>4, <1>5, <2>2, DigitOrder, Zenon DEF p3, r3
  <2>4. r1 >= p1
    BY <1>1, <1>3, <1>4, <2>3, DigitOrder, Zenon DEF p2, r2
  <2>5. QED
    BY <1>4, <2>4 DEF p1, r1
<1>9. CASE p5 > r5
  <2>1. p5 >= r5 + 1
    BY <1>7, <1>9
  <2>2. p4 >= r4 + Fanout
    <3>1. p4 >= r4 + 1 * Fanout
      BY <1>2, <1>3, <1>6, <1>7, <2>1, DigitGap, Zenon DEF p5, r5
    <3>2. QED
      BY <1>3, <3>1
  <2>3. p3 >= r3 + Fanout * Fanout
    BY <1>2, <1>3, <1>5, <1>6, <2>2, DigitGap, Zenon DEF p4, r4
  <2>4. p2 >= r2 + Fanout * Fanout * Fanout
    BY <1>1, <1>3, <1>4, <1>5, <2>3, DigitGap, Zenon DEF p3, r3
  <2>5. p1 >= r1 + Fanout * Fanout * Fanout * Fanout
    BY <1>1, <1>3, <1>4, <2>4, DigitGap, Zenon DEF p2, r2
  <2>6. QED
    BY <2>5 DEF p1, r1
<1>10. QED
  BY <1>7, <1>8, <1>9, SMTT(40)

Within(a) == PageOf(a) \in Nat /\ PageOf(a) < Fanout * Fanout * Fanout * Fanout

LEMMA SamePageIs ==
  ASSUME NEW a, Within(a), NEW b, Within(b)
  PROVE  SamePage(a, b) <=> PageOf(a) = PageOf(b)
<1>1. PageOf(a) = PageOf(b) => SamePage(a, b)
  BY DEF SamePage, get_page_index
<1>2. ASSUME SamePage(a, b) PROVE PageOf(a) = PageOf(b)
  <2>1. PICK N \in Nat : N = Fanout * Fanout * Fanout * Fanout
    BY SpaceSize
  <2>2. PageOf(a) \in Nat /\ PageOf(a) < N /\ PageOf(b) \in Nat /\ PageOf(b) < N
    BY <2>1 DEF Within
  <2>3. SamePage(b, a)
    BY <1>2 DEF SamePage
  <2>4. PageOf(a) > PageOf(b) => PageOf(a) >= PageOf(b) + N
    BY <1>2, <2>1, <2>2, SpaceGap, SMTT(40)
  <2>5. PageOf(b) > PageOf(a) => PageOf(b) >= PageOf(a) + N
    BY <2>1, <2>2, <2>3, SpaceGap
  <2>6. QED
    BY <2>2, <2>4, <2>5
<1>3. QED
  BY <1>1, <1>2

LEMMA PageIs ==
  /\ \A p \in Nat : p * PAGE_SIZE \in Nat /\ PageOf(p * PAGE_SIZE) = p
  /\ \A a \in Nat : PageOf(a) \in Nat /\ PageOf(a + PAGE_SIZE) = PageOf(a) + 1
  BY PageSizeAssumption, SMTT(40) DEF PageOf

-----------------------------------------------------------------------------
(* Writing an entry of level 1 moves no table.                             *)
SameTables(u, u1) == PathsKept(u, u1) /\ DOMAIN u1.mem = DOMAIN u.mem

LEMMA LeafKeepsPaths ==
  ASSUME NEW root, NEW u, IsTable(root, u), NEW lv, IsTree(root, u.mem, lv),
         NEW f \in DOMAIN u.mem, lv[f] = 1, NEW i \in Indices, NEW e \in AllEntries
  PROVE  SameTables(u, SetEntry(u, f, i, e))
<1> DEFINE u1 == SetEntry(u, f, i, e)
<1>1. u1.mem = [u.mem EXCEPT ![f][i] = e] /\ IsTable(root, u1)
  <2>1. Tree(root, u1)
    BY LeafKeepsTree, SMTT(40)
  <2>2. u1 = [mem |-> [u.mem EXCEPT ![f][i] = e], lvl4 |-> root]
    BY SetEntryIs, SMTT(40)
  <2>3. QED
    BY <2>1, <2>2, SMTT(40) DEF Tree
<1>2. DOMAIN u1.mem = DOMAIN u.mem
  BY <1>1
<1>3. \A h \in DOMAIN u.mem : h # f => u1.mem[h] = u.mem[h]
  BY <1>1, SMTT(40) DEF IsTable, IsMem
<1> HIDE DEF u1
<1>4. \A c, j : (c = None \/ c \in DOMAIN u.mem) /\ c # f => Child(u1, c, j) = Child(u, c, j)
  BY <1>3 DEF Child
<1>5. ASSUME NEW q \in Nat, ~Reserved(q), NEW n \in 1..4
      PROVE  get_page_table(u1, n, q) = get_page_table(u, n, q)
  <2> DEFINE a3 == get_page_table(u, 3, q)
             a2 == get_page_table(u, 2, q)
  <2>1. /\ a3 = None \/ (a3 \in DOMAIN u.mem /\ lv[a3] = 3)
        /\ a2 = None \/ (a2 \in DOMAIN u.mem /\ lv[a2] = 2)
        /\ root \in DOMAIN u.mem /\ lv[root] = 4
    BY <1>5, PathIs, SMTT(40) DEF IsTree, HasLevels, IsTable, IsMem
  <2>2. f # None /\ root # f /\ a3 # f /\ a2 # f
    BY <2>1, SMTT(40) DEF IsTable, IsMem, None
  <2>a. /\ get_page_table(u, 4, q) = root /\ a3 = Child(u, root, get_page_index(4, q))
        /\ a2 = Child(u, a3, get_page_index(3, q))
        /\ get_page_table(u, 1, q) = Child(u, a2, get_page_index(2, q))
    BY LookupIs, SMTT(40)
  <2>b. /\ get_page_table(u1, 4, q) = root
        /\ get_page_table(u1, 3, q) = Child(u1, root, get_page_index(4, q))
        /\ get_page_table(u1, 2, q) = Child(u1, get_page_table(u1, 3, q), get_page_index(3, q))
        /\ get_page_table(u1, 1, q) = Child(u1, get_page_table(u1, 2, q), get_page_index(2, q))
    BY <1>1, LookupIs, SMTT(40)
  <2> HIDE DEF a3, a2
  <2>3. get_page_table(u1, 4, q) = root /\ get_page_table(u, 4, q) = root
    BY <2>a, <2>b, Zenon
  <2>4. get_page_table(u1, 3, q) = a3
    BY <1>4, <2>1, <2>2, <2>a, <2>b, Zenon
  <2>5. get_page_table(u1, 2, q) = a2
    BY <1>4, <2>1, <2>2, <2>4, <2>a, <2>b, Zenon
  <2>6. get_page_table(u1, 1, q) = get_page_table(u, 1, q)
    BY <1>4, <2>1, <2>2, <2>5, <2>a, <2>b, Zenon
  <2>7. n = 1 \/ n = 2 \/ n = 3 \/ n = 4
    BY SMTT(40)
  <2>8. QED
    BY <2>3, <2>4, <2>5, <2>6, <2>7, ZenonT(40) DEF a3, a2
<1>6. QED
  BY <1>2, <1>5, Zenon DEF SameTables, PathsKept, u1

-----------------------------------------------------------------------------
(* What a call did to the tables: none moved, and new ones are on the path *)
(* of the page.                                                            *)
GrewOnPath(u, u1, to, A) ==
  /\ PathsKept(u, u1)
  /\ \A f \in DOMAIN u1.mem \ DOMAIN u.mem :
       f \in A /\ ~Reserved(to) /\ \E n \in 1..3 : get_page_table(u1, n, to) = f

LEMMA MapGrows ==
  ASSUME NEW root, NEW u, Tree(root, u), NEW A, NEW pool, PoolFor(pool, u.mem, A), NEW from \in Nat, NEW to \in Nat,
         NEW flags \in PageTableFlags
  PROVE  GrewOnPath(u, map(u, pool, from, to, flags).t, to, A)
<1> DEFINE s == CreateLevels(u, pool, LowestLevel(u, to), to)
           i == get_page_index(1, to)
           e == Entry(from, flags)
           r == map(u, pool, from, to, flags)
<1>1. CASE Reserved(to)
  <2>1. r.t = u
    BY <1>1, ZenonT(40) DEF map, Reserved
  <2>2. QED
    BY <2>1, Zenon DEF GrewOnPath, PathsKept
<1>2. CASE ~Reserved(to)
  <2>1. PICK lv : IsTree(root, u.mem, lv)
    BY DEF Tree
  <2>2. Grew(u, s.t, to, A) /\ (Failed(root, s, A) \/ \E l1 : At(root, s, 1, l1, to, A))
    BY <1>2, <2>1, CreateLevelsIs, Zenon DEF Tree
  <2>3. r.t = s.t \/ (r.t = SetEntry(s.t, s.table, i, e) /\ s.out = "Ok")
    BY <1>2, Zenon DEF map, Reserved
  <2> HIDE DEF s, r
  <2>4. CASE r.t = s.t
    BY <1>2, <2>2, <2>4, ZenonT(40) DEF GrewOnPath, Grew, r
  <2>5. CASE r.t = SetEntry(s.t, s.table, i, e) /\ s.out = "Ok"
    <3>1. PICK l1 : At(root, s, 1, l1, to, A)
      BY <2>2, <2>5, SMTT(40) DEF Failed
    <3>2. /\ IsTable(root, s.t) /\ IsTree(root, s.t.mem, l1) /\ s.table \in DOMAIN s.t.mem
          /\ l1[s.table] = 1
      BY <3>1 DEF At
    <3>3. i \in Indices /\ e \in AllEntries
      BY IndexInTable, EntriesInSet
    <3>4. PathsKept(s.t, r.t) /\ DOMAIN r.t.mem = DOMAIN s.t.mem
      <4>1. SameTables(s.t, SetEntry(s.t, s.table, i, e))
        BY <3>2, <3>3, LeafKeepsPaths, ZenonT(40)
      <4>2. QED
        BY <2>5, <4>1, Zenon DEF SameTables
    <3>5. PathsKept(u, r.t)
      BY <2>2, <3>4, ZenonT(40) DEF Grew, PathsKept
    <3>6. ASSUME NEW f \in DOMAIN r.t.mem \ DOMAIN u.mem
          PROVE  f \in A /\ \E n \in 1..3 : get_page_table(r.t, n, to) = f
      <4>1. PICK n \in 1..3 : f \in A /\ f # None /\ get_page_table(s.t, n, to) = f
        BY <2>2, <3>4, Zenon DEF Grew
      <4>2. n \in 1..4
        OBVIOUS
      <4>3. QED
        BY <1>2, <3>4, <4>1, <4>2, SMTT(40) DEF PathsKept
    <3>7. QED
      BY <1>2, <3>5, <3>6, Zenon DEF GrewOnPath, r
  <2>6. QED
    BY <2>3, <2>4, <2>5, Zenon
<1>3. QED
  BY <1>1, <1>2

(* A page that was mapped has all its tables.                              *)
LEMMA MapReaches ==
  ASSUME NEW root, NEW u, Tree(root, u), NEW A, NEW pool, PoolFor(pool, u.mem, A), NEW from \in Nat, NEW to \in Nat,
         NEW flags \in PageTableFlags, map(u, pool, from, to, flags).out = "Ok"
  PROVE  ~Reserved(to) /\ get_page_table(map(u, pool, from, to, flags).t, 1, to) # None
<1> DEFINE s == CreateLevels(u, pool, LowestLevel(u, to), to)
           i == get_page_index(1, to)
           e == Entry(from, flags)
           r == map(u, pool, from, to, flags)
<1>1. ~Reserved(to) /\ r.t = SetEntry(s.t, s.table, i, e) /\ s.out = "Ok"
  BY ZenonT(40) DEF map, Reserved
<1>2. PICK lv : IsTree(root, u.mem, lv)
  BY DEF Tree
<1>3. Failed(root, s, A) \/ \E l1 : At(root, s, 1, l1, to, A)
  BY <1>1, <1>2, CreateLevelsIs, ZenonT(40) DEF Tree
<1> HIDE DEF s, r
<1>4. PICK l1 : At(root, s, 1, l1, to, A)
  BY <1>1, <1>3, SMTT(40) DEF Failed
<1>5. /\ IsTable(root, s.t) /\ IsTree(root, s.t.mem, l1) /\ s.table \in DOMAIN s.t.mem
      /\ l1[s.table] = 1 /\ s.table = get_page_table(s.t, 1, to)
  BY <1>4, Zenon DEF At
<1>6. i \in Indices /\ e \in AllEntries
  BY IndexInTable, EntriesInSet
<1>7. PathsKept(s.t, r.t)
  <2>1. SameTables(s.t, SetEntry(s.t, s.table, i, e))
    BY <1>5, <1>6, LeafKeepsPaths, ZenonT(40)
  <2>2. QED
    BY <1>1, <2>1, Zenon DEF SameTables
<1>8. get_page_table(s.t, 1, to) # None /\ 1 \in 1..4
  BY <1>5, SMTT(40) DEF IsTable, IsMem, None
<1>9. get_page_table(r.t, 1, to) # None
  BY <1>1, <1>7, <1>8, ZenonT(40) DEF PathsKept
<1>10. QED
  BY <1>1, <1>9 DEF r

LEMMA UnmapKeepsPaths ==
  ASSUME NEW root, NEW u, Tree(root, u), NEW to \in Nat, ~Reserved(to)
  PROVE  PathsKept(u, unmap(u, to).t) /\ DOMAIN unmap(u, to).t.mem = DOMAIN u.mem
<1> DEFINE f == get_page_table(u, 1, to)
           i == get_page_index(1, to)
<1>1. PICK lv : IsTree(root, u.mem, lv)
  BY DEF Tree
<1>2. \/ unmap(u, to).t = u
      \/ f # None /\ unmap(u, to).t = SetEntry(u, f, i, Unused)
  BY Zenon DEF unmap, is_unused, Lookup
<1>3. f # None => f \in DOMAIN u.mem /\ lv[f] = 1
  BY <1>1, PathIs DEF Tree
<1>4. i \in Indices /\ Unused \in AllEntries
  BY IndexInTable, EntriesInSet
<1>5. f # None => SameTables(u, SetEntry(u, f, i, Unused))
  BY <1>1, <1>3, <1>4, LeafKeepsPaths, ZenonT(40) DEF Tree
<1> HIDE DEF f, i
<1>6. QED
  BY <1>2, <1>5 DEF SameTables, PathsKept

LEMMA UpdateKeepsPaths ==
  ASSUME NEW root, NEW u, Tree(root, u), NEW to \in Nat, ~Reserved(to), NEW flags \in PageTableFlags
  PROVE  /\ PathsKept(u, update_flags(u, to, flags).t)
         /\ DOMAIN update_flags(u, to, flags).t.mem = DOMAIN u.mem
<1> DEFINE f == get_page_table(u, 1, to)
           i == get_page_index(1, to)
           e == Entry(u.mem[f][i].addr, flags)
<1>1. PICK lv : IsTree(root, u.mem, lv)
  BY DEF Tree
<1>2. \/ update_flags(u, to, flags).t = u
      \/ f # None /\ update_flags(u, to, flags).t = SetEntry(u, f, i, e)
  BY ZenonT(40) DEF update_flags, is_unused
<1>3. f # None => f \in DOMAIN u.mem /\ lv[f] = 1
  BY <1>1, PathIs DEF Tree
<1>4. i \in Indices
  BY IndexInTable
<1>5. f # None => e \in AllEntries
  <2>1. f # None => u.mem[f][i].addr \in Nat
    BY <1>3, <1>4 DEF Tree, IsTable, IsMem, AllEntries
  <2>2. QED
    BY <2>1, EntriesInSet, Zenon
<1>6. f # None => SameTables(u, SetEntry(u, f, i, e))
  BY <1>1, <1>3, <1>4, <1>5, LeafKeepsPaths, ZenonT(40) DEF Tree
<1> HIDE DEF f, i, e
<1>7. QED
  BY <1>2, <1>6 DEF SameTables, PathsKept

(* Addresses of one page have the same path.                               *)
LEMMA PathOfPage ==
  ASSUME NEW root, NEW u, IsTable(root, u), NEW to \in Nat
  PROVE  /\ Reserved(PageOf(to) * PAGE_SIZE) <=> Reserved(to)
         /\ \A n \in 1..3 :
              get_page_table(u, n, PageOf(to) * PAGE_SIZE) = get_page_table(u, n, to)
<1> DEFINE a == PageOf(to) * PAGE_SIZE
<1>1. PageOf(a) = PageOf(to)
  BY PageIs
<1> HIDE DEF a
<1>2. /\ get_page_index(2, a) = get_page_index(2, to)
      /\ get_page_index(3, a) = get_page_index(3, to)
      /\ get_page_index(4, a) = get_page_index(4, to)
  BY <1>1, IndexIs
<1>3. get_page_table(u, 3, a) = get_page_table(u, 3, to)
  BY <1>2, LookupIs, SMTT(40)
<1>4. get_page_table(u, 2, a) = get_page_table(u, 2, to)
  BY <1>2, <1>3, LookupIs, SMTT(40)
<1>5. get_page_table(u, 1, a) = get_page_table(u, 1, to)
  BY <1>2, <1>4, LookupIs
<1>6. \A n \in 1..3 : n = 1 \/ n = 2 \/ n = 3
  OBVIOUS
<1>7. QED
  BY <1>2, <1>3, <1>4, <1>5, <1>6, SMTT(40) DEF Reserved, a

-----------------------------------------------------------------------------
(* A function of a key has no more values than there are keys.             *)
Values(f, A) == {f[p] : p \in A}

LEMMA FewerValues ==
  ASSUME NEW A, IsFiniteSet(A), NEW k, NEW g, \A p, r \in A : k[p] = k[r] => g[p] = g[r]
  PROVE  /\ IsFiniteSet(Values(g, A)) /\ IsFiniteSet(Values(k, A))
         /\ Cardinality(Values(g, A)) <= Cardinality(Values(k, A))
<1> DEFINE K == {k[p] : p \in A}
           G == {g[p] : p \in A}
           c == [p \in A |-> k[p]]
           h == [x \in K |-> g[CHOOSE p \in A : k[p] = x]]
<1>1. c \in Surjection(A, K)
  BY DEF Surjection
<1>2. IsFiniteSet(K)
  <2> HIDE DEF c, K
  <2>1. QED
    BY <1>1, FS_Surjection
<1>3. \A p \in A : k[p] \in K /\ h[k[p]] = g[p]
  <2> TAKE p \in A
  <2>1. k[p] \in K
    OBVIOUS
  <2>2. (CHOOSE r \in A : k[r] = k[p]) \in A /\ k[CHOOSE r \in A : k[r] = k[p]] = k[p]
    OBVIOUS
  <2>3. QED
    BY <2>1, <2>2
<1>4. h \in Surjection(K, G)
  <2>1. \A x \in K : h[x] \in G
    BY <1>3, Zenon
  <2>2. ASSUME NEW y \in G PROVE \E x \in K : h[x] = y
    <3>1. PICK p \in A : y = g[p]
      OBVIOUS
    <3>2. k[p] \in K /\ h[k[p]] = y
      BY <1>3, <3>1
    <3> HIDE DEF h, K
    <3>3. QED
      BY <3>2
  <2>3. h = [x \in K |-> h[x]]
    OBVIOUS
  <2> HIDE DEF h, K, G
  <2>4. QED
    BY <2>1, <2>2, <2>3 DEF Surjection
<1> HIDE DEF h, K, G
<1>5. IsFiniteSet(G) /\ Cardinality(G) <= Cardinality(K)
  BY <1>2, <1>4, FS_Surjection
<1>6. QED
  BY <1>2, <1>5 DEF G, K, Values
=============================================================================
