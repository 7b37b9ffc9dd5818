-------------------------- MODULE BitmapAllocator --------------------------
(***************************************************************************)
(* One BitmapAllocator and its callers.  At boot the owner flags ranges    *)
(* (BitmapFrameAllocator::new clears the usable memory, init_memory marks  *)
(* what the boot used); from then on clients allocate and free.            *)
(*                                                                         *)
(* held and clash are history variables: the positions that clients own,   *)
(* and the positions that were granted although they were marked as used.  *)
(***************************************************************************)
EXTENDS Bitmap

CONSTANTS
  Bytes,        \* length of the bitmap, the "size" given to new
  SetupRanges,  \* the flag_range calls of the boot, as <<lo, hi, flag>>
  Requests,     \* sizes that clients ask for
  FreeEnds,     \* positions and range ends that clients free
  MaxSetup      \* bound: flag_range calls before the first client

ASSUME BytesAssumption == Bytes \in Nat \ {0}
ASSUME SetupAssumption ==
  \A r \in SetupRanges : r \in Nat \X Nat \X BOOLEAN /\ r[1] <= r[2]
ASSUME RequestsAssumption == Requests \subseteq Nat
ASSUME FreeAssumption == FreeEnds \subseteq Nat
ASSUME MaxSetupAssumption == MaxSetup \in Nat

VARIABLES
  al,     \* the allocator, [bits, size, last]
  call,   \* the last call and its outcome, [op, lo, hi, out]
  setup,  \* flag_range calls so far
  held,   \* history: positions granted and not freed
  clash   \* history: positions granted while marked as used

vars == <<al, call, setup, held, clash>>

Call(op, lo, hi, out) == [op |-> op, lo |-> lo, hi |-> hi, out |-> out]

Halted == call.out = "panic"

Booting == call.op \in {"new", "flag_range"}

(* Both owners in the kernel create their allocator with set_at_init.      *)
Init ==
  /\ al = New(Bytes, TRUE)
  /\ call = Call("new", 0, 0, "Ok")
  /\ setup = 0
  /\ held = {}
  /\ clash = {}

FlagRange(lo, hi, flag) ==
  /\ ~Halted /\ Booting /\ setup < MaxSetup
  /\ LET r == flag_range(al, lo, hi, flag)
     IN  al' = r.a /\ call' = Call("flag_range", lo, hi, r.out)
  /\ setup' = setup + 1
  /\ UNCHANGED <<held, clash>>

Alloc(bits) ==
  /\ ~Halted
  /\ LET r     == alloc(al, bits)
         range == r.start..(r.start + bits - 1)
         ok    == r.out = "Ok"
     IN  /\ al' = r.a
         /\ call' = Call("alloc", r.start, r.start + bits, r.out)
         /\ held' = IF ok THEN held \cup range ELSE held
         /\ clash' = IF ok THEN clash \cup (range \cap al.bits) ELSE clash
  /\ UNCHANGED setup

Free(bit) ==
  /\ ~Halted
  /\ LET r == free(al, bit)
     IN  /\ al' = r.a
         /\ call' = Call("free", bit, bit + 1, r.out)
         /\ held' = IF r.out = "Ok" THEN held \ {bit} ELSE held
  /\ UNCHANGED <<setup, clash>>

FreeRange(lo, hi) ==
  /\ ~Halted
  /\ lo <= hi
  /\ LET r == free_range(al, lo, hi)
     IN  /\ al' = r.a
         /\ call' = Call("free_range", lo, hi, r.out)
         /\ held' = IF r.out = "Ok" THEN held \ (lo..(hi - 1)) ELSE held
  /\ UNCHANGED <<setup, clash>>

(* panic_handler halts the processor and loops.                            *)
Halt == Halted /\ UNCHANGED vars

Next ==
  \/ \E r \in SetupRanges : FlagRange(r[1], r[2], r[3])
  \/ \E bits \in Requests : Alloc(bits)
  \/ \E bit \in FreeEnds : Free(bit)
  \/ \E lo, hi \in FreeEnds : FreeRange(lo, hi)
  \/ Halt

Spec == Init /\ [][Next]_vars

-----------------------------------------------------------------------------
Operations == {"new", "flag_range", "alloc", "free", "free_range"}

(* The bitmap only holds positions of its own bytes, its size never        *)
(* changes, and the histories speak of positions.                          *)
TypeOK ==
  /\ al \in [bits : SUBSET (0..(8 * Bytes - 1)), size : {8 * Bytes}, last : Nat]
  /\ call \in [op : Operations, lo : Nat, hi : Nat, out : Outcomes]
  /\ setup \in Nat
  /\ held \subseteq Nat
  /\ clash \subseteq Nat

(* alloc (bitmap_allocator.rs:59): what a client owns is a position of the *)
(* bitmap that is marked as used, whatever is allocated and freed in       *)
(* between.                                                                *)
HeldMarked == held \subseteq al.bits

(* free (bitmap_allocator.rs:119) answers DoubleFree for a position that   *)
(* is in use, and so does free_range (:134) unless it stops in todo!():    *)
(* once the boot is over no call clears a mark, and none tells an owner    *)
(* that a position was given back.                                         *)
NothingComesBack == [][~Booting' => al.bits \subseteq al'.bits /\ held \subseteq held']_vars

(* alloc: no grant covers a position already marked as used, so no two     *)
(* clients own the same position and none owns what the boot reserved.     *)
NoClash == clash = {}

(* The cursor of scan_bits (bitmap_allocator.rs:80) is inside the bitmap,  *)
(* or beyond the limit of the scan, where no allocation succeeds again.    *)
CursorInsideOrDead ==
  ~Halted => al.last <= al.size \/ al.last > 8 * al.size

(* Start of a run of "n" clear positions inside the bitmap.                *)
ClearRun(n) ==
  \E s \in 0..(al.size - n) : s..(s + n - 1) \cap al.bits = {}

(* scan (bitmap_allocator.rs:67): an allocation of up to 16 positions      *)
(* answers AllocationError only when the bitmap has no run of that many    *)
(* clear positions, rounded up to whole bytes: the scan starts at the      *)
(* cursor, but wraps.  Once the cursor is dead it says nothing.            *)
FailureIsTruthful ==
  /\ call.op = "alloc"
  /\ call.out = "AllocationError"
  /\ al.last <= al.size
  => ~ClearRun(AlignUp(call.hi - call.lo))

(* "tries to find *bits* free space" (bitmap_allocator.rs:66): whatever    *)
(* calls came before, AllocationError means that there is none.            *)
FailureMeansFull ==
  call.op = "alloc" /\ call.out = "AllocationError" => ~ClearRun(AlignUp(call.hi - call.lo))
=============================================================================
