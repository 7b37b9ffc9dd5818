----------------------- MODULE AllocatedMemoryProofs -----------------------
(***************************************************************************)
(* What AllocatedMemory and the controller under it promise for every page *)
(* size, fanout, size of the two bitmaps and sequence of calls.            *)
(***************************************************************************)
EXTENDS AllocatedMemory, MemoryLemmas

Last == 8 * PageBytes - 1

Chunks ==
  [op : {"new", "reserve", "raw"}, virt : Nat, phys : Nat, size : Nat, flags : PageTableFlags]

(* The number of the first page of an allocation.                          *)
First(c) == (c.virt - PAGE_ALLOCATOR_START) \div PAGE_SIZE

PageAt(p) == PAGE_ALLOCATOR_START + p * PAGE_SIZE

(* An allocation begins at a page of the allocator, and all are marked.    *)
IsChunk(c, marked) ==
  c \in Chunks /\ First(c) \in Nat /\ c.virt = PageAt(First(c)) /\ Positions(c) \subseteq marked

CallOk ==
  \/ call = Idle
  \/ /\ call = [op |-> call.op, chunk |-> call.chunk, done |-> call.done]
     /\ call.op \in {"map", "unmap"} /\ IsChunk(call.chunk, va.bits) /\ call.done \in 0..Pages(call.chunk)

FramesOf(frames, S) == frames \in Seq(Nat) /\ \A i \in 1..Len(frames) : frames[i] \in S

Distinct(frames) == \A i, j \in 1..Len(frames) : i # j => frames[i] # frames[j]

(* The first inductive invariant, for requests of any size: the tables are *)
(* a tree in frames that are marked, and what callers hold is marked.      *)
MarkedInv ==
  /\ published \in BOOLEAN /\ out \in Outs
  /\ fa \in Allocators(FrameBytes) /\ va \in Allocators(PageBytes)
  /\ Tree(Root, t) /\ DOMAIN t.mem \subseteq fa.bits \cup {Root}
  /\ FramesOf(granted, fa.bits) /\ CallOk
  /\ \A c \in chunks : IsChunk(c, va.bits)

MappedFrom(u, c, from, to) ==
  \A k \in from..(to - 1) :
    Lookup(u, PageAt(First(c) + k)) = Entry(c.phys + k * PAGE_SIZE, c.flags)

UnusedFrom(u, c, from) ==
  \A k \in from..(Pages(c) - 1) : Lookup(u, PageAt(First(c) + k)) = Unused

Apart(c, d) == Positions(c) \cap Positions(d) = {}

MappedIn(u, marked) == \A p \in 0..Last : Lookup(u, PageAt(p)) # Unused => p \in marked

(* The second: pages have one owner, and a call that maps has mapped what  *)
(* it has done and nothing of what it has left.                            *)
OwnedInv ==
  /\ \A c, d \in chunks : c # d => Apart(c, d)
  /\ \A c \in chunks : MappedFrom(t, c, 0, Pages(c))
  /\ call # Idle => \A c \in chunks : Apart(c, call.chunk)
  /\ call.op = "map" => MappedFrom(t, call.chunk, 0, call.done) /\ UnusedFrom(t, call.chunk, call.done)
  /\ MappedIn(t, va.bits)
  /\ Distinct(granted)
  /\ out \notin {"AlreadyMapped", "AttemptedMappingToReserved"}

-----------------------------------------------------------------------------
(* Pages of the allocator.                                                 *)
LEMMA PageAtIs ==
  /\ \A p \in Nat : PageAt(p) \in Nat /\ PageOf(PageAt(p)) = PageOf(PAGE_ALLOCATOR_START) + p
  /\ \A p \in 0..Last : ~Reserved(PageAt(p))
  /\ PageOf(PAGE_ALLOCATOR_START) \in Nat /\ Last \in Nat
<1>1. PAGE_SIZE \in Nat /\ PAGE_SIZE > 0 /\ PAGE_ALLOCATOR_START \in Nat
  BY PageSizeAssumption, SpaceAssumption
<1>2. PICK b \in Nat : b = PAGE_ALLOCATOR_START \div PAGE_SIZE
  BY <1>1
<1>3. PAGE_ALLOCATOR_START = b * PAGE_SIZE
  <2>1. PAGE_ALLOCATOR_START % PAGE_SIZE = 0
    BY SpaceAssumption DEF Aligned
  <2>2. QED
    BY <1>1, <1>2, <2>1
<1>4. ASSUME NEW p \in Nat
      PROVE  PageAt(p) \in Nat /\ PageOf(PageAt(p)) = b + p
  <2>1. PageAt(p) = (b + p) * PAGE_SIZE
    BY <1>1, <1>3 DEF PageAt
  <2>2. b + p \in Nat
    OBVIOUS
  <2>3. QED
    BY <2>1, <2>2, PageIs
<1>5. \A p \in 0..Last : ~Reserved(PageAt(p))
  BY SpaceAssumption DEF Last, PageAt
<1>6. Last \in Nat
  BY BytesAssumption DEF Last
<1>7. QED
  BY <1>2, <1>4, <1>5, <1>6 DEF PageOf

LEMMA OnePosition ==
  ASSUME NEW p \in 0..Last, NEW q \in 0..Last, SamePage(PageAt(p), PageAt(q))
  PROVE  p = q
<1>1. PICK N \in Nat : N = Fanout * Fanout * Fanout * Fanout
  BY SpaceSize
<1>2. Last < N /\ p \in Nat /\ q \in Nat /\ Last \in Nat
  BY <1>1, SpaceAssumption, BytesAssumption DEF Last
<1>3. PICK b \in Nat : /\ PageOf(PageAt(p)) = b + p
                       /\ PageOf(PageAt(q)) = b + q
  BY <1>2, PageAtIs, Zenon
<1>4. SamePage(PageAt(q), PageAt(p))
  BY DEF SamePage
<1>5. b + p > b + q => b + p >= b + q + N
  BY <1>1, <1>2, <1>3, SpaceGap
<1>6. b + q > b + p => b + q >= b + p + N
  BY <1>1, <1>2, <1>3, <1>4, SpaceGap
<1>7. QED
  BY <1>2, <1>5, <1>6

LEMMA PagesIs ==
  /\ \A size \in Nat : div_ceil(size) \in Nat
  /\ \A n \in Nat : div_ceil(n * PAGE_SIZE) = n
<1>1. PAGE_SIZE \in Nat /\ PAGE_SIZE > 0
  BY PageSizeAssumption
<1>2. \A size \in Nat : div_ceil(size) \in Nat
  BY <1>1 DEF div_ceil
<1>3. ASSUME NEW n \in Nat PROVE div_ceil(n * PAGE_SIZE) = n
  <2>1. n * PAGE_SIZE \in Nat
    BY <1>1
  <2>2. (n * PAGE_SIZE + (PAGE_SIZE - 1)) \div PAGE_SIZE = n
    BY <1>1, <2>1
  <2>3. n * PAGE_SIZE + PAGE_SIZE - 1 = n * PAGE_SIZE + (PAGE_SIZE - 1)
    BY <1>1, <2>1
  <2>4. QED
    BY <2>2, <2>3 DEF div_ceil
<1>4. QED
  BY <1>2, <1>3

(* The pages of an allocation, by their positions.                         *)
LEMMA ChunkPages ==
  ASSUME NEW c, IsChunk(c, va.bits), va \in Allocators(PageBytes)
  PROVE  /\ Pages(c) \in Nat /\ First(c) \in Nat
         /\ Positions(c) = First(c)..(First(c) + Pages(c) - 1)
         /\ \A k \in 0..(Pages(c) - 1) :
              /\ First(c) + k \in Positions(c) /\ First(c) + k \in 0..Last /\ First(c) + k \in va.bits
              /\ c.virt + k * PAGE_SIZE = PageAt(First(c) + k)
              /\ c.phys + k * PAGE_SIZE \in Nat
<1>1. /\ c \in Chunks /\ First(c) \in Nat /\ c.virt = PageAt(First(c))
      /\ Positions(c) \subseteq va.bits
  BY DEF IsChunk
<1>2. Pages(c) \in Nat
  BY <1>1, PagesIs DEF Pages, Chunks
<1>3. Positions(c) = First(c)..(First(c) + Pages(c) - 1)
  BY DEF Positions, First
<1>4. va.bits \subseteq 0..Last
  BY DEF Allocators, Last
<1>5. PAGE_SIZE \in Nat /\ PAGE_ALLOCATOR_START \in Nat /\ c.phys \in Nat
  BY <1>1, PageSizeAssumption, SpaceAssumption DEF Chunks
<1>6. ASSUME NEW k \in 0..(Pages(c) - 1)
      PROVE  /\ First(c) + k \in Positions(c)
             /\ c.virt + k * PAGE_SIZE = PageAt(First(c) + k)
             /\ c.phys + k * PAGE_SIZE \in Nat
  <2>1. First(c) + k \in Positions(c)
    BY <1>1, <1>2, <1>3
  <2>2. (First(c) + k) * PAGE_SIZE = First(c) * PAGE_SIZE + k * PAGE_SIZE
        /\ First(c) * PAGE_SIZE \in Nat /\ k * PAGE_SIZE \in Nat
    BY <1>1, <1>5
  <2>3. QED
    BY <1>1, <1>5, <2>1, <2>2 DEF PageAt
<1>7. QED
  BY <1>1, <1>2, <1>3, <1>4, <1>6

-----------------------------------------------------------------------------
(* Frames handed out one call after another.                               *)
LEMMA Joined ==
  ASSUME NEW S, NEW v, NEW w, FramesOf(v, S), FramesOf(w, S)
  PROVE  FramesOf(v \o w, S)
<1>1. v \in Seq(Nat) /\ w \in Seq(Nat) /\ Len(v) \in Nat /\ Len(w) \in Nat
  BY DEF FramesOf
<1>2. /\ v \o w \in Seq(Nat) /\ Len(v \o w) = Len(v) + Len(w)
      /\ \A i \in 1..(Len(v) + Len(w)) : (v \o w)[i] = IF i <= Len(v) THEN v[i] ELSE w[i - Len(v)]
  BY <1>1
<1>3. ASSUME NEW i \in 1..Len(v \o w) PROVE (v \o w)[i] \in S
  <2>1. CASE i <= Len(v)
    BY <1>1, <1>2, <2>1 DEF FramesOf
  <2>2. CASE i > Len(v)
    <3>1. i - Len(v) \in 1..Len(w) /\ (v \o w)[i] = w[i - Len(v)]
      BY <1>1, <1>2, <2>2
    <3>2. QED
      BY <3>1 DEF FramesOf
  <2>3. QED
    BY <1>1, <1>2, <2>1, <2>2
<1>4. QED
  BY <1>2, <1>3 DEF FramesOf

LEMMA JoinedDistinct ==
  ASSUME NEW S, NEW v, NEW w, FramesOf(v, S), FramesOf(w, Nat),
         Distinct(v), Distinct(w), \A i \in 1..Len(w) : w[i] \notin S
  PROVE  Distinct(v \o w)
<1>1. v \in Seq(Nat) /\ w \in Seq(Nat) /\ Len(v) \in Nat /\ Len(w) \in Nat
  BY DEF FramesOf
<1>2. /\ Len(v \o w) = Len(v) + Len(w)
      /\ \A i \in 1..(Len(v) + Len(w)) : (v \o w)[i] = IF i <= Len(v) THEN v[i] ELSE w[i - Len(v)]
  BY <1>1
<1>3. ASSUME NEW i \in 1..(Len(v) + Len(w))
      PROVE  \/ i \in 1..Len(v) /\ (v \o w)[i] = v[i] /\ (v \o w)[i] \in S
             \/ i - Len(v) \in 1..Len(w) /\ (v \o w)[i] = w[i - Len(v)] /\ (v \o w)[i] \notin S
  BY <1>1, <1>2 DEF FramesOf
<1>4. ASSUME NEW i \in 1..(Len(v) + Len(w)), NEW j \in 1..(Len(v) + Len(w)), i # j
      PROVE  (v \o w)[i] # (v \o w)[j]
  <2>1. CASE i \in 1..Len(v) /\ j \in 1..Len(v)
    BY <1>1, <1>2, <1>4, <2>1, SMTT(40) DEF Distinct
  <2>2. CASE i - Len(v) \in 1..Len(w) /\ j - Len(v) \in 1..Len(w)
    <3>1. i - Len(v) # j - Len(v)
      BY <1>1, <1>4
    <3>2. (v \o w)[i] = w[i - Len(v)] /\ (v \o w)[j] = w[j - Len(v)]
      BY <1>1, <1>2, <2>2, SMTT(40)
    <3>3. QED
      BY <2>2, <3>1, <3>2 DEF Distinct
  <2>3. QED
    BY <1>3, <2>1, <2>2
<1>5. QED
  BY <1>2, <1>4 DEF Distinct

LEMMA Widened ==
  ASSUME NEW S, NEW T, S \subseteq T, NEW v, FramesOf(v, S)
  PROVE  FramesOf(v, T)
  BY DEF FramesOf

(* The controller in the middle of a call, before the table is touched.    *)
Holding(s) ==
  /\ s \in [ t : {t}, fa : Allocators(FrameBytes), va : Allocators(PageBytes), took : Seq(Nat),
             out : Outs \ {"AlreadyMapped", "AttemptedMappingToReserved"} ]
  /\ fa.bits \subseteq s.fa.bits /\ va.bits \subseteq s.va.bits /\ FramesOf(s.took, s.fa.bits)

(* What it took are frames that were clear, each once.                     *)
TookClear(s) == Distinct(s.took) /\ \A i \in 1..Len(s.took) : s.took[i] \notin fa.bits

LEMMA ControllerHolds ==
  ASSUME fa \in Allocators(FrameBytes), va \in Allocators(PageBytes)
  PROVE  Holding(Controller) /\ TookClear(Controller) /\ Controller.va = va
<1>1. Controller = [t |-> t, fa |-> fa, va |-> va, took |-> <<>>, out |-> "Ok"]
  BY DEF Controller
<1>2. FramesOf(<<>>, fa.bits)
  BY DEF FramesOf
<1>3. QED
  BY <1>1, <1>2 DEF Holding, TookClear, Distinct, Outs

LEMMA TakeFrames ==
  ASSUME NEW s, Holding(s), NEW pages \in Nat
  PROVE  LET s1 == AllocFrames(s, pages)
         IN  Holding(s1) /\ s1.va = s.va /\ (TookClear(s) /\ pages <= 16 => TookClear(s1))
<1> DEFINE r  == alloc(s.fa, pages)
           w  == [i \in 1..pages |-> r.start + i - 1]
           s1 == AllocFrames(s, pages)
<1>1. Allocated(FrameBytes, s.fa, pages, r)
  BY AllocEffect, BytesAssumption, ZenonT(40) DEF Holding
<1> DEFINE took == IF r.out = "Ok" THEN s.took \o w ELSE s.took
<1>2. s1 = [s EXCEPT !.fa = r.a, !.out = r.out, !.took = took]
  BY DEF AllocFrames
<1> HIDE DEF r, s1
<1>3. /\ r.a \in Allocators(FrameBytes) /\ r.start \in Nat /\ r.out \in Outcomes
      /\ s.fa.bits \subseteq r.a.bits
      /\ r.out = "Ok" => Granted(r, pages) \subseteq r.a.bits
      /\ r.out = "Ok" /\ pages <= 16 => Granted(r, pages) \cap s.fa.bits = {}
  BY <1>1 DEF Allocated
<1>4. w \in Seq(Nat) /\ Len(w) = pages /\ \A i \in 1..pages : w[i] \in Granted(r, pages)
  BY <1>3 DEF Granted
<1>5. Distinct(w)
  BY <1>3, <1>4, SMTT(40) DEF Distinct
<1>6. FramesOf(s.took, r.a.bits) /\ FramesOf(s.took, s.fa.bits)
  BY <1>3, Widened DEF Holding
<1>7. r.out = "Ok" => FramesOf(w, r.a.bits)
  BY <1>3, <1>4 DEF FramesOf
<1>8. took \in Seq(Nat) /\ FramesOf(took, r.a.bits)
  BY <1>6, <1>7, Joined, SMTT(40) DEF FramesOf
<1>9. Holding(s1) /\ s1.va = s.va /\ s1.took = took
  <2>1. r.out \in Outs \ {"AlreadyMapped", "AttemptedMappingToReserved"}
    BY <1>3 DEF Outcomes, Outs
  <2> HIDE DEF took
  <2>2. s1.fa = r.a /\ s1.took = took /\ s1.va = s.va
    BY <1>2 DEF Holding
  <2>3. s1 \in [ t : {t}, fa : Allocators(FrameBytes), va : Allocators(PageBytes), took : Seq(Nat),
                 out : Outs \ {"AlreadyMapped", "AttemptedMappingToReserved"} ]
    BY <1>2, <1>3, <1>8, <2>1, Zenon DEF Holding
  <2>4. QED
    BY <1>3, <1>8, <2>2, <2>3, SMTT(40) DEF Holding
<1>10. ASSUME TookClear(s), pages <= 16 PROVE TookClear(s1)
  <2>1. CASE r.out # "Ok"
    BY <1>9, <1>10, <2>1, SMTT(40) DEF TookClear
  <2>2. CASE r.out = "Ok"
    <3>1. \A i \in 1..Len(w) : w[i] \notin s.fa.bits
      BY <1>3, <1>4, <1>10, <2>2, SMTT(40)
    <3>2. FramesOf(w, Nat)
      BY <1>4 DEF FramesOf
    <3>3. Distinct(s1.took)
      BY <1>5, <1>6, <1>9, <1>10, <2>2, <3>1, <3>2, JoinedDistinct, ZenonT(40) DEF TookClear
    <3>4. \A i \in 1..Len(w) : w[i] \in Nat \ fa.bits
      <4>1. \A i \in 1..Len(w) : w[i] \in Nat
        BY <3>2 DEF FramesOf
      <4>2. fa.bits \subseteq s.fa.bits
        BY DEF Holding
      <4> HIDE DEF w
      <4>3. QED
        BY <3>1, <4>1, <4>2
    <3>5. FramesOf(w, Nat \ fa.bits) /\ FramesOf(s.took, Nat \ fa.bits)
      <4>1. FramesOf(w, Nat \ fa.bits)
        BY <3>2, <3>4, ZenonT(40) DEF FramesOf
      <4>2. s.took \in Seq(Nat) /\ \A i \in 1..Len(s.took) : s.took[i] \in Nat
        BY DEF Holding, FramesOf
      <4>3. \A i \in 1..Len(s.took) : s.took[i] \notin fa.bits
        BY <1>10, Zenon DEF TookClear
      <4>4. QED
        BY <4>1, <4>2, <4>3, Zenon DEF FramesOf
    <3>6. FramesOf(s1.took, Nat \ fa.bits)
      BY <1>9, <2>2, <3>5, Joined, SMTT(40)
    <3>7. QED
      BY <3>3, <3>6, SMTT(40) DEF TookClear, FramesOf
  <2>3. QED
    BY <2>1, <2>2
<1>11. QED
  BY <1>9, <1>10 DEF s1

LEMMA AskFrameHolds ==
  ASSUME NEW s, Holding(s), TookClear(s)
  PROVE  Holding(AskFrame(s)) /\ TookClear(AskFrame(s)) /\ AskFrame(s).va = s.va
<1>1. Holding(AllocFrames(s, 1)) /\ TookClear(AllocFrames(s, 1)) /\ AllocFrames(s, 1).va = s.va
  BY TakeFrames, SMTT(40)
<1>2. QED
  BY <1>1 DEF AskFrame, Then

LEMMA AskFramesHolds ==
  ASSUME NEW s, Holding(s), TookClear(s), NEW n
  PROVE  Holding(AskFrames(s, n)) /\ TookClear(AskFrames(s, n)) /\ AskFrames(s, n).va = s.va
<1> DEFINE s1 == IF n >= 1 THEN AskFrame(s) ELSE s
           s2 == IF n >= 2 THEN AskFrame(s1) ELSE s1
           s3 == IF n >= 3 THEN AskFrame(s2) ELSE s2
<1>1. Holding(s1) /\ TookClear(s1) /\ s1.va = s.va
  BY AskFrameHolds, SMTT(40)
<1> HIDE DEF s1
<1>2. Holding(s2) /\ TookClear(s2) /\ s2.va = s.va
  BY <1>1, AskFrameHolds, SMTT(40)
<1> HIDE DEF s2
<1>3. Holding(s3) /\ TookClear(s3) /\ s3.va = s.va
  BY <1>2, AskFrameHolds, SMTT(40)
<1>4. AskFrames(s, n) = s3
  BY DEF AskFrames, s2, s1
<1>5. QED
  BY <1>3, <1>4, SMTT(40)

LEMMA TakePages ==
  ASSUME NEW s, Holding(s), NEW pages \in Nat
  PROVE  LET s1 == AllocPages(s, pages)
             r  == alloc(s.va, pages)
         IN  /\ Holding(s1) /\ s1.took = s.took /\ s1.va = r.a /\ s1.out = r.out
             /\ Allocated(PageBytes, s.va, pages, r)
<1> DEFINE r  == alloc(s.va, pages)
           s1 == AllocPages(s, pages)
<1>1. Allocated(PageBytes, s.va, pages, r)
  BY AllocEffect, BytesAssumption, Zenon DEF Holding
<1>2. s1 = [s EXCEPT !.va = r.a, !.out = r.out]
  BY DEF AllocPages
<1> HIDE DEF r, s1
<1>3. r.a \in Allocators(PageBytes) /\ s.va.bits \subseteq r.a.bits /\ r.out \in Outcomes
  BY <1>1 DEF Allocated
<1>4. Holding(s1) /\ s1.took = s.took /\ s1.va = r.a /\ s1.out = r.out
  <2>1. r.out \in Outs \ {"AlreadyMapped", "AttemptedMappingToReserved"}
    BY <1>3 DEF Outcomes, Outs
  <2>2. s1.fa = s.fa /\ s1.took = s.took /\ s1.va = r.a /\ s1.out = r.out
    BY <1>2 DEF Holding
  <2>3. s1 \in [ t : {t}, fa : Allocators(FrameBytes), va : Allocators(PageBytes), took : Seq(Nat),
                 out : Outs \ {"AlreadyMapped", "AttemptedMappingToReserved"} ]
    BY <1>2, <1>3, <2>1, ZenonT(40) DEF Holding
  <2>4. QED
    BY <1>3, <2>2, <2>3, SMTT(40) DEF Holding
<1>5. QED
  BY <1>1, <1>4 DEF r, s1

-----------------------------------------------------------------------------
(* Initially nothing is held.                                              *)
LEMMA ClearedIs ==
  ASSUME NEW bytes \in Nat \ {0}, NEW ranges
  PROVE  Cleared(bytes, ranges) \in Allocators(bytes)
  BY DEF Cleared, New, Allocators

LEMMA MarkedInvInit == Init => MarkedInv
<1> SUFFICES ASSUME Init PROVE MarkedInv
  OBVIOUS
<1>1. fa \in Allocators(FrameBytes) /\ va \in Allocators(PageBytes)
  BY ClearedIs, BytesAssumption DEF Init
<1>2. Tree(Root, t)
  BY NewIsTree, RootAssumption, SMTT(40) DEF Init
<1>3. DOMAIN t.mem = {Root}
  BY DEF Init, new
<1>4. FramesOf(granted, fa.bits)
  BY DEF Init, FramesOf
<1>5. QED
  BY <1>1, <1>2, <1>3, <1>4, Zenon DEF Init, MarkedInv, CallOk, Outs

(* Positions that stay marked keep an allocation what it is.               *)
LEMMA ChunkKept ==
  ASSUME NEW marked, NEW marked1, marked \subseteq marked1, NEW c, IsChunk(c, marked)
  PROVE  IsChunk(c, marked1)
  BY DEF IsChunk

(* The allocation that alloc_contiguous makes room for.                    *)
LEMMA NewChunk ==
  ASSUME va \in Allocators(PageBytes), NEW c \in Chunks, c.virt = NextPage(Pages(c)),
         alloc(va, Pages(c)).out = "Ok"
  PROVE  /\ IsChunk(c, alloc(va, Pages(c)).a.bits)
         /\ Pages(c) <= 16 => Positions(c) \cap va.bits = {}
<1> DEFINE n == Pages(c)
           r == alloc(va, n)
<1>1. n \in Nat
  BY PagesIs DEF Pages, Chunks
<1>2. Allocated(PageBytes, va, n, r)
  BY <1>1, AllocEffect, BytesAssumption, Zenon
<1>3. c.virt = PAGE_ALLOCATOR_START + PAGE_SIZE * r.start /\ r.out = "Ok"
  BY DEF NextPage
<1> HIDE DEF r
<1>4. /\ r.start \in Nat /\ Granted(r, n) \subseteq r.a.bits
      /\ n <= 16 => Granted(r, n) \cap va.bits = {}
  BY <1>2, <1>3 DEF Allocated
<1>5. First(c) = r.start /\ c.virt = PageAt(r.start)
  <2>1. PAGE_SIZE \in Nat /\ PAGE_SIZE > 0 /\ PAGE_ALLOCATOR_START \in Nat
    BY PageSizeAssumption, SpaceAssumption, SMTT(40)
  <2>2. PAGE_SIZE * r.start = r.start * PAGE_SIZE /\ r.start * PAGE_SIZE \in Nat
    BY <1>4, <2>1, SMTT(40)
  <2>3. c.virt - PAGE_ALLOCATOR_START = r.start * PAGE_SIZE
    BY <1>3, <2>1, <2>2, SMTT(40)
  <2>4. (r.start * PAGE_SIZE) \div PAGE_SIZE = r.start
    BY <1>4, PageIs, SMTT(40) DEF PageOf
  <2>5. QED
    BY <1>3, <2>2, <2>3, <2>4, SMTT(40) DEF First, PageAt
<1>6. Positions(c) = Granted(r, n)
  BY <1>5, SMTT(40) DEF Positions, First, Granted
<1>7. IsChunk(c, r.a.bits)
  <2>1. c \in Chunks /\ First(c) \in Nat /\ c.virt = PageAt(First(c)) /\ Positions(c) \subseteq r.a.bits
    BY <1>3, <1>4, <1>5, <1>6, SMTT(40)
  <2>2. QED
    BY <2>1, SMTT(40) DEF IsChunk
<1>8. QED
  BY <1>4, <1>6, <1>7, SMTT(40) DEF r

-----------------------------------------------------------------------------
(* The three calls that make an allocation, up to their loop.              *)
Begun(s, c) ==
  /\ UNCHANGED <<t, published, chunks>> /\ va.bits \subseteq va'.bits
  /\ granted' = granted \o s.took /\ Holding(s)
  /\ out' \notin {"AlreadyMapped", "AttemptedMappingToReserved"}
  /\ \/ call' = Idle
     \/ /\ call' = Call("map", c) /\ c \in Chunks
        /\ Pages(c) <= 16 => Positions(c) \cap va.bits = {}

LEMMA BeginKeepsMarked ==
  ASSUME MarkedInv, NEW s, Holding(s), s.va = va, NEW c \in Chunks, c.virt = NextPage(Pages(c)),
         AllocPagesAndMap(s, c)
  PROVE  MarkedInv' /\ Begun(s, c)
<1> DEFINE n  == Pages(c)
           s2 == AllocPages(s, n)
           s1 == Then(s, s2)
<1>1. n \in Nat
  BY PagesIs, SMTT(40) DEF Pages, Chunks
<1>2. /\ fa' = s1.fa /\ va' = s1.va /\ out' = s1.out /\ granted' = granted \o s1.took
      /\ call' = IF s1.out = "Ok" THEN Call("map", c) ELSE Idle
      /\ UNCHANGED <<t, published, chunks>>
  BY DEF AllocPagesAndMap
<1>3. Holding(s2) /\ s2.took = s.took /\ s2.va = alloc(va, n).a /\ s2.out = alloc(va, n).out
  BY <1>1, TakePages, SMTT(40)
<1>4. Holding(s1) /\ s1.took = s.took /\ (s1.out = "Ok" => s1 = s2)
  BY <1>3, SMTT(40) DEF Then
<1>5. ASSUME s1.out = "Ok"
      PROVE  /\ IsChunk(c, va'.bits)
             /\ Pages(c) <= 16 => Positions(c) \cap va.bits = {}
  <2>1. alloc(va, n).out = "Ok" /\ va' = alloc(va, n).a
    BY <1>2, <1>3, <1>4, <1>5, SMTT(40)
  <2>2. QED
    BY <2>1, NewChunk, SMTT(40) DEF MarkedInv
<1> HIDE DEF s1, s2
<1>6. /\ fa' \in Allocators(FrameBytes) /\ va' \in Allocators(PageBytes)
      /\ fa.bits \subseteq fa'.bits /\ va.bits \subseteq va'.bits
      /\ out' \in Outs \ {"AlreadyMapped", "AttemptedMappingToReserved"}
      /\ FramesOf(s.took, fa'.bits)
  BY <1>2, <1>4, SMTT(40) DEF Holding
<1>7. FramesOf(granted, fa'.bits)
  BY <1>6, Widened, SMTT(40) DEF MarkedInv
<1>8. FramesOf(granted', fa'.bits)
  BY <1>2, <1>4, <1>6, <1>7, Joined, SMTT(40)
<1>9. CallOk'
  <2>1. CASE s1.out # "Ok"
    BY <1>2, <2>1 DEF CallOk
  <2>2. CASE s1.out = "Ok"
    <3>1. call' = Call("map", c) /\ IsChunk(c, va'.bits)
      BY <1>2, <1>5, <2>2, Zenon
    <3>2. 0 \in 0..Pages(c)
      BY <1>1
    <3>3. call'.op = "map" /\ call'.chunk = c /\ call'.done = 0
          /\ call' = [op |-> call'.op, chunk |-> call'.chunk, done |-> call'.done]
      BY <3>1, SMTT(40) DEF Call
    <3>4. QED
      BY <3>1, <3>2, <3>3, SMTT(40) DEF CallOk
  <2>3. QED
    BY <2>1, <2>2
<1>10. \A d \in chunks' : IsChunk(d, va'.bits)
  BY <1>2, <1>6, ChunkKept, SMTT(40) DEF MarkedInv
<1>11. Tree(Root, t') /\ DOMAIN t'.mem \subseteq fa'.bits \cup {Root}
  BY <1>2, <1>6, SMTT(40) DEF MarkedInv
<1>12. MarkedInv'
  BY <1>2, <1>6, <1>8, <1>9, <1>10, <1>11, SMTT(40) DEF MarkedInv
<1>13. Begun(s, c)
  BY <1>2, <1>4, <1>5, <1>6, SMTT(40) DEF Begun
<1>14. QED
  BY <1>12, <1>13

(* What each of them passes on.                                            *)
LEMMA CheckedHolds ==
  ASSUME MarkedInv, NEW size
  PROVE  Holding(Checked(size)) /\ TookClear(Checked(size)) /\ Checked(size).va = va
<1>1. Holding(Controller) /\ TookClear(Controller) /\ Controller.va = va
  BY ControllerHolds DEF MarkedInv
<1> DEFINE o == IF size = 0 THEN "EmptyAllocation" ELSE IF ~published THEN "LockedAllocator" ELSE "Ok"
<1>2. Checked(size) = [Controller EXCEPT !.out = o]
  BY DEF Checked
<1>3. o \in Outs \ {"AlreadyMapped", "AttemptedMappingToReserved"}
  BY DEF Outs
<1> HIDE DEF o
<1> DEFINE k == Checked(size)
<1>4. k.fa = fa /\ k.va = va /\ k.took = <<>>
  BY <1>2 DEF Controller
<1>5. k \in [ t : {t}, fa : Allocators(FrameBytes), va : Allocators(PageBytes), took : Seq(Nat),
              out : Outs \ {"AlreadyMapped", "AttemptedMappingToReserved"} ]
  BY <1>1, <1>2, <1>3, SMTT(40) DEF Holding
<1>6. FramesOf(<<>>, fa.bits)
  BY DEF FramesOf
<1> HIDE DEF k
<1>7. Holding(k) /\ TookClear(k)
  BY <1>4, <1>5, <1>6, SMTT(40) DEF Holding, TookClear, Distinct
<1>8. QED
  BY <1>4, <1>7, SMTT(40) DEF k

(* A step that makes an allocation, whichever call it is.                  *)
Makes(s, c) ==
  /\ Holding(s) /\ s.va = va /\ c \in Chunks /\ c.virt = NextPage(Pages(c))
  /\ AllocPagesAndMap(s, c)
  /\ Pages(c) <= 16 => TookClear(s)
  /\ \E size \in Sizes : Pages(c) = div_ceil(size)

LEMMA NewMakes ==
  ASSUME MarkedInv, NEW size \in Sizes, NEW flags \in Flags, AllocatedMemoryNew(size, flags)
  PROVE  \E s, c : Makes(s, c)
<1> DEFINE pages == div_ceil(size)
           s == Then(Checked(size), AllocFrames(Controller, pages))
           c == Chunk("new", NextPage(pages), NextFrame(pages), size, flags)
<1>1. pages \in Nat /\ size \in Nat /\ flags \in PageTableFlags
  BY PagesIs, CallersAssumption, SMTT(40)
<1>2. Holding(Controller) /\ TookClear(Controller) /\ Controller.va = va
  BY ControllerHolds DEF MarkedInv
<1>3. /\ Holding(AllocFrames(Controller, pages)) /\ AllocFrames(Controller, pages).va = va
      /\ pages <= 16 => TookClear(AllocFrames(Controller, pages))
  BY <1>1, <1>2, TakeFrames, ZenonT(40)
<1>4. Holding(s) /\ s.va = va /\ (pages <= 16 => TookClear(s))
  BY <1>3, CheckedHolds DEF Then
<1>5. Allocated(PageBytes, va, pages, alloc(va, pages)) /\ Allocated(FrameBytes, fa, pages, alloc(fa, pages))
  BY <1>1, AllocEffect, BytesAssumption, ZenonT(40) DEF MarkedInv
<1>6. NextPage(pages) \in Nat /\ NextFrame(pages) \in Nat
  <2>1. alloc(va, pages).start \in Nat /\ alloc(fa, pages).start \in Nat
    BY <1>5, Zenon DEF Allocated
  <2>2. QED
    BY <2>1, PageSizeAssumption, SpaceAssumption, SMTT(40) DEF NextPage, NextFrame
<1>7. c \in Chunks /\ c.virt = NextPage(pages) /\ Pages(c) = pages
  BY <1>1, <1>6, SMTT(40) DEF Chunk, Chunks, Pages
<1>8. AllocPagesAndMap(s, c)
  BY DEF AllocatedMemoryNew
<1> HIDE DEF s, c, pages
<1>9. Makes(s, c)
  BY <1>4, <1>7, <1>8, SMTT(40) DEF Makes, pages
<1>10. QED
  BY <1>9

LEMMA ReserveMakes ==
  ASSUME MarkedInv, NEW size \in Sizes, NEW flags \in Flags, NEW phys \in PhysAddrs,
         reserve_physical(phys, size, flags)
  PROVE  \E s, c : Makes(s, c)
<1> DEFINE pages == div_ceil(size)
           s == Checked(size)
           c == Chunk("reserve", NextPage(pages), phys, size, flags)
<1>1. pages \in Nat /\ size \in Nat /\ flags \in PageTableFlags /\ phys \in Nat
  BY PagesIs, CallersAssumption
<1>2. Holding(s) /\ s.va = va /\ TookClear(s)
  BY CheckedHolds
<1>3. Allocated(PageBytes, va, pages, alloc(va, pages))
  BY <1>1, AllocEffect, BytesAssumption, Zenon DEF MarkedInv
<1>4. NextPage(pages) \in Nat
  <2>1. alloc(va, pages).start \in Nat
    BY <1>3 DEF Allocated
  <2>2. QED
    BY <2>1, PageSizeAssumption, SpaceAssumption, SMTT(40) DEF NextPage
<1>5. c \in Chunks /\ c.virt = NextPage(pages) /\ Pages(c) = pages
  BY <1>1, <1>4 DEF Chunk, Chunks, Pages
<1>6. AllocPagesAndMap(s, c)
  BY DEF reserve_physical
<1> HIDE DEF s, c, pages
<1>7. Makes(s, c)
  BY <1>2, <1>5, <1>6, SMTT(40) DEF Makes, pages
<1>8. QED
  BY <1>7

LEMMA RawMakes ==
  ASSUME MarkedInv, NEW size \in Sizes, alloc_and_map(div_ceil(size), flags_rw)
  PROVE  \E s, c : Makes(s, c)
<1> DEFINE pages == div_ceil(size)
           s == AllocFrames(Controller, pages)
           c == Chunk("raw", NextPage(pages), NextFrame(pages), pages * PAGE_SIZE, flags_rw)
<1>1. pages \in Nat /\ size \in Nat /\ flags_rw \in PageTableFlags
  BY PagesIs, CallersAssumption, SMTT(40) DEF flags_rw, PageTableFlags
<1>2. Holding(Controller) /\ TookClear(Controller) /\ Controller.va = va
  BY ControllerHolds DEF MarkedInv
<1>3. Holding(s) /\ s.va = va /\ (pages <= 16 => TookClear(s))
  BY <1>1, <1>2, TakeFrames, Zenon
<1>4. Allocated(PageBytes, va, pages, alloc(va, pages)) /\ Allocated(FrameBytes, fa, pages, alloc(fa, pages))
  BY <1>1, AllocEffect, BytesAssumption, ZenonT(40) DEF MarkedInv
<1>5. NextPage(pages) \in Nat /\ NextFrame(pages) \in Nat
  <2>1. alloc(va, pages).start \in Nat /\ alloc(fa, pages).start \in Nat
    BY <1>4, Zenon DEF Allocated
  <2>2. QED
    BY <2>1, PageSizeAssumption, SpaceAssumption, SMTT(40) DEF NextPage, NextFrame
<1>6. pages * PAGE_SIZE \in Nat /\ div_ceil(pages * PAGE_SIZE) = pages
  BY <1>1, PagesIs, PageIs, SMTT(40)
<1>7. AllocPagesAndMap(s, c)
  BY DEF alloc_and_map
<1>8. Pages(c) = div_ceil(pages * PAGE_SIZE) /\ c.virt = NextPage(pages)
  BY DEF Chunk, Pages
<1>9. c \in Chunks
  BY <1>1, <1>5, <1>6, SMTT(40) DEF Chunk, Chunks
<1> HIDE DEF s, c
<1>10. Pages(c) = pages
  BY <1>6, <1>8
<1>11. Makes(s, c)
  BY <1>3, <1>7, <1>8, <1>9, <1>10, SMTT(40) DEF Makes
<1>12. QED
  BY <1>11

-----------------------------------------------------------------------------
(* What a step does to the pages of the allocator, by position.            *)
OnlyPage(u, u1, P, e) ==
  \A p \in 0..Last : Lookup(u1, PageAt(p)) = IF p = P THEN e ELSE Lookup(u, PageAt(p))

NoPage(u, u1) == \A p \in 0..Last : Lookup(u1, PageAt(p)) = Lookup(u, PageAt(p))

LEMMA ChangedOnly ==
  ASSUME NEW u, NEW u1, NEW P \in 0..Last, NEW e, Changed(u, u1, PageAt(P), e)
  PROVE  OnlyPage(u, u1, P, e)
<1> SUFFICES ASSUME NEW p \in 0..Last
             PROVE  Lookup(u1, PageAt(p)) = IF p = P THEN e ELSE Lookup(u, PageAt(p))
  BY DEF OnlyPage
<1>1. p \in Nat
  BY PageAtIs
<1>2. PageAt(p) \in Nat /\ ~Reserved(PageAt(p))
  BY <1>1, PageAtIs, SMTT(40)
<1>3. SamePage(PageAt(p), PageAt(P)) <=> p = P
  BY OnePosition DEF SamePage
<1>4. QED
  BY <1>2, <1>3 DEF Changed

LEMMA SameNone ==
  ASSUME NEW u, NEW u1, SameSpace(u, u1)
  PROVE  NoPage(u, u1)
<1> SUFFICES ASSUME NEW p \in 0..Last PROVE Lookup(u1, PageAt(p)) = Lookup(u, PageAt(p))
  BY DEF NoPage
<1>1. p \in Nat
  BY PageAtIs
<1>2. QED
  BY <1>1, PageAtIs DEF SameSpace

(* The frames that were asked for are a pool of frames for the table.      *)
LEMMA AskedPool ==
  ASSUME MarkedInv, NEW s, Holding(s), TookClear(s)
  PROVE  PoolFor(s.took, t.mem, s.fa.bits)
<1>1. /\ s.fa.bits \subseteq 0..(8 * FrameBytes - 1)
      /\ s.took \in Seq(Nat) /\ \A i \in 1..Len(s.took) : s.took[i] \in s.fa.bits
  BY DEF Holding, Allocators, FramesOf
<1>2. \A i \in 1..Len(s.took) : s.took[i] # Root
  BY <1>1, RootAssumption, BytesAssumption, SMTT(40)
<1>3. \A i \in 1..Len(s.took) : s.took[i] \notin DOMAIN t.mem
  BY <1>2, SMTT(40) DEF TookClear, MarkedInv
<1>4. s.took \in Seq(s.fa.bits)
  BY <1>1, SMTT(40)
<1>5. s.fa.bits \subseteq Nat
  BY <1>1
<1>6. QED
  BY <1>3, <1>4, <1>5, SMTT(40) DEF PoolFor, TookClear, Distinct

MapDone(P, e) ==
  /\ UNCHANGED <<va, published, chunks>>
  /\ \E s : Holding(s) /\ TookClear(s) /\ granted' = granted \o s.took
  /\ out' = "AlreadyMapped" => Lookup(t, PageAt(P)) # Unused
  /\ out' # "AttemptedMappingToReserved"
  /\ \/ call' = [call EXCEPT !.done = @ + 1] /\ OnlyPage(t, t', P, e)
     \/ call' = Idle /\ NoPage(t, t')

LEMMA MapKeepsMarked ==
  ASSUME MarkedInv, map_contiguous
  PROVE  /\ MarkedInv'
         /\ MapDone(First(call.chunk) + call.done,
                    Entry(call.chunk.phys + call.done * PAGE_SIZE, call.chunk.flags))
<1> DEFINE c     == call.chunk
           k     == call.done
           P     == First(c) + k
           from  == c.phys + k * PAGE_SIZE
           asked == AskFrames(Controller, LowestLevel(t, PageAt(P)) - 1)
           r     == map(t, asked.took, from, PageAt(P), c.flags)
           s     == AfterMap(Controller, asked, r)
<1>1. /\ call = [op |-> call.op, chunk |-> c, done |-> k] /\ call.op = "map"
      /\ IsChunk(c, va.bits) /\ k \in 0..(Pages(c) - 1)
  <2>1. call.op = "map" /\ call.done < Pages(call.chunk)
    BY DEF map_contiguous
  <2>2. call # Idle
    BY <2>1, SMTT(40) DEF Idle, Call
  <2>3. IsChunk(c, va.bits) /\ k \in 0..Pages(c) /\ call = [op |-> call.op, chunk |-> c, done |-> k]
    BY <2>2, SMTT(40) DEF MarkedInv, CallOk
  <2>4. Pages(c) \in Nat
    BY <2>3, ChunkPages, SMTT(40) DEF MarkedInv
  <2>5. QED
    BY <2>1, <2>3, <2>4, SMTT(40)
<1>2. /\ P \in Positions(c) /\ P \in 0..Last /\ P \in va.bits /\ c.virt + k * PAGE_SIZE = PageAt(P)
      /\ from \in Nat
  BY <1>1, ChunkPages, SMTT(40) DEF MarkedInv
<1>3. PageAt(P) \in Nat /\ ~Reserved(PageAt(P)) /\ c.flags \in PageTableFlags
  <2>1. P \in Nat
    BY <1>2, PageAtIs
  <2>2. QED
    BY <1>1, <1>2, <2>1, PageAtIs, SMTT(40) DEF IsChunk, Chunks
<1>4. Controller.t = t
  BY SMTT(40) DEF Controller
<1>5. MapNext(c) = s
  BY <1>2, <1>4 DEF MapNext, MapPage, MapWith, ItsPage
<1>6. /\ t' = s.t /\ fa' = s.fa /\ out' = s.out /\ granted' = granted \o s.took
      /\ call' = Continue(s.out) /\ UNCHANGED <<va, published, chunks>>
  BY <1>5, Zenon DEF map_contiguous
<1>7. Holding(asked) /\ TookClear(asked)
  BY AskFramesHolds, ControllerHolds, Zenon DEF MarkedInv
<1>8. PoolFor(asked.took, t.mem, asked.fa.bits)
  BY <1>7, AskedPool, SMTT(40)
<1>9. Tree(Root, t)
  BY DEF MarkedInv
<1> HIDE DEF asked, c, k, P, from
<1>10. Tree(Root, r.t)
  BY <1>2, <1>3, <1>8, <1>9, MapKeepsTree, ZenonT(40)
<1>11. MapDid(t, r, PageAt(P), Entry(from, c.flags))
  BY <1>2, <1>3, <1>8, <1>9, MapEffect, ZenonT(40)
<1>12. MapReported(t, r, PageAt(P))
  BY <1>2, <1>3, <1>8, <1>9, MapOutcome, ZenonT(40)
<1>13. GrewOnPath(t, r.t, PageAt(P), asked.fa.bits)
  BY <1>2, <1>3, <1>8, <1>9, MapGrows, ZenonT(40)
<1> HIDE DEF r
<1>14. /\ r.out \in {"Ok", "panic", "TableAllocationFailed", "AlreadyMapped"}
       /\ r.out = "AlreadyMapped" => Lookup(t, PageAt(P)) # Unused
  BY <1>3, <1>12 DEF MapReported
<1>15. s.t = r.t /\ s.fa = asked.fa /\ s.took = asked.took
       /\ (s.out = r.out \/ (s.out = "panic" /\ r.out = "TableAllocationFailed"))
  BY <1>7, <1>14, SMTT(40) DEF AfterMap, Holding
<1> HIDE DEF s
<1>16. DOMAIN t'.mem \subseteq fa'.bits \cup {Root}
  <2>1. \A f \in DOMAIN r.t.mem : f \in DOMAIN t.mem \/ f \in asked.fa.bits
    BY <1>13, SMTT(40) DEF GrewOnPath
  <2>2. DOMAIN t.mem \subseteq fa.bits \cup {Root} /\ fa.bits \subseteq asked.fa.bits
    BY <1>7, SMTT(40) DEF MarkedInv, Holding
  <2>3. QED
    BY <1>6, <1>15, <2>1, <2>2, SMTT(40)
<1>17. fa' \in Allocators(FrameBytes) /\ FramesOf(granted', fa'.bits)
  <2>1. asked.fa \in Allocators(FrameBytes) /\ fa.bits \subseteq asked.fa.bits /\ FramesOf(asked.took, asked.fa.bits)
    BY <1>7, SMTT(40) DEF Holding
  <2>2. FramesOf(granted, asked.fa.bits)
    BY <2>1, Widened, ZenonT(40) DEF MarkedInv
  <2>3. QED
    BY <1>6, <1>15, <2>1, <2>2, Joined, SMTT(40)
<1>18. out' \in Outs
  BY <1>6, <1>14, <1>15, SMTT(40) DEF Outs
<1>19. CallOk'
  <2>1. CASE s.out # "Ok"
    BY <1>6, <2>1, SMTT(40) DEF Continue, CallOk
  <2>2. CASE s.out = "Ok"
    <3>1. call' = [call EXCEPT !.done = k + 1]
      BY <1>6, <2>2 DEF Continue, k
    <3>2. call' = [op |-> "map", chunk |-> c, done |-> k + 1]
      BY <1>1, <3>1, SMTT(40)
    <3>3. k + 1 \in 0..Pages(c)
      <4>1. Pages(c) \in Nat
        BY <1>1, ChunkPages, SMTT(40) DEF MarkedInv
      <4>2. QED
        BY <1>1, <4>1, SMTT(40)
    <3>4. call'.op = "map" /\ call'.chunk = c /\ call'.done = k + 1
      BY <3>2
    <3>5. IsChunk(c, va'.bits)
      BY <1>1, <1>6, SMTT(40)
    <3>6. QED
      BY <3>2, <3>3, <3>4, <3>5, SMTT(40) DEF CallOk
  <2>3. QED
    BY <2>1, <2>2
<1>20. \A d \in chunks' : IsChunk(d, va'.bits)
  BY <1>6, SMTT(40) DEF MarkedInv
<1>21. MarkedInv'
  BY <1>6, <1>10, <1>15, <1>16, <1>17, <1>18, <1>19, <1>20, ZenonT(40) DEF MarkedInv
<1>22. MapDone(P, Entry(from, c.flags))
  <2>1. CASE s.out = "Ok"
    <3>1. r.out = "Ok"
      BY <1>15, <2>1
    <3>2. Changed(t, r.t, PageAt(P), Entry(from, c.flags))
      BY <1>11, <3>1, SMTT(40) DEF MapDid
    <3>3. OnlyPage(t, t', P, Entry(from, c.flags))
      BY <1>2, <1>6, <1>15, <3>2, ChangedOnly, SMTT(40)
    <3>4. QED
      BY <1>6, <1>7, <1>15, <2>1, <3>3, Zenon DEF MapDone, Continue
  <2>2. CASE s.out # "Ok"
    <3>1. SameSpace(t, t')
      BY <1>6, <1>11, <1>15, <2>2, Zenon DEF MapDid
    <3>2. NoPage(t, t')
      BY <3>1, SameNone, SMTT(40)
    <3>3. out' = "AlreadyMapped" => Lookup(t, PageAt(P)) # Unused
      BY <1>6, <1>14, <1>15, SMTT(40)
    <3>4. out' # "AttemptedMappingToReserved"
      BY <1>6, <1>14, <1>15
    <3>5. call' = Idle
      BY <1>6, <2>2 DEF Continue
    <3>6. QED
      BY <1>6, <1>7, <1>15, <3>2, <3>3, <3>4, <3>5, ZenonT(40) DEF MapDone
  <2>3. QED
    BY <2>1, <2>2, SMTT(40)
<1>23. QED
  BY <1>21, <1>22 DEF c, k, P, from

-----------------------------------------------------------------------------
(* The steps that give back.                                               *)
UnmapDone(P) ==
  /\ UNCHANGED <<fa, va, published, chunks, granted>>
  /\ call'.op # "map" /\ (call' = Idle \/ call'.chunk = call.chunk)
  /\ out' \notin {"AlreadyMapped", "AttemptedMappingToReserved"}
  /\ OnlyPage(t, t', P, Unused) \/ NoPage(t, t')

LEMMA UnmapKeepsMarked ==
  ASSUME MarkedInv, unmap_contiguous
  PROVE  MarkedInv' /\ UnmapDone(First(call.chunk) + call.done) /\ First(call.chunk) + call.done \in Positions(call.chunk)
<1> DEFINE c == call.chunk
           k == call.done
           P == First(c) + k
           r == unmap(t, PageAt(P))
<1>1. /\ call = [op |-> "unmap", chunk |-> c, done |-> k]
      /\ IsChunk(c, va.bits) /\ k \in 0..(Pages(c) - 1) /\ Pages(c) \in Nat
  <2>1. call.op = "unmap" /\ call.done < Pages(call.chunk)
    BY DEF unmap_contiguous
  <2>2. call # Idle
    BY <2>1, SMTT(40) DEF Idle, Call
  <2>3. IsChunk(c, va.bits) /\ k \in 0..Pages(c) /\ call = [op |-> call.op, chunk |-> c, done |-> k]
    BY <2>2 DEF MarkedInv, CallOk
  <2>4. Pages(c) \in Nat
    BY <2>3, ChunkPages DEF MarkedInv
  <2>5. QED
    BY <2>1, <2>3, <2>4, SMTT(40)
<1>2. P \in Positions(c) /\ P \in 0..Last /\ c.virt + k * PAGE_SIZE = PageAt(P)
  BY <1>1, ChunkPages, SMTT(40) DEF MarkedInv
<1>3. PageAt(P) \in Nat /\ ~Reserved(PageAt(P))
  <2>1. P \in Nat
    BY <1>2, PageAtIs, SMTT(40)
  <2>2. QED
    BY <1>2, <2>1, PageAtIs, SMTT(40)
<1>4. /\ t' = r.t /\ out' = Report(c, r.out) /\ call' = Continue(r.out)
      /\ UNCHANGED <<fa, va, published, chunks, granted>>
  BY <1>2, ZenonT(40) DEF unmap_contiguous, ItsPage
<1>5. r.out \in {"Ok", "NotMapped"}
  BY Zenon DEF unmap
<1>6. Tree(Root, t)
  BY DEF MarkedInv
<1> HIDE DEF c, k, P
<1>7. Tree(Root, r.t) /\ DOMAIN r.t.mem = DOMAIN t.mem
  BY <1>3, <1>6, UnmapKeepsTree, UnmapKeepsPaths, SMTT(40)
<1>8. r.t = t \/ Changed(t, r.t, PageAt(P), Unused)
  BY <1>3, <1>6, UnmapEffect
<1> HIDE DEF r
<1>9. OnlyPage(t, t', P, Unused) \/ NoPage(t, t')
  <2>1. CASE r.t = t
    BY <1>4, <2>1, SMTT(40) DEF NoPage
  <2>2. CASE Changed(t, r.t, PageAt(P), Unused)
    BY <1>2, <1>4, <2>2, ChangedOnly, SMTT(40)
  <2>3. QED
    BY <1>8, <2>1, <2>2, SMTT(40)
<1>10. out' \in {"Ok", "NotMapped", "panic"}
  BY <1>4, <1>5 DEF Report
<1>11. call' = Idle \/ call' = [op |-> "unmap", chunk |-> c, done |-> k + 1]
  BY <1>1, <1>4, SMTT(40) DEF Continue
<1>12. CallOk'
  <2>1. CASE call' = Idle
    BY <2>1, SMTT(40) DEF CallOk
  <2>2. CASE call' = [op |-> "unmap", chunk |-> c, done |-> k + 1]
    <3>1. call'.op = "unmap" /\ call'.chunk = c /\ call'.done = k + 1
      BY <2>2
    <3>2. k + 1 \in 0..Pages(c) /\ IsChunk(c, va'.bits)
      BY <1>1, <1>4
    <3>3. QED
      BY <2>2, <3>1, <3>2, SMTT(40) DEF CallOk
  <2>3. QED
    BY <1>11, <2>1, <2>2, SMTT(40)
<1>13. call'.op # "map" /\ (call' = Idle \/ call'.chunk = c)
  BY <1>11, SMTT(40) DEF Idle, Call
<1>14. MarkedInv'
  <2>1. out' \in Outs
    BY <1>10, SMTT(40) DEF Outs
  <2>2. QED
    BY <1>4, <1>7, <1>12, <2>1, ZenonT(40) DEF MarkedInv
<1>15. UnmapDone(P)
  BY <1>4, <1>9, <1>10, <1>13, ZenonT(40) DEF UnmapDone, c
<1>16. QED
  BY <1>2, <1>14, <1>15, SMTT(40) DEF c, k, P

(* free_range answers with an error or a panic, whatever it is asked.      *)
LEMMA FreePagesFails ==
  ASSUME MarkedInv, NEW c, IsChunk(c, va.bits)
  PROVE  LET s == FreePages(Controller, c.virt, Pages(c))
         IN  /\ s.out \in Outcomes \ {"Ok"} /\ s.fa = fa
             /\ s.va \in Allocators(PageBytes) /\ va.bits \subseteq s.va.bits
<1> DEFINE n == Pages(c)
           f == First(c)
           r == free_range(va, f, f + n)
           s == FreePages(Controller, c.virt, n)
<1>1. n \in Nat /\ f \in Nat
  BY ChunkPages, Zenon DEF MarkedInv
<1>2. f + n \in Nat /\ f <= f + n
  BY <1>1
<1>3. RangeFreed(PageBytes, va, r)
  BY <1>1, <1>2, FreeRangeEffect, BytesAssumption, ZenonT(40) DEF MarkedInv
<1>4. s = [Controller EXCEPT !.va = r.a, !.out = r.out]
  BY DEF FreePages, First, Controller
<1> HIDE DEF r, s
<1>5. s.va = r.a /\ s.out = r.out /\ s.fa = fa
  BY <1>4, SMTT(40) DEF Controller
<1>6. QED
  BY <1>3, <1>5, ZenonT(40) DEF RangeFreed, s

ReleaseDone ==
  /\ UNCHANGED <<t, fa, published, chunks, granted>> /\ call' = Idle /\ va.bits \subseteq va'.bits
  /\ out' \notin {"AlreadyMapped", "AttemptedMappingToReserved"}

LEMMA ReleaseKeepsMarked ==
  ASSUME MarkedInv, ReleaseDone, va' \in Allocators(PageBytes), out' \in Outs
  PROVE  MarkedInv'
<1>1. \A c \in chunks' : IsChunk(c, va'.bits)
  BY ChunkKept, Zenon DEF ReleaseDone, MarkedInv
<1>2. CallOk'
  BY DEF ReleaseDone, CallOk
<1>3. QED
  BY <1>1, <1>2, SMTT(40) DEF ReleaseDone, MarkedInv

LEMMA FreeKeepsMarked ==
  ASSUME MarkedInv, NEW c \in chunks, free_and_unmap(c)
  PROVE  MarkedInv' /\ ReleaseDone
<1> DEFINE s1 == FreePages(Controller, c.virt, Pages(c))
<1>1. IsChunk(c, va.bits)
  BY SMTT(40) DEF MarkedInv
<1>2. /\ s1.out \in Outcomes \ {"Ok"} /\ s1.fa = fa
      /\ s1.va \in Allocators(PageBytes) /\ va.bits \subseteq s1.va.bits
  BY <1>1, FreePagesFails
<1>3. PICK s2 : /\ s2 = s1
                /\ fa' = s2.fa /\ va' = s2.va /\ out' = s2.out
                /\ chunks' = IF s2.out = "Ok" THEN chunks \ {c} ELSE chunks
                /\ call' = IF s2.out = "Ok" THEN Call("unmap", c) ELSE Idle
                /\ UNCHANGED <<t, published, granted>>
  BY <1>2, SMTT(40) DEF free_and_unmap, Then
<1> HIDE DEF s1
<1>4. out' \in Outs \ {"AlreadyMapped", "AttemptedMappingToReserved"}
  BY <1>2, <1>3, Zenon DEF Outcomes, Outs
<1>5. ReleaseDone /\ va' \in Allocators(PageBytes)
  BY <1>2, <1>3, <1>4, SMTT(40) DEF ReleaseDone
<1>6. QED
  BY <1>4, <1>5, ReleaseKeepsMarked, SMTT(40)

LEMMA ReturnKeepsMarked ==
  ASSUME MarkedInv, UnmapReturns
  PROVE  MarkedInv' /\ ReleaseDone
<1> DEFINE c  == call.chunk
           s0 == FreePages(Controller, c.virt, Pages(c))
           s1 == IF c.op = "raw" THEN Controller ELSE s0
           s2 == IF c.op = "new" THEN Then(s1, FreeFrames(s1, c.phys, Pages(c))) ELSE s1
<1>1. IsChunk(c, va.bits)
  <2>1. call # Idle
    BY SMTT(40) DEF UnmapReturns, Idle, Call
  <2>2. QED
    BY <2>1, SMTT(40) DEF MarkedInv, CallOk
<1>2. /\ fa' = s2.fa /\ va' = s2.va /\ out' = Report(c, s2.out) /\ call' = Idle
      /\ UNCHANGED <<t, published, chunks, granted>>
  BY ZenonT(40) DEF UnmapReturns
<1>3. /\ s0.out \in Outcomes \ {"Ok"} /\ s0.fa = fa
      /\ s0.va \in Allocators(PageBytes) /\ va.bits \subseteq s0.va.bits
  BY <1>1, FreePagesFails, ZenonT(40)
<1>4. s2 = IF c.op = "raw" THEN Controller ELSE s0
  BY <1>3, ZenonT(40) DEF Then
<1>5. Controller.out = "Ok" /\ Controller.fa = fa /\ Controller.va = va /\ va \in Allocators(PageBytes)
  BY DEF Controller, MarkedInv
<1> HIDE DEF c, s0, s2
<1>6. /\ s2.fa = fa /\ s2.va \in Allocators(PageBytes) /\ va.bits \subseteq s2.va.bits
      /\ s2.out \in Outcomes
  BY <1>3, <1>4, <1>5, ZenonT(40) DEF Outcomes
<1>7. out' \in Outs \ {"AlreadyMapped", "AttemptedMappingToReserved"}
  BY <1>2, <1>6, SMTT(40) DEF Report, Outcomes, Outs
<1>8. ReleaseDone /\ va' \in Allocators(PageBytes)
  BY <1>2, <1>6, <1>7, SMTT(40) DEF ReleaseDone
<1>9. QED
  BY <1>7, <1>8, ReleaseKeepsMarked, SMTT(40)

-----------------------------------------------------------------------------
(* The steps that only hand an allocation over, or read and write one.     *)
LEMMA MapReturnsKeepsMarked ==
  ASSUME MarkedInv, MapReturns
  PROVE  MarkedInv'
<1>1. call # Idle
  BY DEF MapReturns, Idle, Call
<1>2. IsChunk(call.chunk, va.bits)
  BY <1>1, SMTT(40) DEF MarkedInv, CallOk
<1>3. \A c \in chunks' : IsChunk(c, va'.bits)
  BY <1>2, Zenon DEF MapReturns, MarkedInv
<1>4. CallOk'
  BY SMTT(40) DEF MapReturns, CallOk
<1>5. QED
  BY <1>3, <1>4, SMTT(40) DEF MapReturns, MarkedInv

LEMMA DropKeepsMarked ==
  ASSUME MarkedInv, NEW c \in chunks, Drop(c)
  PROVE  MarkedInv'
<1>1. IsChunk(c, va'.bits) /\ Pages(c) \in Nat
  BY ChunkPages, Zenon DEF MarkedInv, Drop
<1>2. call' = [op |-> "unmap", chunk |-> c, done |-> 0]
  BY DEF Drop, Call
<1>3. CallOk'
  <2>1. call'.op = "unmap" /\ call'.chunk = c /\ call'.done = 0 /\ 0 \in 0..Pages(c)
    BY <1>1, <1>2, SMTT(40)
  <2>2. QED
    BY <1>1, <1>2, <2>1, SMTT(40) DEF CallOk
<1>4. \A d \in chunks' : IsChunk(d, va'.bits)
  BY SMTT(40) DEF MarkedInv, Drop
<1>5. QED
  BY <1>3, <1>4, ZenonT(40) DEF Drop, MarkedInv, Outs

(* Steps that change nothing but the answer.                               *)
Answered ==
  /\ UNCHANGED <<t, fa, va, chunks, call, granted>> /\ published' \in BOOLEAN
  /\ out' \in Outs \ {"AlreadyMapped", "AttemptedMappingToReserved"}

LEMMA AnswerKeepsMarked ==
  ASSUME MarkedInv, Answered
  PROVE  MarkedInv'
<1>1. CallOk'
  BY SMTT(40) DEF MarkedInv, CallOk, Answered
<1>2. QED
  BY <1>1, SMTT(40) DEF MarkedInv, Answered

LEMMA AccessAnswers ==
  ASSUME MarkedInv, NEW checks, NEW c, NEW write, NEW offset, NEW len,
         Access(checks, c, write, offset, len)
  PROVE  Answered
<1>1. handle_errors(checks, c, write, offset, len)
        \in {"PageNotPresent", "WriteToReadOnly", "panic", "OutOfBounds", "Ok"}
  BY DEF handle_errors
<1>2. QED
  BY <1>1, Zenon DEF Access, Answered, MarkedInv, Outs

LEMMA MarkedInvStep == MarkedInv /\ [Next]_vars => MarkedInv'
<1> SUFFICES ASSUME MarkedInv, [Next]_vars PROVE MarkedInv'
  OBVIOUS
<1>1. CASE Publish
  <2>1. Answered
    BY <1>1 DEF Publish, Answered, Outs
  <2>2. QED
    BY <2>1, AnswerKeepsMarked, SMTT(40)
<1>2. ASSUME NEW s, NEW c, Makes(s, c) PROVE MarkedInv'
  BY <1>2, BeginKeepsMarked, SMTT(40) DEF Makes
<1>3. ASSUME NEW size \in Sizes, NEW flags \in Flags, AllocatedMemoryNew(size, flags)
      PROVE  MarkedInv'
  BY <1>2, <1>3, NewMakes, SMTT(40)
<1>4. ASSUME NEW size \in Sizes, NEW flags \in Flags, NEW phys \in PhysAddrs,
             reserve_physical(phys, size, flags)
      PROVE  MarkedInv'
  BY <1>2, <1>4, ReserveMakes, SMTT(40)
<1>5. ASSUME NEW size \in Sizes, alloc_and_map(div_ceil(size), flags_rw) PROVE MarkedInv'
  BY <1>2, <1>5, RawMakes, SMTT(40)
<1>6. CASE map_contiguous
  BY <1>6, MapKeepsMarked
<1>7. CASE MapReturns
  BY <1>7, MapReturnsKeepsMarked, SMTT(40)
<1>8. ASSUME NEW c \in chunks, NEW checks \in BOOLEAN, NEW write \in BOOLEAN, NEW offset \in Offsets,
             NEW len \in ValueSizes, Access(checks, c, write, offset, len)
      PROVE  MarkedInv'
  BY <1>8, AccessAnswers, AnswerKeepsMarked, SMTT(40)
<1>9. ASSUME NEW c \in chunks, Drop(c) PROVE MarkedInv'
  BY <1>9, DropKeepsMarked, SMTT(40)
<1>10. ASSUME NEW c \in chunks, free_and_unmap(c) PROVE MarkedInv'
  BY <1>10, FreeKeepsMarked, SMTT(40)
<1>11. CASE unmap_contiguous
  BY <1>11, UnmapKeepsMarked
<1>12. CASE UnmapReturns
  BY <1>12, ReturnKeepsMarked, SMTT(40)
<1>13. CASE UNCHANGED vars
  BY <1>13 DEF vars, MarkedInv, CallOk
<1>14. QED
  BY <1>1, <1>3, <1>4, <1>5, <1>6, <1>7, <1>8, <1>9, <1>10, <1>11, <1>12, <1>13, SMTT(40) DEF Next, Halt

LEMMA AlwaysMarked == Spec => []MarkedInv
  BY MarkedInvInit, MarkedInvStep, PTL DEF Spec

(* For every size of request: the allocators keep their size and mark      *)
(* positions of their own bitmaps only, an allocation has pages of the     *)
(* range of the virtual memory allocator, and calls answer with an error   *)
(* of memory/mod.rs or a panic.                                            *)
THEOREM MemoryTypeCorrect == Spec => []TypeOK
<1>1. MarkedInv => TypeOK
  <2> SUFFICES ASSUME MarkedInv PROVE TypeOK
    OBVIOUS
  <2>1. /\ fa.size = 8 * FrameBytes /\ fa.bits \subseteq 0..(fa.size - 1) /\ fa.last \in Nat
        /\ va.size = 8 * PageBytes /\ va.bits \subseteq 0..(va.size - 1) /\ va.last \in Nat
    BY DEF MarkedInv, Allocators
  <2>2. ASSUME NEW c \in chunks
        PROVE  c.op \in {"new", "reserve", "raw"} /\ Aligned(c.virt) /\ c.virt >= PAGE_ALLOCATOR_START
    <3>1. c \in Chunks /\ First(c) \in Nat /\ c.virt = PageAt(First(c))
      BY DEF MarkedInv, IsChunk
    <3>2. PAGE_SIZE \in Nat /\ PAGE_SIZE > 0 /\ PAGE_ALLOCATOR_START \in Nat
      BY PageSizeAssumption, SpaceAssumption, SMTT(40)
    <3>3. First(c) * PAGE_SIZE \in Nat
      BY <3>1, PageIs, SMTT(40)
    <3>4. c.virt >= PAGE_ALLOCATOR_START
      BY <3>1, <3>2, <3>3, SMTT(40) DEF PageAt
    <3>5. Aligned(c.virt)
      <4>1. PICK b \in Nat : b = PAGE_ALLOCATOR_START \div PAGE_SIZE
        BY <3>2
      <4>2. PAGE_ALLOCATOR_START = b * PAGE_SIZE
        BY <3>2, <4>1, SpaceAssumption, SMTT(40) DEF Aligned
      <4>3. c.virt = (b + First(c)) * PAGE_SIZE
        BY <3>1, <3>2, <4>2, SMTT(40) DEF PageAt
      <4>4. \A n \in Nat : (n * PAGE_SIZE) % PAGE_SIZE = 0
        BY <3>2, SMTT(40)
      <4>5. QED
        BY <3>1, <4>3, <4>4, SMTT(40) DEF Aligned
    <3>6. QED
      BY <3>1, <3>4, <3>5, SMTT(40) DEF Chunks
  <2>3. call.op \in {"idle", "map", "unmap"} /\ call.done \in 0..Pages(call.chunk)
    <3>1. CASE call = Idle
      <4>1. call.op = "idle" /\ call.done = 0 /\ call.chunk.size = 0
        BY <3>1 DEF Idle, Call, Chunk
      <4>2. Pages(call.chunk) \in Nat
        BY <4>1, PagesIs, SMTT(40) DEF Pages
      <4>3. QED
        BY <4>1, <4>2, SMTT(40)
    <3>2. QED
      BY <3>1 DEF MarkedInv, CallOk
  <2>4. \A i \in 1..Len(granted) : granted[i] \in 0..(fa.size - 1)
    BY <2>1 DEF MarkedInv, FramesOf
  <2>5. QED
    BY <2>1, <2>2, <2>3, <2>4, ZenonT(40) DEF TypeOK, MarkedInv
<1>2. QED
  BY <1>1, AlwaysMarked, PTL

-----------------------------------------------------------------------------
(* Who owns the pages and the frames that are handed out, when no request  *)
(* is for more than 16 pages.                                              *)
LEMMA OwnedInvInit == Init => OwnedInv
<1> SUFFICES ASSUME Init PROVE OwnedInv
  OBVIOUS
<1>1. MappedIn(t, va.bits)
  <2>1. ASSUME NEW p \in 0..Last PROVE Lookup(t, PageAt(p)) = Unused
    <3>1. p \in Nat
      BY PageAtIs
    <3>2. QED
      BY <3>1, PageAtIs, NewIsEmpty, RootAssumption, SMTT(40) DEF Init
  <2>2. QED
    BY <2>1 DEF MappedIn
<1>2. Distinct(granted)
  BY DEF Init, Distinct
<1>3. call.op = "idle" /\ call = Idle /\ chunks = {} /\ out = "Ok"
  BY DEF Init, Idle, Call
<1>4. QED
  BY <1>1, <1>2, <1>3, SMTT(40) DEF OwnedInv

LEMMA TakenDistinct ==
  ASSUME MarkedInv, OwnedInv, NEW s, Holding(s), TookClear(s), granted' = granted \o s.took
  PROVE  Distinct(granted')
<1>1. FramesOf(granted, fa.bits) /\ Distinct(granted)
  BY DEF MarkedInv, OwnedInv
<1>2. FramesOf(s.took, Nat) /\ Distinct(s.took) /\ \A i \in 1..Len(s.took) : s.took[i] \notin fa.bits
  <2>1. FramesOf(s.took, s.fa.bits)
    BY Zenon DEF Holding
  <2>2. FramesOf(s.took, Nat)
    BY <2>1 DEF FramesOf
  <2>3. QED
    BY <2>2, Zenon DEF TookClear
<1>3. QED
  BY <1>1, <1>2, JoinedDistinct, SMTT(40)

LEMMA BeginKeepsOwned ==
  ASSUME MarkedInv, MarkedInv', OwnedInv, NEW s, NEW c, Begun(s, c), Pages(c) <= 16, TookClear(s)
  PROVE  OwnedInv'
<1>1. /\ UNCHANGED <<t, chunks>> /\ va.bits \subseteq va'.bits
      /\ out' \notin {"AlreadyMapped", "AttemptedMappingToReserved"}
  BY DEF Begun
<1>2. Distinct(granted')
  BY TakenDistinct DEF Begun
<1>3. MappedIn(t', va'.bits)
  BY <1>1 DEF OwnedInv, MappedIn
<1>4. CASE call' = Idle
  <2>1. call'.op = "idle"
    BY <1>4, SMTT(40) DEF Idle, Call
  <2>2. QED
    BY <1>1, <1>2, <1>3, <1>4, <2>1, ZenonT(40) DEF OwnedInv
<1>5. CASE call' # Idle
  <2>1. call' = Call("map", c) /\ c \in Chunks /\ Positions(c) \cap va.bits = {}
    BY <1>5 DEF Begun
  <2>2. call'.op = "map" /\ call'.chunk = c /\ call'.done = 0
    BY <2>1 DEF Call
  <2>3. IsChunk(c, va'.bits) /\ va' \in Allocators(PageBytes)
    BY <1>5, <2>2, SMTT(40) DEF MarkedInv, CallOk
  <2>4. First(c) \in Nat /\ Pages(c) \in Nat /\ Positions(c) \subseteq 0..Last
    BY <2>1, <2>3, PagesIs, SMTT(40) DEF IsChunk, Allocators, Last, Pages, Chunks
  <2>5. ASSUME NEW k \in 0..(Pages(c) - 1)
        PROVE  Lookup(t', PageAt(First(c) + k)) = Unused
    <3>1. First(c) + k \in Positions(c)
      BY <2>4 DEF Positions, First
    <3>2. First(c) + k \in 0..Last /\ First(c) + k \notin va.bits
      BY <2>1, <2>4, <3>1, SMTT(40)
    <3>3. QED
      BY <1>1, <3>2, Zenon DEF OwnedInv, MappedIn
  <2>6. UnusedFrom(t', c, 0) /\ MappedFrom(t', c, 0, 0)
    BY <2>5, SMTT(40) DEF UnusedFrom, MappedFrom
  <2>7. \A d \in chunks' : Apart(d, c)
    BY <1>1, <2>1, ZenonT(40) DEF Apart, MarkedInv, IsChunk
  <2>8. QED
    BY <1>1, <1>2, <1>3, <2>2, <2>6, <2>7, ZenonT(40) DEF OwnedInv
<1>6. QED
  BY <1>4, <1>5

(* A page written for one allocation is no page of another.                *)
LEMMA MappedKept ==
  ASSUME va \in Allocators(PageBytes), NEW u, NEW u1, NEW P, NEW e, OnlyPage(u, u1, P, e) \/ NoPage(u, u1),
         NEW c, IsChunk(c, va.bits), P \notin Positions(c), MappedFrom(u, c, 0, Pages(c))
  PROVE  MappedFrom(u1, c, 0, Pages(c))
<1> SUFFICES ASSUME NEW k \in 0..(Pages(c) - 1)
             PROVE  Lookup(u1, PageAt(First(c) + k)) = Entry(c.phys + k * PAGE_SIZE, c.flags)
  BY DEF MappedFrom
<1>1. First(c) + k \in Positions(c) /\ First(c) + k \in 0..Last
  BY ChunkPages
<1>2. First(c) + k # P
  BY <1>1
<1>3. Lookup(u1, PageAt(First(c) + k)) = Lookup(u, PageAt(First(c) + k))
  BY <1>1, <1>2 DEF OnlyPage, NoPage
<1>4. QED
  BY <1>3, SMTT(40) DEF MappedFrom

LEMMA MapKeepsOwned ==
  ASSUME MarkedInv, OwnedInv, map_contiguous
  PROVE  OwnedInv'
<1> DEFINE c == call.chunk
           k == call.done
           P == First(c) + k
           e == Entry(c.phys + k * PAGE_SIZE, c.flags)
<1>1. MapDone(P, e)
  BY MapKeepsMarked
<1>2. /\ call = [op |-> "map", chunk |-> c, done |-> k]
      /\ IsChunk(c, va.bits) /\ k \in 0..(Pages(c) - 1) /\ Pages(c) \in Nat
  <2>1. call.op = "map" /\ call.done < Pages(call.chunk)
    BY DEF map_contiguous
  <2>2. call # Idle
    BY <2>1 DEF Idle, Call
  <2>3. IsChunk(c, va.bits) /\ k \in 0..Pages(c) /\ call = [op |-> call.op, chunk |-> c, done |-> k]
    BY <2>2 DEF MarkedInv, CallOk
  <2>4. Pages(c) \in Nat
    BY <2>3, ChunkPages, SMTT(40) DEF MarkedInv
  <2>5. QED
    BY <2>1, <2>3, <2>4, SMTT(40)
<1>3. P \in Positions(c) /\ P \in 0..Last /\ P \in va.bits /\ First(c) \in Nat
  BY <1>2, ChunkPages, SMTT(40) DEF MarkedInv
<1>4. /\ \A d \in chunks : Apart(d, c)
      /\ MappedFrom(t, c, 0, k) /\ UnusedFrom(t, c, k)
  <2>1. call.op = "map" /\ call # Idle
    BY <1>2 DEF Idle, Call
  <2>2. QED
    BY <2>1 DEF OwnedInv
<1> HIDE DEF c, k, P, e
<1>5. va' = va /\ chunks' = chunks
  BY <1>1, SMTT(40) DEF MapDone
<1>6. Distinct(granted')
  BY <1>1, TakenDistinct, SMTT(40) DEF MapDone
<1>7. Lookup(t, PageAt(P)) = Unused
  BY <1>2, <1>4, SMTT(40) DEF UnusedFrom, P
<1>8. out' \notin {"AlreadyMapped", "AttemptedMappingToReserved"}
  BY <1>1, <1>7, SMTT(40) DEF MapDone
<1>9. OnlyPage(t, t', P, e) \/ NoPage(t, t')
  BY <1>1 DEF MapDone
<1>10. ASSUME NEW d \in chunks PROVE MappedFrom(t', d, 0, Pages(d))
  <2>1. P \notin Positions(d) /\ IsChunk(d, va.bits) /\ MappedFrom(t, d, 0, Pages(d))
    BY <1>3, <1>4, ZenonT(40) DEF Apart, MarkedInv, OwnedInv
  <2>2. QED
    BY <1>9, <2>1, MappedKept, ZenonT(40) DEF MarkedInv
<1>11. MappedIn(t', va'.bits)
  <2>1. \A p \in 0..Last : Lookup(t', PageAt(p)) # Unused => p = P \/ Lookup(t, PageAt(p)) # Unused
    BY <1>9, SMTT(40) DEF OnlyPage, NoPage
  <2>2. QED
    BY <1>3, <1>5, <2>1, ZenonT(40) DEF MappedIn, OwnedInv
<1>12. CASE call' = Idle
  <2>1. call'.op = "idle"
    BY <1>12, SMTT(40) DEF Idle, Call
  <2>2. QED
    BY <1>5, <1>6, <1>8, <1>10, <1>11, <1>12, <2>1, SMTT(40) DEF OwnedInv
<1>13. CASE call' # Idle
  <2>1. call' = [call EXCEPT !.done = @ + 1] /\ OnlyPage(t, t', P, e)
    BY <1>1, <1>13, SMTT(40) DEF MapDone
  <2>2. call'.chunk = c /\ call'.done = k + 1 /\ call'.op = "map"
    BY <1>2, <2>1, SMTT(40)
  <2>3. ASSUME NEW j \in 0..(Pages(c) - 1)
        PROVE  Lookup(t', PageAt(First(c) + j)) = IF j = k THEN e ELSE Lookup(t, PageAt(First(c) + j))
    <3>1. First(c) + j \in 0..Last
      BY <1>2, ChunkPages, ZenonT(40) DEF MarkedInv
    <3>2. First(c) + j = P <=> j = k
      BY <1>2, <1>3, SMTT(40) DEF P
    <3>3. QED
      BY <2>1, <3>1, <3>2, SMTT(40) DEF OnlyPage
  <2>4. MappedFrom(t', c, 0, k + 1)
    <3>1. ASSUME NEW j \in 0..((k + 1) - 1)
          PROVE  Lookup(t', PageAt(First(c) + j)) = Entry(c.phys + j * PAGE_SIZE, c.flags)
      <4>1. j \in 0..(Pages(c) - 1) /\ (j = k \/ j \in 0..(k - 1))
        BY <1>2
      <4>2. QED
        BY <1>4, <2>3, <4>1, SMTT(40) DEF MappedFrom, e
    <3>2. QED
      BY <3>1 DEF MappedFrom
  <2>5. UnusedFrom(t', c, k + 1)
    <3>1. ASSUME NEW j \in (k + 1)..(Pages(c) - 1)
          PROVE  Lookup(t', PageAt(First(c) + j)) = Unused
      <4>1. j \in 0..(Pages(c) - 1) /\ j # k /\ j \in k..(Pages(c) - 1)
        BY <1>2
      <4>2. QED
        BY <1>4, <2>3, <4>1, SMTT(40) DEF UnusedFrom
    <3>2. QED
      BY <3>1, SMTT(40) DEF UnusedFrom
  <2>6. QED
    BY <1>4, <1>5, <1>6, <1>8, <1>10, <1>11, <2>2, <2>4, <2>5, SMTT(40) DEF OwnedInv
<1>14. QED
  BY <1>12, <1>13, SMTT(40)

LEMMA UnmapKeepsOwned ==
  ASSUME MarkedInv, OwnedInv, unmap_contiguous
  PROVE  OwnedInv'
<1> DEFINE c == call.chunk
           P == First(c) + call.done
<1>1. UnmapDone(P) /\ P \in Positions(c)
  BY UnmapKeepsMarked, SMTT(40)
<1>2. \A d \in chunks : Apart(d, c)
  <2>1. call # Idle
    BY DEF unmap_contiguous, Idle, Call
  <2>2. QED
    BY <2>1, SMTT(40) DEF OwnedInv
<1> HIDE DEF P
<1>3. /\ UNCHANGED <<va, chunks, granted>> /\ call'.op # "map" /\ (call' = Idle \/ call'.chunk = c)
      /\ out' \notin {"AlreadyMapped", "AttemptedMappingToReserved"}
      /\ OnlyPage(t, t', P, Unused) \/ NoPage(t, t')
  BY <1>1, ZenonT(40) DEF UnmapDone
<1>4. ASSUME NEW d \in chunks PROVE MappedFrom(t', d, 0, Pages(d))
  <2>1. P \notin Positions(d) /\ IsChunk(d, va.bits) /\ MappedFrom(t, d, 0, Pages(d))
    BY <1>1, <1>2, ZenonT(40) DEF Apart, MarkedInv, OwnedInv
  <2>2. QED
    BY <1>3, <2>1, MappedKept, ZenonT(40) DEF MarkedInv
<1>5. MappedIn(t', va'.bits)
  <2>1. \A p \in 0..Last : Lookup(t', PageAt(p)) # Unused => Lookup(t, PageAt(p)) # Unused
    BY <1>3 DEF OnlyPage, NoPage
  <2>2. QED
    BY <1>3, <2>1, ZenonT(40) DEF MappedIn, OwnedInv
<1>6. QED
  BY <1>2, <1>3, <1>4, <1>5, SMTT(40) DEF OwnedInv

LEMMA MapReturnsKeepsOwned ==
  ASSUME MarkedInv, OwnedInv, MapReturns
  PROVE  OwnedInv'
<1> DEFINE c == call.chunk
<1>1. /\ call.op = "map" /\ call.done = Pages(c) /\ chunks' = chunks \cup {c} /\ call' = Idle
      /\ UNCHANGED <<t, va, granted, out>>
  BY DEF MapReturns
<1>2. call # Idle /\ call'.op = "idle"
  BY <1>1 DEF Idle, Call
<1>3. (\A d \in chunks : Apart(d, c)) /\ MappedFrom(t, c, 0, Pages(c))
  BY <1>1, <1>2, SMTT(40) DEF OwnedInv
<1> HIDE DEF c
<1>4. \A d, d1 \in chunks' : d # d1 => Apart(d, d1)
  BY <1>1, <1>3, SMTT(40) DEF OwnedInv, Apart
<1>5. \A d \in chunks' : MappedFrom(t', d, 0, Pages(d))
  BY <1>1, <1>3, SMTT(40) DEF OwnedInv
<1>6. MappedIn(t', va'.bits) /\ Distinct(granted')
  BY <1>1 DEF OwnedInv
<1>7. QED
  BY <1>1, <1>2, <1>4, <1>5, <1>6, SMTT(40) DEF OwnedInv

LEMMA DropKeepsOwned ==
  ASSUME MarkedInv, OwnedInv, NEW c \in chunks, Drop(c)
  PROVE  OwnedInv'
<1>1. chunks' = chunks \ {c} /\ call' = Call("unmap", c) /\ out' = "Ok" /\ UNCHANGED <<t, va, granted>>
  BY DEF Drop
<1>2. call'.op = "unmap" /\ call'.chunk = c
  BY <1>1 DEF Call
<1>3. \A d \in chunks' : Apart(d, c)
  BY <1>1, SMTT(40) DEF OwnedInv
<1>4. QED
  BY <1>1, <1>2, <1>3, SMTT(40) DEF OwnedInv

LEMMA ReleaseKeepsOwned ==
  ASSUME OwnedInv, ReleaseDone
  PROVE  OwnedInv'
<1>1. call'.op = "idle"
  BY DEF ReleaseDone, Idle, Call
<1>2. MappedIn(t', va'.bits)
  BY DEF ReleaseDone, OwnedInv, MappedIn
<1>3. QED
  BY <1>1, <1>2, ZenonT(40) DEF ReleaseDone, OwnedInv

LEMMA AnswerKeepsOwned ==
  ASSUME OwnedInv, Answered
  PROVE  OwnedInv'
  BY DEF OwnedInv, Answered

LEMMA OwnedInvStep ==
  ASSUME \A size \in Sizes : div_ceil(size) <= 16
  PROVE  MarkedInv /\ OwnedInv /\ [Next]_vars => OwnedInv'
<1> SUFFICES ASSUME MarkedInv, OwnedInv, [Next]_vars PROVE OwnedInv'
  OBVIOUS
<1>1. CASE Publish
  <2>1. Answered
    BY <1>1, SMTT(40) DEF Publish, Answered, Outs
  <2>2. QED
    BY <2>1, AnswerKeepsOwned, SMTT(40)
<1>2. ASSUME NEW s, NEW c, Makes(s, c) PROVE OwnedInv'
  <2>1. Pages(c) <= 16 /\ TookClear(s)
    BY <1>2, SMTT(40) DEF Makes
  <2>2. MarkedInv' /\ Begun(s, c)
    BY <1>2, BeginKeepsMarked, SMTT(40) DEF Makes
  <2>3. QED
    BY <2>1, <2>2, BeginKeepsOwned, SMTT(40)
<1>3. ASSUME NEW size \in Sizes, NEW flags \in Flags, AllocatedMemoryNew(size, flags)
      PROVE  OwnedInv'
  BY <1>2, <1>3, NewMakes, SMTT(40)
<1>4. ASSUME NEW size \in Sizes, NEW flags \in Flags, NEW phys \in PhysAddrs,
             reserve_physical(phys, size, flags)
      PROVE  OwnedInv'
  BY <1>2, <1>4, ReserveMakes, SMTT(40)
<1>5. ASSUME NEW size \in Sizes, alloc_and_map(div_ceil(size), flags_rw) PROVE OwnedInv'
  BY <1>2, <1>5, RawMakes, SMTT(40)
<1>6. CASE map_contiguous
  BY <1>6, MapKeepsOwned, SMTT(40)
<1>7. CASE MapReturns
  BY <1>7, MapReturnsKeepsOwned, SMTT(40)
<1>8. ASSUME NEW c \in chunks, NEW checks \in BOOLEAN, NEW write \in BOOLEAN, NEW offset \in Offsets,
             NEW len \in ValueSizes, Access(checks, c, write, offset, len)
      PROVE  OwnedInv'
  BY <1>8, AccessAnswers, AnswerKeepsOwned, SMTT(40)
<1>9. ASSUME NEW c \in chunks, Drop(c) PROVE OwnedInv'
  BY <1>9, DropKeepsOwned, SMTT(40)
<1>10. ASSUME NEW c \in chunks, free_and_unmap(c) PROVE OwnedInv'
  BY <1>10, FreeKeepsMarked, ReleaseKeepsOwned, SMTT(40)
<1>11. CASE unmap_contiguous
  BY <1>11, UnmapKeepsOwned
<1>12. CASE UnmapReturns
  BY <1>12, ReturnKeepsMarked, ReleaseKeepsOwned, SMTT(40)
<1>13. CASE UNCHANGED vars
  BY <1>13 DEF vars, OwnedInv
<1>14. QED
  BY <1>1, <1>3, <1>4, <1>5, <1>6, <1>7, <1>8, <1>9, <1>10, <1>11, <1>12, <1>13, SMTT(40) DEF Next, Halt

LEMMA AlwaysOwned ==
  ASSUME \A size \in Sizes : div_ceil(size) <= 16
  PROVE  Spec => [](MarkedInv /\ OwnedInv)
  BY OwnedInvInit, OwnedInvStep, MarkedInvInit, MarkedInvStep, PTL DEF Spec

(* For requests of up to 16 pages: no frame is handed out twice, to        *)
(* callers or as a table, and every frame handed out stays marked.         *)
THEOREM FramesHandedOutOnce ==
  ASSUME \A size \in Sizes : div_ceil(size) <= 16
  PROVE  Spec => []GrantsAreFresh
<1>1. MarkedInv /\ OwnedInv => GrantsAreFresh
  BY ZenonT(40) DEF MarkedInv, OwnedInv, GrantsAreFresh, FramesOf, Distinct
<1>2. QED
  BY <1>1, AlwaysOwned, PTL

(* For requests of up to 16 pages: no page belongs to two allocations, all *)
(* pages that are mapped or belong to one are marked, and map_contiguous   *)
(* never meets a page that is mapped or reserved.                          *)
THEOREM PagesHaveOneOwner ==
  ASSUME \A size \in Sizes : div_ceil(size) <= 16
  PROVE  Spec => []PagesOwnedOnce
<1>1. MarkedInv /\ OwnedInv => PagesOwnedOnce
  <2> SUFFICES ASSUME MarkedInv, OwnedInv PROVE PagesOwnedOnce
    OBVIOUS
  <2>1. va.size - 1 = Last
    BY SMTT(40) DEF MarkedInv, Allocators, Last
  <2>2. \A p \in 0..(va.size - 1) :
          translate(t, PAGE_ALLOCATOR_START + p * PAGE_SIZE) # None => p \in va.bits
    BY <2>1, ZenonT(40) DEF OwnedInv, MappedIn, PageAt, translate, is_unused
  <2>3. \A c \in chunks : Positions(c) \subseteq va.bits
    BY SMTT(40) DEF MarkedInv, IsChunk
  <2>4. QED
    BY <2>2, <2>3, ZenonT(40) DEF OwnedInv, Apart, PagesOwnedOnce
<1>2. QED
  BY <1>1, AlwaysOwned, PTL

LEMMA MappedChunks ==
  ASSUME MarkedInv, OwnedInv, NEW c \in chunks, NEW k \in 0..(Pages(c) - 1)
  PROVE  Lookup(t, c.virt + k * PAGE_SIZE) = Entry(c.phys + k * PAGE_SIZE, c.flags)
<1>1. c.virt + k * PAGE_SIZE = PageAt(First(c) + k)
  BY ChunkPages, SMTT(40) DEF MarkedInv
<1>2. QED
  BY <1>1, ZenonT(40) DEF OwnedInv, MappedFrom

(* For requests of up to 16 pages: every page of a live allocation stays   *)
(* mapped to its own frame with the flags it was made with.                *)
THEOREM AllocationsStayMapped ==
  ASSUME \A size \in Sizes : div_ceil(size) <= 16
  PROVE  Spec => []ChunksStayMapped
<1>1. MarkedInv /\ OwnedInv => ChunksStayMapped
  BY MappedChunks, SMTT(40) DEF ChunksStayMapped
<1>2. QED
  BY <1>1, AlwaysOwned, PTL

-----------------------------------------------------------------------------
(* Accesses.                                                               *)
LEMMA SamePageSameEntry ==
  ASSUME NEW u, NEW a, NEW b, PageOf(a) = PageOf(b)
  PROVE  Lookup(u, a) = Lookup(u, b)
<1>1. /\ get_page_index(1, a) = get_page_index(1, b) /\ get_page_index(2, a) = get_page_index(2, b)
      /\ get_page_index(3, a) = get_page_index(3, b) /\ get_page_index(4, a) = get_page_index(4, b)
  BY IndexIs, SMTT(40)
<1>2. get_page_table(u, 1, a) = get_page_table(u, 1, b)
  BY <1>1, SMTT(40) DEF get_page_table
<1>3. QED
  BY <1>1, <1>2, SMTT(40) DEF Lookup

(* The byte at a distance from the start of an allocation.                 *)
LEMMA ByteOf ==
  ASSUME MarkedInv, OwnedInv, NEW c \in chunks, c.flags # {}, NEW d \in Nat, d < c.size
  PROVE  /\ translate(t, c.virt + d) = c.phys + d
         /\ Lookup(t, c.virt + d).flags = c.flags
<1> DEFINE k == d \div PAGE_SIZE
           m == d % PAGE_SIZE
           n == Pages(c)
<1>1. PAGE_SIZE \in Nat /\ PAGE_SIZE > 0 /\ PAGE_ALLOCATOR_START \in Nat
  BY PageSizeAssumption, SpaceAssumption, SMTT(40)
<1>2. IsChunk(c, va.bits) /\ First(c) \in Nat /\ n \in Nat /\ c.virt = PageAt(First(c)) /\ c.phys \in Nat
      /\ c.size \in Nat
  BY ChunkPages, ZenonT(40) DEF MarkedInv, IsChunk, Chunks
<1>3. k \in Nat /\ m \in 0..(PAGE_SIZE - 1) /\ d = k * PAGE_SIZE + m
  BY <1>1, SMTT(40)
<1>4. n * PAGE_SIZE >= c.size
  <2>1. n = (c.size + PAGE_SIZE - 1) \div PAGE_SIZE
    BY DEF Pages, div_ceil
  <2>2. PICK x \in Nat : x = c.size + PAGE_SIZE - 1
    BY <1>1, <1>2, SMTT(40)
  <2>3. n = x \div PAGE_SIZE
    BY <2>1, <2>2, SMTT(40)
  <2>4. x = (x \div PAGE_SIZE) * PAGE_SIZE + (x % PAGE_SIZE) /\ x % PAGE_SIZE \in 0..(PAGE_SIZE - 1)
    BY <1>1, SMTT(40)
  <2> HIDE DEF n
  <2>5. PICK y \in Nat : y = n * PAGE_SIZE
    BY <1>1, <1>2, SMTT(40)
  <2>6. PICK z \in 0..(PAGE_SIZE - 1) : x = y + z
    BY <2>3, <2>4, <2>5, SMTT(40)
  <2>7. y >= c.size
    BY <1>1, <1>2, <2>2, <2>6, SMTT(40)
  <2>8. QED
    BY <2>5, <2>7, SMTT(40)
<1> HIDE DEF k, m, n
<1>5. k < n
  <2> SUFFICES ASSUME k >= n PROVE FALSE
    BY <1>2, <1>3, SMTT(40)
  <2>1. k * PAGE_SIZE >= n * PAGE_SIZE /\ k * PAGE_SIZE \in Nat /\ n * PAGE_SIZE \in Nat
    BY <1>1, <1>2, <1>3, SMTT(40)
  <2>2. QED
    BY <1>1, <1>2, <1>3, <1>4, <2>1, SMTT(40)
<1>6. k \in 0..(n - 1)
  BY <1>2, <1>3, <1>5, SMTT(40)
<1>7. /\ Lookup(t, c.virt + k * PAGE_SIZE) = Entry(c.phys + k * PAGE_SIZE, c.flags)
      /\ c.virt + k * PAGE_SIZE = PageAt(First(c) + k)
  BY <1>2, <1>6, MappedChunks, ChunkPages, ZenonT(40) DEF MarkedInv, n
<1>8. PICK v \in Nat : v = First(c) + k
  BY <1>2, <1>3, SMTT(40)
<1>9. PICK b \in Nat : PAGE_ALLOCATOR_START = b * PAGE_SIZE
  <2>1. PAGE_ALLOCATOR_START \div PAGE_SIZE \in Nat
    BY <1>1
  <2>2. PAGE_ALLOCATOR_START % PAGE_SIZE = 0
    BY SpaceAssumption, SMTT(40) DEF Aligned
  <2>3. PAGE_ALLOCATOR_START = (PAGE_ALLOCATOR_START \div PAGE_SIZE) * PAGE_SIZE
    BY <1>1, <2>2, SMTT(40)
  <2>4. QED
    BY <2>1, <2>3, SMTT(40)
<1>10. PageAt(v) = (b + v) * PAGE_SIZE
  BY <1>1, <1>9, SMTT(40) DEF PageAt
<1>11. PICK w \in Nat : w = b + v
  OBVIOUS
<1>12. c.virt + d = w * PAGE_SIZE + m
  <2>1. k * PAGE_SIZE \in Nat /\ c.virt \in Nat /\ w * PAGE_SIZE \in Nat
    BY <1>1, <1>2, <1>3, SMTT(40) DEF IsChunk, Chunks
  <2>2. c.virt + k * PAGE_SIZE = w * PAGE_SIZE
    BY <1>7, <1>8, <1>10, <1>11, SMTT(40)
  <2>3. QED
    BY <1>3, <2>1, <2>2, SMTT(40)
<1>13. (w * PAGE_SIZE + m) \div PAGE_SIZE = w /\ (w * PAGE_SIZE + m) % PAGE_SIZE = m
  BY <1>1, <1>3, SMTT(40)
<1>14. PageOf(w * PAGE_SIZE) = w
  BY PageIs, SMTT(40)
<1>15. Lookup(t, c.virt + d) = Entry(c.phys + k * PAGE_SIZE, c.flags)
  <2>1. PageOf(c.virt + d) = PageOf(w * PAGE_SIZE)
    BY <1>12, <1>13, <1>14, SMTT(40) DEF PageOf
  <2>2. Lookup(t, c.virt + d) = Lookup(t, w * PAGE_SIZE)
    BY <2>1, SamePageSameEntry, SMTT(40)
  <2>3. QED
    BY <1>7, <1>8, <1>10, <1>11, <2>2, SMTT(40)
<1>16. ~is_unused(Lookup(t, c.virt + d)) /\ Lookup(t, c.virt + d).flags = c.flags
       /\ Lookup(t, c.virt + d).addr = c.phys + k * PAGE_SIZE
  BY <1>15, SMTT(40) DEF is_unused, Unused, Entry
<1>17. translate(t, c.virt + d) = c.phys + k * PAGE_SIZE + m
  BY <1>12, <1>13, <1>16, SMTT(40) DEF translate
<1>18. QED
  BY <1>1, <1>2, <1>3, <1>16, <1>17, SMTT(40)

LEMMA AccessIsInside ==
  ASSUME MarkedInv, NEW c \in chunks, NEW checks, NEW write, NEW offset \in Offsets, NEW len \in ValueSizes,
         AccessAt(checks, c, write, offset, len) # None
  PROVE  /\ AccessAt(checks, c, write, offset, len) = c.virt + offset
         /\ offset \in Nat /\ len \in Nat /\ offset + len < c.size
         /\ "PRESENT" \in c.flags /\ (write => "WRITABLE" \in c.flags)
<1>1. /\ handle_errors(checks, c, write, offset, len) = "Ok"
      /\ AccessAt(checks, c, write, offset, len) = c.virt + offset
      /\ ~(c.virt + offset >= WordSize)
  BY DEF AccessAt, Add
<1>2. /\ "PRESENT" \in c.flags /\ (write => "WRITABLE" \in c.flags)
      /\ ~((offset + len) % WordSize >= c.size)
  BY <1>1 DEF handle_errors
<1>3. /\ offset \in Nat /\ len \in Nat /\ len <= PAGE_ALLOCATOR_START
      /\ WordSize \in Nat /\ PAGE_ALLOCATOR_START \in Nat
  BY CallersAssumption, SpaceAssumption, SMTT(40)
<1>4. c.virt \in Nat /\ c.size \in Nat /\ c.virt >= PAGE_ALLOCATOR_START
  <2>1. c \in Chunks /\ First(c) \in Nat /\ c.virt = PageAt(First(c))
    BY DEF MarkedInv, IsChunk
  <2>2. First(c) * PAGE_SIZE \in Nat
    BY <2>1, PageIs, SMTT(40)
  <2>3. QED
    BY <1>3, <2>1, <2>2, SMTT(40) DEF PageAt, Chunks
<1>5. offset + len < WordSize
  BY <1>1, <1>3, <1>4, SMTT(40)
<1>6. (offset + len) % WordSize = offset + len
  BY <1>3, <1>5, ModSmall, SMTT(40)
<1>7. QED
  BY <1>1, <1>2, <1>3, <1>4, <1>6, SMTT(40)

(* For requests of up to 16 pages: an access that handle_errors lets       *)
(* through stays inside one live allocation, on pages with the permission  *)
(* it needs, at the frames of that allocation, with overflow checks on or  *)
(* off.                                                                    *)
THEOREM AccessesStayInside ==
  ASSUME \A size \in Sizes : div_ceil(size) <= 16
  PROVE  Spec => []AdmittedAccessIsMapped
<1>1. MarkedInv /\ OwnedInv => AdmittedAccessIsMapped
  <2> SUFFICES ASSUME MarkedInv, OwnedInv,
                      NEW c \in chunks, NEW checks \in BOOLEAN, NEW write \in BOOLEAN,
                      NEW offset \in Offsets, NEW len \in ValueSizes,
                      AccessAt(checks, c, write, offset, len) # None,
                      NEW b \in AccessAt(checks, c, write, offset, len)
                                ..(AccessAt(checks, c, write, offset, len) + len - 1)
               PROVE  /\ b < c.virt + c.size /\ translate(t, b) = c.phys + (b - c.virt)
                      /\ "PRESENT" \in Lookup(t, b).flags
                      /\ write => "WRITABLE" \in Lookup(t, b).flags
    BY ZenonT(40) DEF AdmittedAccessIsMapped
  <2>1. /\ AccessAt(checks, c, write, offset, len) = c.virt + offset
        /\ offset \in Nat /\ len \in Nat /\ offset + len < c.size
        /\ "PRESENT" \in c.flags /\ (write => "WRITABLE" \in c.flags)
    BY AccessIsInside, ZenonT(40)
  <2>2. c.virt \in Nat /\ c.size \in Nat
    BY DEF MarkedInv, IsChunk, Chunks
  <2>3. b \in (c.virt + offset)..(c.virt + offset + len - 1)
    BY <2>1, SMTT(40)
  <2>4. PICK d \in Nat : d = b - c.virt
    BY <2>1, <2>2, <2>3, SMTT(40)
  <2>5. b = c.virt + d /\ d < c.size
    BY <2>1, <2>2, <2>3, <2>4, SMTT(40)
  <2>6. translate(t, c.virt + d) = c.phys + d /\ Lookup(t, c.virt + d).flags = c.flags
    BY <2>1, <2>5, ByteOf, ZenonT(40)
  <2>7. QED
    BY <2>1, <2>2, <2>4, <2>5, <2>6, SMTT(40)
<1>2. QED
  BY <1>1, AlwaysOwned, PTL
=============================================================================
