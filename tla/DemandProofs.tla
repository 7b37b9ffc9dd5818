--------------------------- MODULE DemandProofs ---------------------------
(***************************************************************************)
(* What the boot takes from the largest region, counted: for every memory  *)
(* map, layout of the kernel and size of the heap, as many frames as the   *)
(* heap, the bitmaps and the tables of the mapped pages need.              *)
(***************************************************************************)
EXTENDS ProtectionProofs, FiniteSetTheorems

-----------------------------------------------------------------------------
(* The addresses that are still to be mapped, and the pages that have all  *)
(* the tables of their path.                                               *)
Addresses(W) == { w[1] : w \in W }

ToMap ==
  CASE pc = "map" -> Addresses(PagesLeft(jobs)) \cup HeapSpan
    [] pc \in {"stack", "clear"} -> HeapSpan
    [] pc = "heap" -> Addresses(PagesLeft(jobs))
    [] OTHER -> {}

Served == { a \in BootPages : ~Reserved(a) /\ get_page_table(t, 1, a) # None }

BitmapFrames ==
  CASE pc = "clear" -> size_in_pages(size_bytes)
    [] pc \in {"heap", "booted"} -> size_in_pages(size_bytes) + size_in_pages(2 * size_bytes)
    [] OTHER -> 0

(* Pages that have their tables, and tables that are on the way to one.    *)
Serves(u, S) == \A a \in S : a \in Nat /\ ~Reserved(a) /\ get_page_table(u, 1, a) # None

Covers(u, S) == \A f \in DOMAIN u.mem \ {u.lvl4} : \E n \in 1..3, a \in S : get_page_table(u, n, a) = f

PagesSplit == ToMap \subseteq BootPages /\ BootPages \subseteq Served \cup ToMap

FramesCounted ==
  /\ IsFiniteSet(DOMAIN t.mem)
  /\ linear = HeapPhys + (HEAP_PAGES + Cardinality(DOMAIN t.mem) + BitmapFrames) * PAGE_SIZE

(* Every table but the root is on the path of a page that is served, every *)
(* page is served or still to be mapped, and a frame was taken for every   *)
(* table, every page of the heap and every page of the bitmaps so far.     *)
DemandInv ==
  pc \notin {"start", "failed"} => PagesSplit /\ Covers(t, Served) /\ FramesCounted

-----------------------------------------------------------------------------
(* So many pages from an address on.                                       *)
Span(addr, n) == { addr + k * PAGE_SIZE : k \in 0..(n - 1) }

Splits(a, m, b, n, c) == Span(a, c) = Span(a, m) \cup Span(b, n)

LEMMA SpanJoin ==
  ASSUME NEW a \in Nat, NEW m \in Nat, NEW n \in Nat, NEW b, b = a + m * PAGE_SIZE, NEW c, c = m + n
  PROVE  Splits(a, m, b, n, c)
<1> DEFINE Nth(k) == a + k * PAGE_SIZE
<1>1. PAGE_SIZE \in Nat
  BY PageSizeAssumption
<1>2. \A k \in Nat : b + k * PAGE_SIZE = Nth(m + k)
  BY <1>1
<1>3. /\ Span(a, c) = { Nth(k) : k \in 0..(c - 1) } /\ Span(a, m) = { Nth(k) : k \in 0..(m - 1) }
      /\ Span(b, n) = { b + k * PAGE_SIZE : k \in 0..(n - 1) }
  BY DEF Span
<1> HIDE DEF Nth
<1>4. Span(b, n) = { Nth(m + k) : k \in 0..(n - 1) }
  <2>1. \A k \in 0..(n - 1) : b + k * PAGE_SIZE = Nth(m + k)
    BY <1>2
  <2>2. QED
    BY <1>3, <2>1
<1>5. \A k \in 0..(c - 1) : k \in 0..(m - 1) \/ (k - m \in 0..(n - 1) /\ m + (k - m) = k)
  OBVIOUS
<1>6. /\ \A k \in 0..(m - 1) : k \in 0..(c - 1)
      /\ \A k \in 0..(n - 1) : m + k \in 0..(c - 1)
  OBVIOUS
<1>7. Span(a, c) \subseteq Span(a, m) \cup Span(b, n)
  BY <1>3, <1>4, <1>5
<1>8. Span(a, m) \cup Span(b, n) \subseteq Span(a, c)
  BY <1>3, <1>4, <1>6
<1>9. QED
  BY <1>7, <1>8 DEF Splits

LEMMA PagesOfSum ==
  ASSUME NEW c \in Nat, NEW size \in Nat
  PROVE  /\ size_in_pages(c * PAGE_SIZE) = c
         /\ size_in_pages(c * PAGE_SIZE + size) = c + size_in_pages(size)
<1>1. PAGE_SIZE \in Nat /\ PAGE_SIZE > 0
  BY PageSizeAssumption
<1>2. PICK q \in Nat, r \in 0..(PAGE_SIZE - 1) :
        size = q * PAGE_SIZE + r /\ size \div PAGE_SIZE = q /\ size % PAGE_SIZE = r
  BY <1>1
<1>3. c * PAGE_SIZE + size = (c + q) * PAGE_SIZE + r
  BY <1>1, <1>2
<1>4. \A x \in Nat : (x * PAGE_SIZE + r) \div PAGE_SIZE = x /\ (x * PAGE_SIZE + r) % PAGE_SIZE = r
  BY <1>1
<1>5. (c * PAGE_SIZE) \div PAGE_SIZE = c /\ (c * PAGE_SIZE) % PAGE_SIZE = 0
  BY <1>1
<1>6. c + q \in Nat
  OBVIOUS
<1>7. (c * PAGE_SIZE + size) \div PAGE_SIZE = c + q /\ (c * PAGE_SIZE + size) % PAGE_SIZE = r
  BY <1>3, <1>4, <1>6
<1>8. QED
  BY <1>2, <1>5, <1>7 DEF size_in_pages

(* The sections, one after another, and the rest of the kernel's region    *)
(* are the pages of that region.                                           *)
LEMMA KernelSpan ==
  ASSUME mmap \in MemoryMaps, OfType({"ExecutableAndModules"}) # {}
  PROVE  PagesFrom(Sections[1], k_sect.length) =
           UNION { Span(map_kernel[i].to, map_kernel[i].left) : i \in 1..5 }
<1> DEFINE C(i) == size_in_pages(Sections[i + 1] - Sections[i])
           rest == k_sect.length - (Sections[5] - Sections[1])
<1>1. PAGE_SIZE \in Nat /\ PAGE_SIZE > 0
  BY PageSizeAssumption
<1>2. ASSUME NEW i \in 1..4 PROVE C(i) \in Nat /\ Sections[i + 1] = Sections[i] + C(i) * PAGE_SIZE
  <2>1. PICK x \in Nat, y \in Nat : x = Sections[i] /\ y = Sections[i + 1] /\ Aligned(x) /\ Aligned(y) /\ x <= y
    <3>1. i \in 1..5 /\ i + 1 \in 1..5
      OBVIOUS
    <3>2. QED
      BY <3>1, SectionsAssumption
  <2>2. Aligned(y - x)
    BY <2>1, AlignedSums, Zenon
  <2>3. PICK d \in Nat : d = y - x /\ d % PAGE_SIZE = 0
    BY <2>1, <2>2 DEF Aligned
  <2>4. PICK c \in Nat : c = d \div PAGE_SIZE /\ d = c * PAGE_SIZE
    BY <1>1, <2>3
  <2>5. size_in_pages(d) = c
    BY <2>3, <2>4 DEF size_in_pages
  <2>6. y = x + c * PAGE_SIZE
    BY <1>1, <2>3, <2>4
  <2>7. QED
    BY <2>1, <2>3, <2>5, <2>6
<1>3. PICK c1 \in Nat, c2 \in Nat, c3 \in Nat, c4 \in Nat : c1 = C(1) /\ c2 = C(2) /\ c3 = C(3) /\ c4 = C(4)
  BY <1>2
<1>4. /\ Sections[2] = Sections[1] + c1 * PAGE_SIZE /\ Sections[3] = Sections[2] + c2 * PAGE_SIZE
      /\ Sections[4] = Sections[3] + c3 * PAGE_SIZE /\ Sections[5] = Sections[4] + c4 * PAGE_SIZE
  <2> HIDE DEF C
  <2>1. 1 \in 1..4 /\ 2 \in 1..4 /\ 3 \in 1..4 /\ 4 \in 1..4 /\ 1 + 1 = 2 /\ 2 + 1 = 3 /\ 3 + 1 = 4 /\ 4 + 1 = 5
    OBVIOUS
  <2>2. QED
    BY <1>2, <1>3, <2>1
<1>5. PICK s1 \in Nat, s2 \in Nat, s3 \in Nat, s4 \in Nat, s5 \in Nat :
        s1 = Sections[1] /\ s2 = Sections[2] /\ s3 = Sections[3] /\ s4 = Sections[4] /\ s5 = Sections[5]
  BY SectionsAssumption
<1>6. k_sect.length \in Nat /\ rest \in Nat
  <2>1. OfType({"ExecutableAndModules"}) \subseteq Nat
    BY MapIs DEF OfType
  <2>2. Min(OfType({"ExecutableAndModules"})) \in OfType({"ExecutableAndModules"})
    BY <2>1, NatMin
  <2>3. k_sect \in Regions /\ k_sect.length >= Sections[5] - Sections[1]
    BY <2>2, MapIs, KernelRegionAssumption DEF k_sect, OfType
  <2>4. QED
    BY <1>5, <2>3 DEF Regions
<1>7. PICK size \in Nat, r \in Nat : size = k_sect.length /\ r = rest /\ r = size - (s5 - s1)
  BY <1>5, <1>6
<1>8. size_in_pages(r) \in Nat
  BY SizeInPages
<1>9. PICK c5 \in Nat : c5 = size_in_pages(r)
  BY <1>8
<1>10. /\ map_kernel[1].to = s1 /\ map_kernel[1].left = c1 /\ map_kernel[2].to = s2 /\ map_kernel[2].left = c2
       /\ map_kernel[3].to = s3 /\ map_kernel[3].left = c3 /\ map_kernel[4].to = s4 /\ map_kernel[4].left = c4
       /\ map_kernel[5].to = s5 /\ map_kernel[5].left = c5
  BY <1>3, <1>5, <1>7, <1>9 DEF map_kernel, map_kernel_section, Job
<1> HIDE DEF C, rest
<1>11. /\ s2 = s1 + c1 * PAGE_SIZE /\ s3 = s2 + c2 * PAGE_SIZE /\ s4 = s3 + c3 * PAGE_SIZE
       /\ s5 = s4 + c4 * PAGE_SIZE
  BY <1>4, <1>5
<1>12. size = (c1 + c2 + c3 + c4) * PAGE_SIZE + r
  <2>1. PICK d1 \in Nat, d2 \in Nat, d3 \in Nat, d4 \in Nat :
          d1 = c1 * PAGE_SIZE /\ d2 = c2 * PAGE_SIZE /\ d3 = c3 * PAGE_SIZE /\ d4 = c4 * PAGE_SIZE
    BY <1>1
  <2>2. (c1 + c2 + c3 + c4) * PAGE_SIZE = d1 + d2 + d3 + d4
    BY <1>1, <2>1
  <2>3. QED
    BY <1>7, <1>11, <2>1, <2>2
<1>13. size_in_pages(size) = (c1 + c2 + c3 + c4) + c5
  <2>1. c1 + c2 + c3 + c4 \in Nat
    OBVIOUS
  <2>2. QED
    BY <1>9, <1>12, <2>1, PagesOfSum
<1>14. PICK t4 \in Nat, t3 \in Nat, t2 \in Nat, t1 \in Nat :
         t4 = c4 + c5 /\ t3 = c3 + t4 /\ t2 = c2 + t3 /\ t1 = c1 + t2
  OBVIOUS
<1>15. /\ PagesFrom(s1, size) = Span(s1, t1)
       /\ Span(s1, t1) = Span(s1, c1) \cup Span(s2, t2) /\ Span(s2, t2) = Span(s2, c2) \cup Span(s3, t3)
       /\ Span(s3, t3) = Span(s3, c3) \cup Span(s4, t4) /\ Span(s4, t4) = Span(s4, c4) \cup Span(s5, c5)
  <2>1. size_in_pages(size) = t1
    BY <1>13, <1>14
  <2>2. PagesFrom(s1, size) = Span(s1, t1)
    BY <2>1 DEF PagesFrom, Span
  <2>3. Splits(s1, c1, s2, t2, t1)
    BY <1>11, <1>14, SpanJoin, Zenon
  <2>4. Splits(s2, c2, s3, t3, t2)
    BY <1>11, <1>14, SpanJoin, Zenon
  <2>5. Splits(s3, c3, s4, t4, t3)
    BY <1>11, <1>14, SpanJoin, Zenon
  <2>6. Splits(s4, c4, s5, c5, t4)
    BY <1>11, <1>14, SpanJoin, Zenon
  <2>7. QED
    BY <2>2, <2>3, <2>4, <2>5, <2>6, Zenon DEF Splits
<1>16. UNION { Span(map_kernel[i].to, map_kernel[i].left) : i \in 1..5 } =
         Span(s1, c1) \cup Span(s2, c2) \cup Span(s3, c3) \cup Span(s4, c4) \cup Span(s5, c5)
  <2>1. \A i \in 1..5 : i = 1 \/ i = 2 \/ i = 3 \/ i = 4 \/ i = 5
    OBVIOUS
  <2>2. 1 \in 1..5 /\ 2 \in 1..5 /\ 3 \in 1..5 /\ 4 \in 1..5 /\ 5 \in 1..5
    OBVIOUS
  <2>3. ASSUME NEW x
        PROVE  (\E i \in 1..5 : x \in Span(map_kernel[i].to, map_kernel[i].left)) <=>
                 \/ x \in Span(s1, c1) \/ x \in Span(s2, c2) \/ x \in Span(s3, c3)
                 \/ x \in Span(s4, c4) \/ x \in Span(s5, c5)
    <3> DEFINE In(i) == x \in Span(map_kernel[i].to, map_kernel[i].left)
    <3>1. /\ In(1) <=> x \in Span(s1, c1)
          /\ In(2) <=> x \in Span(s2, c2)
          /\ In(3) <=> x \in Span(s3, c3)
          /\ In(4) <=> x \in Span(s4, c4)
          /\ In(5) <=> x \in Span(s5, c5)
      BY <1>10
    <3> HIDE DEF In
    <3>2. (\E i \in 1..5 : In(i)) <=> In(1) \/ In(2) \/ In(3) \/ In(4) \/ In(5)
      BY <2>1, <2>2
    <3>3. QED
      BY <3>1, <3>2 DEF In
  <2>4. QED
    BY <2>3, Zenon
<1>17. QED
  BY <1>5, <1>7, <1>15, <1>16, Zenon

-----------------------------------------------------------------------------
(* The addresses of a queue are those of its jobs.                         *)
LEMMA LeftIs ==
  ASSUME NEW q, NEW a
  PROVE  a \in Addresses(PagesLeft(q)) <=> \E i \in 1..Len(q) : a \in Span(q[i].to, q[i].left)
<1>1. \A j : a \in Span(j.to, j.left) <=> \E w \in PagesOfJob(j) : w[1] = a
  <2> TAKE j
  <2> DEFINE e(k) == Entry(j.from + k * PAGE_SIZE, j.flags)
             b(k) == j.to + k * PAGE_SIZE
  <2>1. /\ PagesOfJob(j) = { <<b(k), e(k)>> : k \in 0..(j.left - 1) }
        /\ Span(j.to, j.left) = { b(k) : k \in 0..(j.left - 1) }
    BY DEF PagesOfJob, Span
  <2>2. \A k : <<b(k), e(k)>>[1] = b(k)
    OBVIOUS
  <2> HIDE DEF e, b
  <2>3. QED
    BY <2>1, <2>2
<1>2. a \in Addresses(PagesLeft(q)) <=> \E w \in PagesLeft(q) : w[1] = a
  BY DEF Addresses
<1>3. \A w : w \in PagesLeft(q) <=> \E i \in 1..Len(q) : w \in PagesOfJob(q[i])
  BY DEF PagesLeft
<1>4. QED
  BY <1>1, <1>2, <1>3, Zenon

(* The calls before the heap map the kernel and the loader's regions.      *)
LEMMA PlanPages ==
  ASSUME mmap \in MemoryMaps, OfType({"ExecutableAndModules"}) # {}
  PROVE  Addresses(Wanted) = PagesFrom(Sections[1], k_sect.length) \cup MiscPages
<1> DEFINE K == map_kernel
           M == map_misc
           J == K \o M
           left(n) == IF mmap[n].type \in MiscTypes THEN size_in_pages(mmap[n].length) ELSE 0
           In(j, a) == a \in Span(j.to, j.left)
<1>1. K \in Seq(MapJobs) /\ Len(K) = 5 /\ M \in Seq(MapJobs)
  BY KernelJobs, MiscJobs
<1>2. /\ DOMAIN mmap = 1..Len(mmap) /\ Len(mmap) \in Nat /\ M = [n \in 1..Len(mmap) |-> M[n]]
      /\ \A n \in 1..Len(mmap) : M[n].to = mmap[n].base + HHDM /\ M[n].left = left(n)
  BY MapIs DEF map_misc, Job
<1>3. Wanted = PagesLeft(J)
  BY DEF Wanted
<1> HIDE DEF K, M
<1>4. Len(M) = Len(mmap)
  <2>1. \A S : \A x \in Seq(S), m \in Nat : DOMAIN x = 1..m => Len(x) = m
    OBVIOUS
  <2>2. DOMAIN M = 1..Len(mmap)
    BY <1>2
  <2>3. QED
    BY <1>1, <1>2, <2>1, <2>2, Zenon
<1>5. JoinIs(K, M, J)
  BY <1>1, Joined, Zenon
<1> HIDE DEF J
<1>6. /\ Len(J) = 5 + Len(mmap) /\ \A i \in 1..5 : J[i] = K[i]
      /\ \A n \in 1..Len(mmap) : J[5 + n] = M[n]
  BY <1>1, <1>4, <1>5 DEF JoinIs
<1>7. /\ \A i \in 1..Len(J) : i \in 1..5 \/ (i - 5 \in 1..Len(mmap) /\ J[i] = M[i - 5])
      /\ \A i \in 1..5 : i \in 1..Len(J)
      /\ \A n \in 1..Len(mmap) : 5 + n \in 1..Len(J)
  <2>1. \A i \in 1..Len(J) : i \in 1..5 \/ (i - 5 \in 1..Len(mmap) /\ 5 + (i - 5) = i)
    BY <1>2, <1>6
  <2>2. QED
    BY <1>2, <1>6, <2>1
<1> SUFFICES ASSUME NEW a
             PROVE  a \in Addresses(Wanted) <=>
                      a \in PagesFrom(Sections[1], k_sect.length) \/ a \in MiscPages
  OBVIOUS
<1>8. a \in Addresses(Wanted) <=> \E i \in 1..Len(J) : In(J[i], a)
  BY <1>3, LeftIs, Zenon
<1>9. a \in PagesFrom(Sections[1], k_sect.length) <=> \E i \in 1..5 : In(K[i], a)
  <2>1. PagesFrom(Sections[1], k_sect.length) = UNION { Span(K[i].to, K[i].left) : i \in 1..5 }
    BY KernelSpan DEF K
  <2>2. QED
    BY <2>1
<1>10. a \in MiscPages <=> \E n \in 1..Len(mmap) : In(M[n], a)
  <2>1. \A n \in 1..Len(mmap) : mmap[n].type \notin MiscTypes => Span(M[n].to, M[n].left) = {}
    BY <1>2 DEF Span
  <2>2. \A n \in 1..Len(mmap) : mmap[n].type \in MiscTypes =>
          Span(M[n].to, M[n].left) = PagesFrom(mmap[n].base + HHDM, mmap[n].length)
    BY <1>2 DEF Span, PagesFrom
  <2>3. a \in MiscPages <=>
          \E n \in 1..Len(mmap) : mmap[n].type \in MiscTypes /\ a \in PagesFrom(mmap[n].base + HHDM, mmap[n].length)
    BY <1>2 DEF MiscPages, OfType
  <2>4. QED
    BY <2>1, <2>2, <2>3
<1> HIDE DEF In
<1>11. (\E i \in 1..Len(J) : In(J[i], a)) <=> (\E i \in 1..5 : In(K[i], a)) \/ \E n \in 1..Len(mmap) : In(M[n], a)
  BY <1>6, <1>7
<1>12. QED
  BY <1>8, <1>9, <1>10, <1>11, Zenon

-----------------------------------------------------------------------------
(* The boot maps finitely many pages.                                      *)
LEMMA FiniteValues ==
  ASSUME NEW A, IsFiniteSet(A), NEW g
  PROVE  IsFiniteSet(Values(g, A))
<1> DEFINE k == [p \in A |-> p]
<1>1. \A p, r \in A : k[p] = k[r] => g[p] = g[r]
  OBVIOUS
<1> HIDE DEF k
<1>2. QED
  BY <1>1, FewerValues, Zenon

LEMMA SpanFinite ==
  ASSUME NEW addr \in Nat, NEW size \in Nat
  PROVE  PagesFrom(addr, size) \in SUBSET Nat /\ IsFiniteSet(PagesFrom(addr, size))
<1> DEFINE top == size_in_pages(size) - 1
           g == [k \in 0..top |-> addr + k * PAGE_SIZE]
<1>1. PAGE_SIZE \in Nat /\ top \in Int
  BY PageSizeAssumption, SizeInPages
<1>2. \A k \in 0..top : addr + k * PAGE_SIZE \in Nat
  BY <1>1
<1>3. IsFiniteSet(0..top)
  <2> HIDE DEF top
  <2>1. QED
    BY <1>1, FS_Interval
<1>4. PagesFrom(addr, size) = Values(g, 0..top)
  BY DEF PagesFrom, Values
<1>5. IsFiniteSet(Values(g, 0..top))
  <2> HIDE DEF g, top
  <2>1. QED
    BY <1>3, FiniteValues
<1>6. PagesFrom(addr, size) \in SUBSET Nat
  BY <1>2 DEF PagesFrom
<1> HIDE DEF g, top
<1>7. QED
  BY <1>4, <1>5, <1>6

LEMMA BootPagesFinite ==
  ASSUME mmap \in MemoryMaps, OfType({"Usable"}) # {}, OfType({"ExecutableAndModules"}) # {}
  PROVE  BootPages \in SUBSET Nat /\ IsFiniteSet(BootPages)
<1> DEFINE K == PagesFrom(Sections[1], k_sect.length)
           h == [i \in OfType(MiscTypes) |-> PagesFrom(mmap[i].base + HHDM, mmap[i].length)]
           V == Values(h, OfType(MiscTypes))
<1>1. /\ DOMAIN mmap = 1..Len(mmap) /\ Len(mmap) \in Nat /\ \A i \in DOMAIN mmap : mmap[i] \in Regions
      /\ RegionsKnown
  BY MapIs
<1>2. HHDM \in Nat /\ HEAP_PAGES * PAGE_SIZE \in Nat /\ Sections[1] \in Nat /\ HeapPhys \in Nat
  BY <1>1, AddressesAssumption, PageSizeAssumption, SectionsAssumption DEF RegionsKnown
<1>3. K \in SUBSET Nat /\ IsFiniteSet(K)
  <2>1. OfType({"ExecutableAndModules"}) \subseteq Nat
    BY <1>1 DEF OfType
  <2>2. Min(OfType({"ExecutableAndModules"})) \in OfType({"ExecutableAndModules"})
    BY <2>1, NatMin
  <2>3. k_sect \in Regions
    BY <1>1, <2>2 DEF k_sect, OfType
  <2>4. k_sect.length \in Nat
    BY <2>3 DEF Regions
  <2>5. QED
    BY <1>2, <2>4, SpanFinite, Zenon
<1>4. HeapSpan \in SUBSET Nat /\ IsFiniteSet(HeapSpan)
  <2>1. HeapPhys + HHDM \in Nat
    BY <1>2
  <2>2. QED
    BY <1>2, <2>1, SpanFinite, Zenon DEF HeapSpan
<1>5. \A i \in OfType(MiscTypes) : h[i] \in SUBSET Nat /\ IsFiniteSet(h[i])
  <2> TAKE i \in OfType(MiscTypes)
  <2>1. mmap[i].base + HHDM \in Nat /\ mmap[i].length \in Nat
    BY <1>1, <1>2 DEF OfType, Regions
  <2>2. PagesFrom(mmap[i].base + HHDM, mmap[i].length) \in SUBSET Nat
        /\ IsFiniteSet(PagesFrom(mmap[i].base + HHDM, mmap[i].length))
    BY <2>1, SpanFinite, Zenon
  <2>3. QED
    BY <2>2, Zenon
<1>6. MiscPages = UNION V
  BY DEF MiscPages, Values
<1> HIDE DEF h
<1>7. IsFiniteSet(V)
  <2>1. IsFiniteSet(1..Len(mmap))
    BY <1>1, FS_Interval
  <2>2. OfType(MiscTypes) \in SUBSET (1..Len(mmap))
    BY <1>1 DEF OfType
  <2>3. IsFiniteSet(OfType(MiscTypes))
    BY <2>1, <2>2, FS_Subset
  <2>4. QED
    BY <2>3, FiniteValues
<1>8. \A T \in V : T \in SUBSET Nat /\ IsFiniteSet(T)
  BY <1>5, Zenon DEF Values
<1> HIDE DEF V
<1>9. MiscPages \in SUBSET Nat /\ IsFiniteSet(MiscPages)
  BY <1>6, <1>7, <1>8, FS_UNION, Zenon
<1> HIDE DEF K
<1>10. IsFiniteSet(K \cup HeapSpan)
  BY <1>3, <1>4, FS_Union
<1>11. IsFiniteSet((K \cup HeapSpan) \cup MiscPages)
  BY <1>9, <1>10, FS_Union
<1>12. QED
  BY <1>3, <1>4, <1>9, <1>11, Zenon DEF BootPages, K

-----------------------------------------------------------------------------
(* Counting the tables of a level by the paths that lead to them.          *)
TablesAt(u, n, S) == { get_page_table(u, n, a) : a \in S }

HasTable(u, lv, a, n) ==
  /\ get_page_table(u, n, a) # None /\ get_page_table(u, n, a) \in DOMAIN u.mem
  /\ lv[get_page_table(u, n, a)] = n

LEMMA ServedAbove ==
  ASSUME NEW root, NEW u, IsTable(root, u), NEW lv, IsTree(root, u.mem, lv),
         NEW a \in Nat, ~Reserved(a), get_page_table(u, 1, a) # None, NEW n \in 1..3
  PROVE  HasTable(u, lv, a, n)
<1>1. OnPath(u, lv, a)
  BY PathKnown, Zenon
<1>2. \A k \in 1..3 : get_page_table(u, k + 1, a) = None => get_page_table(u, k, a) = None
  BY <1>1, Zenon DEF OnPath
<1> DEFINE g(k) == get_page_table(u, k, a)
<1>3. \A k \in 1..3 : g(k + 1) = None => g(k) = None
  BY <1>2
<1>4. g(1) # None /\ n \in 1..4
  OBVIOUS
<1> HIDE DEF g
<1>5. g(2) # None /\ g(3) # None
  <2>1. 1 \in 1..3 /\ 2 \in 1..3 /\ 1 + 1 = 2 /\ 2 + 1 = 3
    OBVIOUS
  <2>2. QED
    BY <1>3, <1>4, <2>1
<1>6. g(n) # None
  <2>1. n = 1 \/ n = 2 \/ n = 3
    OBVIOUS
  <2>2. QED
    BY <1>4, <1>5, <2>1
<1>7. QED
  BY <1>1, <1>4, <1>6, Zenon DEF OnPath, HasTable, g

(* A path of indices leads to one table, and a table is at the end of one. *)
SamePlace(u, a, b, n) == get_page_table(u, n, a) = get_page_table(u, n, b) <=> PathTo(n, a) = PathTo(n, b)

LEMMA PathIsTable ==
  ASSUME NEW root, NEW u, IsTable(root, u), NEW lv, IsTree(root, u.mem, lv),
         NEW a \in Nat, ~Reserved(a), get_page_table(u, 1, a) # None,
         NEW b \in Nat, ~Reserved(b), get_page_table(u, 1, b) # None, NEW n \in 1..3
  PROVE  SamePlace(u, a, b, n)
<1>1. ASSUME get_page_table(u, n, a) = get_page_table(u, n, b) PROVE PathTo(n, a) = PathTo(n, b)
  <2>1. get_page_table(u, n, a) # None
    <3>1. HasTable(u, lv, a, n)
      BY ServedAbove, Zenon
    <3>2. QED
      BY <3>1, Zenon DEF HasTable
  <2>2. OneWay(a, b, n)
    BY <1>1, <2>1, OnePath, Zenon
  <2>3. QED
    BY <2>2 DEF OneWay, PathTo
<1>2. ASSUME PathTo(n, a) = PathTo(n, b) PROVE get_page_table(u, n, a) = get_page_table(u, n, b)
  <2> DEFINE I(m) == get_page_index(m, a) = get_page_index(m, b)
             T(m) == get_page_table(u, m, a) = get_page_table(u, m, b)
  <2>1. \A m \in (n + 1)..4 : I(m)
    <3>1. \A m \in (n + 1)..4 : PathTo(n, a)[m] = get_page_index(m, a) /\ PathTo(n, b)[m] = get_page_index(m, b)
      BY DEF PathTo
    <3>2. QED
      BY <1>2, <3>1
  <2>2. /\ I(4) => T(3)
        /\ I(3) /\ T(3) => T(2)
        /\ I(2) /\ T(2) => T(1)
    BY LookupIs
  <2> HIDE DEF I
  <2>5. T(n)
    <3> HIDE DEF T
    <3>1. n = 1 \/ n = 2 \/ n = 3
      OBVIOUS
    <3>2. QED
      BY <2>1, <2>2, <3>1
  <2>6. QED
    BY <2>5
<1>3. QED
  BY <1>1, <1>2, Zenon DEF SamePlace

CountsPaths(u, lv, S, n) ==
  /\ IsFiniteSet(TablesAt(u, n, S)) /\ Cardinality(TablesAt(u, n, S)) = Cardinality(PathsTo(n, S))
  /\ \A f \in TablesAt(u, n, S) : f \in DOMAIN u.mem /\ lv[f] = n

LEMMA PathsCount ==
  ASSUME NEW root, NEW u, IsTable(root, u), NEW lv, IsTree(root, u.mem, lv),
         NEW S, IsFiniteSet(S), Serves(u, S), NEW n \in 1..3
  PROVE  CountsPaths(u, lv, S, n)
<1> DEFINE T == [a \in S |-> get_page_table(u, n, a)]
           P == [a \in S |-> PathTo(n, a)]
<1>1. \A a, b \in S : T[a] = T[b] <=> P[a] = P[b]
  <2> TAKE a, b \in S
  <2>1. SamePlace(u, a, b, n)
    BY PathIsTable, Zenon DEF Serves
  <2>2. QED
    BY <2>1, Zenon DEF SamePlace
<1>2. \A a \in S : T[a] \in DOMAIN u.mem /\ lv[T[a]] = n
  <2> TAKE a \in S
  <2>1. HasTable(u, lv, a, n)
    BY ServedAbove, Zenon DEF Serves
  <2>2. QED
    BY <2>1, Zenon DEF HasTable
<1>3. TablesAt(u, n, S) = Values(T, S) /\ PathsTo(n, S) = Values(P, S)
  BY DEF TablesAt, PathsTo, Values
<1> HIDE DEF T, P
<1>4. /\ IsFiniteSet(Values(T, S)) /\ IsFiniteSet(Values(P, S))
      /\ Cardinality(Values(T, S)) <= Cardinality(Values(P, S))
  BY <1>1, FewerValues, Zenon
<1>5. Cardinality(Values(P, S)) <= Cardinality(Values(T, S))
  BY <1>1, FewerValues, Zenon
<1>6. Cardinality(Values(P, S)) \in Nat /\ Cardinality(Values(T, S)) \in Nat
  BY <1>4, FS_CardinalityType
<1>7. Cardinality(Values(T, S)) = Cardinality(Values(P, S))
  BY <1>4, <1>5, <1>6
<1>8. QED
  BY <1>2, <1>3, <1>4, <1>7, Zenon DEF Values, CountsPaths

LEMMA ApartUnion ==
  ASSUME NEW A, IsFiniteSet(A), NEW B, IsFiniteSet(B), \A x \in A : x \notin B
  PROVE  IsFiniteSet(A \cup B) /\ Cardinality(A \cup B) = Cardinality(A) + Cardinality(B)
<1>1. A \cap B = {}
  OBVIOUS
<1>2. Cardinality(A \cap B) = 0
  BY <1>1, FS_EmptySet
<1>3. Cardinality(A) \in Nat /\ Cardinality(B) \in Nat
  BY FS_CardinalityType
<1>4. /\ IsFiniteSet(A \cup B)
      /\ Cardinality(A \cup B) = Cardinality(A) + Cardinality(B) - Cardinality(A \cap B)
  BY FS_Union, Zenon
<1>5. QED
  BY <1>2, <1>3, <1>4

LEMMA TableCount ==
  ASSUME NEW root, NEW u, Tree(root, u), NEW S, IsFiniteSet(S), Serves(u, S), Covers(u, S)
  PROVE  Cardinality(DOMAIN u.mem) = TablesFor(S)
<1> DEFINE V(n) == TablesAt(u, n, S)
<1>1. PICK lv : IsTree(root, u.mem, lv)
  BY DEF Tree
<1>2. IsTable(root, u)
  BY DEF Tree
<1>3. \A n \in 1..3 : /\ IsFiniteSet(V(n)) /\ Cardinality(V(n)) = Cardinality(PathsTo(n, S))
                      /\ \A f \in V(n) : f \in DOMAIN u.mem /\ lv[f] = n
  <2>1. \A n \in 1..3 : CountsPaths(u, lv, S, n)
    BY <1>1, <1>2, PathsCount, Zenon
  <2>2. QED
    BY <2>1, Zenon DEF CountsPaths
<1>4. root \in DOMAIN u.mem /\ lv[root] = 4 /\ u.lvl4 = root
  BY <1>1, <1>2 DEF IsTree, HasLevels, IsTable, IsMem
<1>5. \A f \in DOMAIN u.mem \ {root} : \E n \in 1..3 : f \in V(n)
  BY <1>4, Zenon DEF Covers, TablesAt
<1> HIDE DEF V
<1>6. 1 \in 1..3 /\ 2 \in 1..3 /\ 3 \in 1..3 /\ \A n \in 1..3 : n = 1 \/ n = 2 \/ n = 3
  OBVIOUS
<1>7. DOMAIN u.mem = (({root} \cup V(1)) \cup V(2)) \cup V(3)
  <2>1. \A f \in DOMAIN u.mem : f = root \/ f \in V(1) \/ f \in V(2) \/ f \in V(3)
    BY <1>5, <1>6, Zenon
  <2>2. \A f \in V(1) \cup V(2) \cup V(3) : f \in DOMAIN u.mem
    BY <1>3, <1>6, Zenon
  <2>3. QED
    BY <1>4, <2>1, <2>2, Zenon
<1>8. IsFiniteSet({root}) /\ Cardinality({root}) = 1
  BY FS_Singleton
<1>9. /\ \A f \in {root} : f \notin V(1)
      /\ \A f \in {root} \cup V(1) : f \notin V(2)
      /\ \A f \in ({root} \cup V(1)) \cup V(2) : f \notin V(3)
  <2>1. /\ \A f \in V(1) : lv[f] = 1
        /\ \A f \in V(2) : lv[f] = 2
        /\ \A f \in V(3) : lv[f] = 3
    BY <1>3, <1>6, Zenon
  <2>2. QED
    BY <1>4, <2>1
<1>10. /\ IsFiniteSet({root} \cup V(1)) /\ Cardinality({root} \cup V(1)) = 1 + Cardinality(V(1))
  BY <1>3, <1>6, <1>8, <1>9, ApartUnion
<1>11. /\ IsFiniteSet(({root} \cup V(1)) \cup V(2))
       /\ Cardinality(({root} \cup V(1)) \cup V(2)) = Cardinality({root} \cup V(1)) + Cardinality(V(2))
  BY <1>3, <1>6, <1>9, <1>10, ApartUnion
<1>12. Cardinality((({root} \cup V(1)) \cup V(2)) \cup V(3)) =
         Cardinality(({root} \cup V(1)) \cup V(2)) + Cardinality(V(3))
  BY <1>3, <1>6, <1>9, <1>11, ApartUnion
<1>13. Cardinality(DOMAIN u.mem) = ((1 + Cardinality(V(1))) + Cardinality(V(2))) + Cardinality(V(3))
  BY <1>7, <1>10, <1>11, <1>12, Zenon
<1>14. QED
  BY <1>3, <1>6, <1>13, Zenon DEF TablesFor

(* More pages need no fewer tables.                                        *)
LEMMA MoreTables ==
  ASSUME NEW S, NEW B, S \subseteq B, IsFiniteSet(B)
  PROVE  TablesFor(S) \in Nat /\ TablesFor(B) \in Nat /\ TablesFor(S) <= TablesFor(B)
<1> DEFINE c(n) == Cardinality(PathsTo(n, S))
           d(n) == Cardinality(PathsTo(n, B))
<1>1. ASSUME NEW n \in 1..3 PROVE c(n) \in Nat /\ d(n) \in Nat /\ c(n) <= d(n)
  <2> DEFINE P == [a \in B |-> PathTo(n, a)]
  <2>1. PathsTo(n, B) = Values(P, B)
    BY DEF PathsTo, Values
  <2>2. PathsTo(n, S) \in SUBSET PathsTo(n, B)
    BY DEF PathsTo
  <2> HIDE DEF P
  <2>3. IsFiniteSet(PathsTo(n, B))
    BY <2>1, FiniteValues
  <2>4. IsFiniteSet(PathsTo(n, S)) /\ c(n) <= d(n)
    BY <2>2, <2>3, FS_Subset
  <2>5. QED
    BY <2>3, <2>4, FS_CardinalityType
<1>2. TablesFor(S) = 1 + c(1) + c(2) + c(3) /\ TablesFor(B) = 1 + d(1) + d(2) + d(3)
  BY DEF TablesFor
<1>3. 1 \in 1..3 /\ 2 \in 1..3 /\ 3 \in 1..3
  OBVIOUS
<1> HIDE DEF c, d
<1>4. QED
  BY <1>1, <1>2, <1>3

-----------------------------------------------------------------------------
(* What is to be mapped is fixed by the memory map.                        *)
SamePages == BootPages' = BootPages /\ HeapSpan' = HeapSpan /\ size_bytes' = size_bytes /\ HeapPhys' = HeapPhys

LEMMA PagesStay == SameMap => SamePages
<1> SUFFICES ASSUME SameMap PROVE SamePages
  OBVIOUS
<1>1. mmap' = mmap /\ HeapPhys' = HeapPhys /\ size_bytes' = size_bytes
  BY DEF SameMap
<1>2. k_sect' = k_sect
  BY <1>1, Zenon DEF k_sect, OfType
<1>3. MiscPages' = MiscPages
  BY PlanStays DEF SamePlan
<1>4. HeapSpan' = HeapSpan
  BY <1>1, Zenon DEF HeapSpan, PagesFrom
<1>5. BootPages' = BootPages
  BY <1>2, <1>3, <1>4, Zenon DEF BootPages, PagesFrom
<1>6. QED
  BY <1>1, <1>4, <1>5 DEF SamePages

(* What the invariants say once the boot has its tables.                   *)
Known ==
  /\ BootPages \in SUBSET Nat /\ IsFiniteSet(BootPages) /\ Serves(t, Served) /\ Served \in SUBSET BootPages
  /\ HeapPhys \in Nat /\ size_bytes \in Nat /\ Tree(t.lvl4, t) /\ linear \in Nat

LEMMA BootKnows ==
  ASSUME FlowInv, TableInv, pc \notin {"start", "failed"}
  PROVE  Known
<1>1. mmap \in MemoryMaps /\ OfType({"Usable"}) # {} /\ OfType({"ExecutableAndModules"}) # {}
  BY DEF FlowInv
<1>2. BootPages \in SUBSET Nat /\ IsFiniteSet(BootPages)
  BY <1>1, BootPagesFinite
<1>3. HeapPhys \in Nat /\ size_bytes \in Nat
  BY <1>1, MapIs DEF RegionsKnown
<1>4. Tree(t.lvl4, t) /\ linear \in Nat
  BY DEF TableInv, TablesTaken
<1>5. Serves(t, Served) /\ Served \in SUBSET BootPages
  BY <1>2, Zenon DEF Serves, Served
<1>6. QED
  BY <1>2, <1>3, <1>4, <1>5 DEF Known

(* Tables that stay where they are serve the pages they served.            *)
LEMMA ServedStays ==
  ASSUME Known, SamePages, PathsKept(t, t'), t'.lvl4 = t.lvl4, Covers(t, Served)
  PROVE  /\ Served \subseteq Served'
         /\ \A f \in DOMAIN t.mem \ {t'.lvl4} : \E n \in 1..3, a \in Served' : get_page_table(t', n, a) = f
<1>1. PICK lv : IsTree(t.lvl4, t.mem, lv)
  BY DEF Known, Tree
<1>2. IsTable(t.lvl4, t)
  BY DEF Known, Tree
<1>3. ASSUME NEW a \in Served, NEW n \in 1..3
      PROVE  get_page_table(t', n, a) = get_page_table(t, n, a)
  <2>1. a \in Nat /\ ~Reserved(a) /\ get_page_table(t, 1, a) # None
    BY Zenon DEF Known, Serves
  <2>2. HasTable(t, lv, a, n)
    BY <1>1, <1>2, <2>1, ServedAbove, Zenon
  <2>3. n \in 1..4
    OBVIOUS
  <2>4. QED
    BY <2>1, <2>2, <2>3, Zenon DEF HasTable, PathsKept
<1>4. ASSUME NEW a \in Served PROVE a \in Served'
  <2>1. a \in BootPages' /\ ~Reserved(a) /\ get_page_table(t, 1, a) # None
    BY Zenon DEF Served, SamePages
  <2>2. 1 \in 1..3
    OBVIOUS
  <2>3. get_page_table(t', 1, a) # None
    BY <1>3, <2>1, <2>2, Zenon
  <2>4. QED
    BY <2>1, <2>3, Zenon DEF Served
<1>5. ASSUME NEW f \in DOMAIN t.mem \ {t'.lvl4}
      PROVE  \E n \in 1..3, a \in Served' : get_page_table(t', n, a) = f
  <2>1. PICK n \in 1..3, a \in Served : get_page_table(t, n, a) = f
    BY Zenon DEF Covers
  <2>2. QED
    BY <1>3, <1>4, <2>1, Zenon
<1>6. QED
  BY <1>4, <1>5, Zenon

(* A step that makes no table, and takes d frames for a bitmap.            *)
LEMMA DemandKept ==
  ASSUME FlowInv, TableInv, SameMap, DemandInv, pc \notin {"start", "failed"},
         PathsKept(t, t'), DOMAIN t'.mem = DOMAIN t.mem, t'.lvl4 = t.lvl4, ToMap' = ToMap,
         NEW b \in Nat, BitmapFrames = b, NEW d \in Nat, BitmapFrames' = b + d,
         linear' = linear + PAGE_SIZE * d
  PROVE  DemandInv'
<1>1. Known /\ SamePages /\ PagesSplit /\ Covers(t, Served) /\ FramesCounted
  BY BootKnows, PagesStay DEF DemandInv
<1>2. /\ Served \subseteq Served'
      /\ \A f \in DOMAIN t.mem \ {t'.lvl4} : \E n \in 1..3, a \in Served' : get_page_table(t', n, a) = f
  BY <1>1, ServedStays
<1>3. PagesSplit'
  BY <1>1, <1>2, Zenon DEF PagesSplit, SamePages
<1>4. Covers(t, Served)'
  BY <1>2, Zenon DEF Covers
<1>5. FramesCounted'
  <2>1. PICK c \in Nat : c = Cardinality(DOMAIN t.mem)
    BY <1>1, FS_CardinalityType DEF FramesCounted
  <2>2. PAGE_SIZE \in Nat /\ HEAP_PAGES \in Nat /\ HeapPhys \in Nat /\ HeapPhys' = HeapPhys
    BY <1>1, PageSizeAssumption, AddressesAssumption DEF Known, SamePages
  <2>3. linear = HeapPhys + (HEAP_PAGES + c + b) * PAGE_SIZE
    BY <1>1, <2>1 DEF FramesCounted
  <2>4. (HEAP_PAGES + c + (b + d)) * PAGE_SIZE = (HEAP_PAGES + c + b) * PAGE_SIZE + PAGE_SIZE * d
    BY <2>2
  <2>5. (HEAP_PAGES + c + b) * PAGE_SIZE \in Nat /\ PAGE_SIZE * d \in Nat
    BY <2>2
  <2>6. linear' = HeapPhys + (HEAP_PAGES + c + (b + d)) * PAGE_SIZE
    BY <2>2, <2>3, <2>4, <2>5
  <2>7. IsFiniteSet(DOMAIN t'.mem) /\ Cardinality(DOMAIN t'.mem) = c
    BY <1>1, <2>1 DEF FramesCounted
  <2>8. QED
    BY <2>2, <2>6, <2>7 DEF FramesCounted
<1>6. QED
  BY <1>3, <1>4, <1>5 DEF DemandInv

(* A sequence of k different frames has k of them.                         *)
LEMMA Numbered ==
  ASSUME NEW k \in Nat, NEW g, \A i, j \in 1..k : g[i] = g[j] => i = j
  PROVE  IsFiniteSet(Values(g, 1..k)) /\ Cardinality(Values(g, 1..k)) = k
<1> DEFINE e == [i \in 1..k |-> i]
<1>1. \A i, j \in 1..k : g[i] = g[j] <=> e[i] = e[j]
  OBVIOUS
<1>2. Values(e, 1..k) = 1..k
  BY DEF Values
<1>3. IsFiniteSet(1..k) /\ Cardinality(1..k) = k
  BY FS_Interval
<1> HIDE DEF e
<1>4. /\ IsFiniteSet(Values(g, 1..k))
      /\ Cardinality(Values(g, 1..k)) <= Cardinality(Values(e, 1..k))
  BY <1>1, <1>3, FewerValues, Zenon
<1>5. Cardinality(Values(e, 1..k)) <= Cardinality(Values(g, 1..k))
  BY <1>1, <1>3, FewerValues, Zenon
<1>6. Cardinality(Values(g, 1..k)) \in Nat
  BY <1>4, FS_CardinalityType
<1>7. QED
  BY <1>2, <1>3, <1>4, <1>5, <1>6

(* What one call of map does to the tables and to the linear allocator.    *)
MapServes ==
  LET to == Head(jobs).to
  IN  /\ to \in Nat /\ ~Reserved(to) /\ get_page_table(t', 1, to) # None
      /\ GrewOnPath(t, t', to, LinearFrames) /\ t'.lvl4 = t.lvl4
      /\ \E k \in 0..3 : /\ DOMAIN t'.mem = DOMAIN t.mem \cup Values(NextFrames, 1..k)
                         /\ linear' = linear + k * PAGE_SIZE

LEMMA MapPageServes ==
  ASSUME FlowInv, TableInv, MapPage, pc' # "failed"
  PROVE  MapServes /\ PoolReady
<1> DEFINE j == Head(jobs)
           root == t.lvl4
           r == map(t, NextFrames, j.from, j.to, j.flags)
<1>1. PAGE_SIZE \in Nat /\ PAGE_SIZE > 0
  BY PageSizeAssumption
<1>2. /\ pc \in {"map", "heap"} /\ jobs # <<>> /\ t' = r.t /\ linear' = LinearAfter(r.pool) /\ r.out = "Ok"
  BY Zenon DEF MapPage, Fail
<1>3. j.from \in Nat /\ j.to \in Nat /\ j.flags \in PageTableFlags
  <2>1. jobs \in Seq(MapJobs)
    BY <1>2, Zenon DEF FlowInv, JobsLeft
  <2>2. Head(jobs) \in MapJobs
    BY <1>2, <2>1, Queue
  <2>3. QED
    BY <2>2 DEF MapJobs, BootJobs
<1>4. linear \in Nat /\ TablesTaken
  BY <1>2 DEF TableInv
<1>5. Tree(root, t) /\ \A f \in DOMAIN t.mem : f \in Nat /\ f + PAGE_SIZE <= linear
  BY <1>4 DEF TablesTaken
<1>6. PoolReady
  BY <1>4, <1>5, NextFramesAre
<1> HIDE DEF root, j
<1>7. Tree(root, r.t)
  BY <1>3, <1>5, <1>6, MapKeepsTree, ZenonT(40) DEF PoolReady
<1>8. MapTook(t, NextFrames, r, IF Reserved(j.to) THEN 0 ELSE LowestLevel(t, j.to) - 1)
  BY <1>3, <1>5, <1>6, MapTakes, ZenonT(40) DEF PoolReady
<1>9. GrewOnPath(t, r.t, j.to, LinearFrames)
  BY <1>3, <1>5, <1>6, MapGrows, ZenonT(40) DEF PoolReady
<1>10. ~Reserved(j.to) /\ get_page_table(r.t, 1, j.to) # None
  BY <1>2, <1>3, <1>5, <1>6, MapReaches, ZenonT(40) DEF PoolReady
<1> HIDE DEF r
<1>11. PICK k \in 0..3 : Took(t, NextFrames, r, k)
  BY <1>8 DEF MapTook
<1>12. Len(r.pool) = 3 - k /\ DOMAIN r.t.mem = DOMAIN t.mem \cup {NextFrames[i] : i \in 1..k}
  BY <1>6, <1>11 DEF Took, PoolReady
<1>13. linear' = linear + k * PAGE_SIZE
  BY <1>1, <1>2, <1>4, <1>12 DEF LinearAfter
<1>14. t'.lvl4 = t.lvl4
  BY <1>2, <1>7 DEF Tree, IsTable, root
<1>15. DOMAIN t'.mem = DOMAIN t.mem \cup Values(NextFrames, 1..k)
  BY <1>2, <1>12, Zenon DEF Values
<1>16. QED
  BY <1>2, <1>3, <1>6, <1>9, <1>10, <1>13, <1>14, <1>15, Zenon DEF MapServes, j

(* The page is served afterwards, the new tables are on the way to it, and *)
(* the linear allocator has handed out one frame for each of them.         *)
LEMMA DemandMaps ==
  ASSUME FlowInv, TableInv, SameMap, DemandInv, MapPage, pc' # "failed"
  PROVE  DemandInv'
<1> DEFINE to == Head(jobs).to
           e == Entry(Head(jobs).from, Head(jobs).flags)
<1>1. MapServes /\ PoolReady /\ MapStepped
  BY MapPageServes, MapSteps
<1>2. pc \in {"map", "heap"} /\ pc' = pc
  BY <1>1 DEF MapStepped
<1>3. Known /\ SamePages /\ PagesSplit /\ Covers(t, Served) /\ FramesCounted
  BY <1>2, BootKnows, PagesStay DEF DemandInv
<1>4. /\ to \in Nat /\ ~Reserved(to) /\ get_page_table(t', 1, to) # None
      /\ PathsKept(t, t') /\ t'.lvl4 = t.lvl4
      /\ \A f \in DOMAIN t'.mem \ DOMAIN t.mem : \E n \in 1..3 : get_page_table(t', n, to) = f
  BY <1>1 DEF MapServes, GrewOnPath
<1>5. /\ Served \subseteq Served'
      /\ \A f \in DOMAIN t.mem \ {t'.lvl4} : \E n \in 1..3, a \in Served' : get_page_table(t', n, a) = f
  BY <1>3, <1>4, ServedStays
<1>6. ToMap = {to} \cup ToMap'
  <2>1. PagesLeft(jobs) = {<<to, e>>} \cup PagesLeft(jobs')
    BY <1>1 DEF MapStepped
  <2>2. <<to, e>>[1] = to
    OBVIOUS
  <2> HIDE DEF to, e
  <2>3. Addresses(PagesLeft(jobs)) = {to} \cup Addresses(PagesLeft(jobs'))
    BY <2>1, <2>2 DEF Addresses
  <2>4. CASE pc = "map"
    <3>1. ToMap = Addresses(PagesLeft(jobs)) \cup HeapSpan
      BY <2>4 DEF ToMap
    <3>2. ToMap' = Addresses(PagesLeft(jobs')) \cup HeapSpan
      BY <1>2, <1>3, <2>4 DEF ToMap, SamePages
    <3>3. QED
      BY <2>3, <3>1, <3>2, Zenon
  <2>5. CASE pc = "heap"
    <3>1. ToMap = Addresses(PagesLeft(jobs)) /\ ToMap' = Addresses(PagesLeft(jobs'))
      BY <1>2, <2>5 DEF ToMap
    <3>2. QED
      BY <2>3, <3>1, Zenon
  <2>6. QED
    BY <1>2, <2>4, <2>5
<1> HIDE DEF to, e
<1>7. to \in Served'
  BY <1>3, <1>4, <1>6, Zenon DEF PagesSplit, SamePages, Served
<1>8. PagesSplit'
  BY <1>3, <1>5, <1>6, <1>7, Zenon DEF PagesSplit, SamePages
<1>9. Covers(t, Served)'
  BY <1>4, <1>5, <1>7, Zenon DEF Covers
<1>10. FramesCounted'
  <2>1. PICK k \in 0..3 : DOMAIN t'.mem = DOMAIN t.mem \cup Values(NextFrames, 1..k) /\ linear' = linear + k * PAGE_SIZE
    BY <1>1 DEF MapServes
  <2>2. k \in Nat /\ \A i \in 1..k : i \in 1..3
    OBVIOUS
  <2>3. /\ \A i \in 1..3 : NextFrames[i] \notin DOMAIN t.mem
        /\ \A i, j \in 1..3 : i # j => NextFrames[i] # NextFrames[j]
    BY <1>1 DEF PoolReady, PoolFor
  <2>4. IsFiniteSet(Values(NextFrames, 1..k)) /\ Cardinality(Values(NextFrames, 1..k)) = k
    BY <2>2, <2>3, Numbered, Zenon
  <2>5. \A x \in DOMAIN t.mem : x \notin Values(NextFrames, 1..k)
    BY <2>2, <2>3, Zenon DEF Values
  <2>6. PICK c \in Nat : c = Cardinality(DOMAIN t.mem)
    BY <1>3, FS_CardinalityType DEF FramesCounted
  <2>7. IsFiniteSet(DOMAIN t'.mem) /\ Cardinality(DOMAIN t'.mem) = c + k
    BY <1>3, <2>1, <2>4, <2>5, <2>6, ApartUnion, Zenon DEF FramesCounted
  <2>8. PICK b \in Nat : b = BitmapFrames /\ BitmapFrames' = b
    <3>1. 2 * size_bytes \in Nat /\ size_bytes \in Nat
      BY <1>3 DEF Known
    <3>2. size_in_pages(size_bytes) \in Nat /\ size_in_pages(2 * size_bytes) \in Nat
      BY <3>1, SizeInPages
    <3>3. BitmapFrames \in Nat
      BY <1>2, <3>2 DEF BitmapFrames
    <3>4. BitmapFrames' = BitmapFrames
      BY <1>2, <1>3 DEF BitmapFrames, SamePages
    <3>5. QED
      BY <3>3, <3>4
  <2>9. PAGE_SIZE \in Nat /\ HEAP_PAGES \in Nat /\ HeapPhys \in Nat /\ HeapPhys' = HeapPhys
    BY <1>3, PageSizeAssumption, AddressesAssumption DEF Known, SamePages
  <2>10. linear = HeapPhys + (HEAP_PAGES + c + b) * PAGE_SIZE
    BY <1>3, <2>6, <2>8 DEF FramesCounted
  <2>11. (HEAP_PAGES + (c + k) + b) * PAGE_SIZE = (HEAP_PAGES + c + b) * PAGE_SIZE + k * PAGE_SIZE
    BY <2>2, <2>9
  <2>12. (HEAP_PAGES + c + b) * PAGE_SIZE \in Nat /\ k * PAGE_SIZE \in Nat
    BY <2>2, <2>9
  <2>13. linear' = HeapPhys + (HEAP_PAGES + (c + k) + b) * PAGE_SIZE
    BY <2>1, <2>9, <2>10, <2>11, <2>12
  <2>14. QED
    BY <2>7, <2>8, <2>9, <2>13 DEF FramesCounted
<1>11. QED
  BY <1>8, <1>9, <1>10 DEF DemandInv

(* In the beginning all is to be mapped, and the one table is the root.    *)
LEMMA DemandStarts ==
  ASSUME FlowInv, SameMap, Start, pc' # "failed"
  PROVE  DemandInv'
<1>1. /\ OfType({"Usable"}) # {} /\ OfType({"ExecutableAndModules"}) # {} /\ mmap \in MemoryMaps
      /\ t' = new(RootFrame) /\ linear' = RootFrame + PAGE_SIZE /\ jobs' = map_kernel \o map_misc /\ pc' = "map"
  BY Zenon DEF Start, Fail, FlowInv
<1>2. SamePages
  BY PagesStay
<1>3. HeapPhys \in Nat /\ PAGE_SIZE \in Nat /\ HEAP_PAGES \in Nat
  BY <1>1, MapIs, PageSizeAssumption, AddressesAssumption DEF RegionsKnown
<1>4. t'.lvl4 = RootFrame /\ DOMAIN t'.mem = {RootFrame}
  BY <1>1 DEF new
<1>5. ToMap' = BootPages
  <2>1. ToMap' = Addresses(PagesLeft(jobs')) \cup HeapSpan
    BY <1>1, <1>2 DEF ToMap, SamePages
  <2>2. Addresses(PagesLeft(jobs')) = PagesFrom(Sections[1], k_sect.length) \cup MiscPages
    BY <1>1, PlanPages, Zenon DEF Wanted
  <2>3. QED
    BY <2>1, <2>2, Zenon DEF BootPages
<1>6. PagesSplit'
  BY <1>2, <1>5, Zenon DEF PagesSplit, SamePages
<1>7. Covers(t, Served)'
  BY <1>4, Zenon DEF Covers
<1>8. FramesCounted'
  <2>1. IsFiniteSet(DOMAIN t'.mem) /\ Cardinality(DOMAIN t'.mem) = 1
    BY <1>4, FS_Singleton
  <2>2. BitmapFrames' = 0
    BY <1>1 DEF BitmapFrames
  <2>3. (HEAP_PAGES + 1 + 0) * PAGE_SIZE = HEAP_PAGES * PAGE_SIZE + PAGE_SIZE
    BY <1>3
  <2>4. HEAP_PAGES * PAGE_SIZE \in Nat
    BY <1>3
  <2>5. linear' = HeapPhys + (HEAP_PAGES + 1 + 0) * PAGE_SIZE
    BY <1>1, <1>3, <2>3, <2>4 DEF RootFrame
  <2>6. QED
    BY <1>2, <2>1, <2>2, <2>5 DEF FramesCounted, SamePages
<1>9. QED
  BY <1>6, <1>7, <1>8 DEF DemandInv

(* A step that touches neither the tables nor the linear allocator.        *)
LEMMA DemandSame ==
  ASSUME FlowInv, TableInv, SameMap, DemandInv, pc \notin {"start", "failed"},
         PathsKept(t, t'), DOMAIN t'.mem = DOMAIN t.mem, t'.lvl4 = t.lvl4, ToMap' = ToMap,
         BitmapFrames' = BitmapFrames, linear' = linear
  PROVE  DemandInv'
<1>1. Known
  BY BootKnows
<1>2. 2 * size_bytes \in Nat /\ size_bytes \in Nat /\ linear \in Nat
  BY <1>1 DEF Known
<1>3. size_in_pages(size_bytes) \in Nat /\ size_in_pages(2 * size_bytes) \in Nat
  BY <1>2, SizeInPages
<1>4. PICK b \in Nat : b = BitmapFrames
  BY <1>3 DEF BitmapFrames
<1>5. 0 \in Nat /\ BitmapFrames' = b + 0 /\ linear' = linear + PAGE_SIZE * 0
  BY <1>2, <1>4, PageSizeAssumption
<1>6. QED
  BY <1>4, <1>5, DemandKept, Zenon

LEMMA PathsStay ==
  ASSUME NEW u
  PROVE  PathsKept(u, u)
  BY Zenon DEF PathsKept

LEMMA NothingLeft ==
  ASSUME NEW q, q = <<>>
  PROVE  Addresses(PagesLeft(q)) = {}
<1>1. q \in Seq({})
  OBVIOUS
<1>2. PagesLeft(q) = {}
  BY <1>1, PagesLeftIs
<1>3. QED
  BY <1>2 DEF Addresses

(* The calls between the loops, and those after the boot.                  *)
LEMMA DemandBetween ==
  ASSUME FlowInv, TableInv, SameMap, DemandInv, pc' # "failed",
         NextJob \/ UnmapGuardPage \/ RemapStackPage \/ ClearRegion \/ MarkAndLoad
  PROVE  DemandInv'
<1>1. SamePages
  BY PagesStay
<1>2. PathsKept(t, t)
  BY PathsStay
<1>t. pc \notin {"start", "failed"} => Tree(t.lvl4, t)
  BY DEF TableInv, TablesTaken
<1>3. CASE NextJob
  <2>1. /\ pc \in {"map", "heap"} /\ pc' = pc /\ jobs # <<>> /\ Head(jobs).left = 0 /\ jobs' = Tail(jobs)
        /\ t' = t /\ linear' = linear
    BY <1>3 DEF NextJob
  <2>2. jobs \in Seq(MapJobs)
    BY <2>1 DEF FlowInv, JobsLeft
  <2>3. PagesLeft(jobs) = PagesOfJob(Head(jobs)) \cup PagesLeft(Tail(jobs))
    BY <2>1, <2>2, PagesLeftIs
  <2>4. PagesOfJob(Head(jobs)) = {}
    BY <2>1 DEF PagesOfJob
  <2>5. PagesLeft(jobs') = PagesLeft(jobs)
    BY <2>1, <2>3, <2>4, Zenon
  <2>6. ToMap' = ToMap /\ BitmapFrames' = BitmapFrames
    <3>1. CASE pc = "map"
      BY <1>1, <2>1, <2>5, <3>1 DEF ToMap, BitmapFrames, SamePages
    <3>2. CASE pc = "heap"
      BY <1>1, <2>1, <2>5, <3>2 DEF ToMap, BitmapFrames, SamePages
    <3>3. QED
      BY <2>1, <3>1, <3>2
  <2>7. QED
    BY <1>2, <2>1, <2>6, DemandSame
<1>4. CASE UnmapGuardPage
  <2>1. /\ pc = "map" /\ pc' = "stack" /\ jobs = <<>> /\ t' = unmap(t, stack_top).t /\ linear' = linear
    BY <1>4, Zenon DEF UnmapGuardPage, Fail
  <2>2. stack_top \in Nat /\ ~Reserved(stack_top)
    BY TopIs DEF FlowInv
  <2>3. PathsKept(t, t') /\ DOMAIN t'.mem = DOMAIN t.mem /\ Tree(t.lvl4, t')
    BY <1>t, <2>1, <2>2, UnmapKeepsTree, UnmapKeepsPaths
  <2>4. t'.lvl4 = t.lvl4
    BY <2>3 DEF Tree, IsTable
  <2>5. Addresses(PagesLeft(jobs)) = {}
    BY <2>1, NothingLeft, Zenon
  <2>6. ToMap' = ToMap /\ BitmapFrames' = BitmapFrames
    BY <1>1, <2>1, <2>5 DEF ToMap, BitmapFrames, SamePages
  <2>7. QED
    BY <2>1, <2>3, <2>4, <2>6, DemandSame
<1>5. CASE RemapStackPage
  <2>1. /\ pc = "stack" /\ pc' = "stack" /\ jobs # <<>> /\ linear' = linear
        /\ t' = update_flags(t, Head(jobs).to, Head(jobs).flags).t
    BY <1>5, Zenon DEF RemapStackPage, Fail
  <2>2. Head(jobs) \in StackJobs
    BY <2>1, Queue DEF FlowInv, JobsLeft
  <2>3. Head(jobs).to \in Nat /\ ~Reserved(Head(jobs).to) /\ Head(jobs).flags \in PageTableFlags
    BY <2>2, StackQueue, SMTT(40) DEF FlowInv, StackJobs, BootJobs
  <2>4. PathsKept(t, t') /\ DOMAIN t'.mem = DOMAIN t.mem /\ Tree(t.lvl4, t')
    BY <1>t, <2>1, <2>3, UpdateKeepsTree, UpdateKeepsPaths, ZenonT(40)
  <2>5. t'.lvl4 = t.lvl4
    BY <2>4 DEF Tree, IsTable
  <2>6. ToMap' = ToMap /\ BitmapFrames' = BitmapFrames
    BY <1>1, <2>1 DEF ToMap, BitmapFrames, SamePages
  <2>7. QED
    BY <2>1, <2>4, <2>5, <2>6, DemandSame
<1>6. CASE ClearRegion
  <2>1. pc = "clear" /\ pc' = "clear" /\ t' = t /\ linear' = linear
    BY <1>6, Zenon DEF ClearRegion, Fail
  <2>2. ToMap' = ToMap /\ BitmapFrames' = BitmapFrames
    BY <1>1, <2>1 DEF ToMap, BitmapFrames, SamePages
  <2>3. QED
    BY <1>2, <2>1, <2>2, DemandSame
<1>7. CASE MarkAndLoad
  <2>1. pc = "heap" /\ pc' = "booted" /\ jobs = <<>> /\ t' = t /\ linear' = linear
    BY <1>7, Zenon DEF MarkAndLoad, Fail
  <2>2. Addresses(PagesLeft(jobs)) = {}
    BY <2>1, NothingLeft, Zenon
  <2>3. ToMap' = ToMap /\ BitmapFrames' = BitmapFrames
    BY <1>1, <2>1, <2>2 DEF ToMap, BitmapFrames, SamePages
  <2>4. QED
    BY <1>2, <2>1, <2>3, DemandSame
<1>8. QED
  BY <1>3, <1>4, <1>5, <1>6, <1>7

(* The two bitmaps are taken from the same frames, page by page.           *)
LEMMA DemandBitmaps ==
  ASSUME FlowInv, TableInv, SameMap, DemandInv, CreateFrameAllocator \/ CreateVirtualAllocator
  PROVE  DemandInv'
<1>1. SamePages
  BY PagesStay
<1>2. PathsKept(t, t)
  BY PathsStay
<1>3. pc \in {"stack", "clear"} /\ t' = t /\ jobs = <<>>
  BY DEF CreateFrameAllocator, CreateVirtualAllocator, HeapNext
<1>4. Known
  BY <1>3, BootKnows
<1>5. 2 * size_bytes \in Nat /\ size_bytes \in Nat /\ HeapPhys \in Nat
  BY <1>4 DEF Known
<1>6. PICK m \in Nat, n \in Nat : m = size_in_pages(size_bytes) /\ n = size_in_pages(2 * size_bytes)
  BY <1>5, SizeInPages
<1>7. CASE CreateFrameAllocator
  <2>1. pc = "stack" /\ pc' = "clear" /\ linear' = linear + PAGE_SIZE * m
    BY <1>6, <1>7 DEF CreateFrameAllocator
  <2>2. ToMap' = ToMap
    BY <1>1, <2>1 DEF ToMap, SamePages
  <2>3. 0 \in Nat /\ BitmapFrames = 0 /\ BitmapFrames' = 0 + m
    BY <1>1, <1>6, <2>1 DEF BitmapFrames, SamePages
  <2>4. QED
    BY <1>2, <1>3, <2>1, <2>2, <2>3, DemandKept
<1>8. CASE CreateVirtualAllocator
  <2> DEFINE j == Job(HeapPhys, HeapPhys + HHDM, flags_rw, HEAP_PAGES)
  <2>1. pc = "clear" /\ pc' = "heap" /\ linear' = linear + PAGE_SIZE * n /\ jobs' = <<j>>
    BY <1>6, <1>8 DEF CreateVirtualAllocator, HeapNext
  <2>2. Addresses(PagesLeft(jobs')) = HeapSpan
    <3>1. HeapIs /\ HeapWanted = PagesOfJob(j)
      BY <1>5, HeapKnown DEF HeapWanted
    <3> HIDE DEF j
    <3>2. jobs' \in Seq({j}) /\ jobs' # <<>> /\ Head(jobs') = j /\ Tail(jobs') = <<>> /\ <<>> \in Seq({j})
      BY <2>1
    <3>3. PagesLeft(jobs') = PagesOfJob(Head(jobs')) \cup PagesLeft(Tail(jobs'))
      BY <3>2, PagesLeftIs
    <3>4. PagesLeft(<<>>) = {}
      BY <3>2, PagesLeftIs
    <3>5. PagesLeft(jobs') = HeapWanted
      BY <3>1, <3>2, <3>3, <3>4
    <3>6. QED
      BY <3>1, <3>5, Zenon DEF HeapIs, Addresses, HeapSpan
  <2>3. ToMap' = ToMap
    BY <1>1, <2>1, <2>2 DEF ToMap, SamePages
  <2>4. BitmapFrames = m /\ BitmapFrames' = m + n
    BY <1>1, <1>6, <2>1 DEF BitmapFrames, SamePages
  <2> HIDE DEF j
  <2>5. QED
    BY <1>2, <1>3, <2>1, <2>3, <2>4, DemandKept
<1>9. QED
  BY <1>7, <1>8

LEMMA DemandInvStep == FlowInv /\ TableInv /\ DemandInv /\ [KNext]_kvars => DemandInv'
<1> SUFFICES ASSUME FlowInv, TableInv, DemandInv, KNext \/ UNCHANGED kvars, pc' \notin {"start", "failed"}
             PROVE  DemandInv'
  BY DEF kvars, DemandInv
<1>1. SameMap
  BY MapStays
<1>s. ASSUME UNCHANGED <<pc, linear, t>>, (pc # "heap" /\ pc # "map") \/ jobs' = jobs PROVE DemandInv'
  <2>1. SamePages /\ PathsKept(t, t) /\ pc \notin {"start", "failed"}
    BY <1>1, <1>s, PagesStay, PathsStay
  <2>2. BitmapFrames' = BitmapFrames
    BY <1>s, <2>1 DEF BitmapFrames, SamePages
  <2>3. ToMap' = ToMap
    BY <1>s, <2>1 DEF ToMap, SamePages
  <2>4. QED
    BY <1>1, <1>s, <2>1, <2>2, <2>3, DemandSame
<1>2. CASE Start
  BY <1>1, <1>2, DemandStarts
<1>3. CASE MapPage
  BY <1>1, <1>3, DemandMaps
<1>4. CASE NextJob \/ UnmapGuardPage \/ RemapStackPage \/ ClearRegion \/ MarkAndLoad
  BY <1>1, <1>4, DemandBetween
<1>5. CASE CreateFrameAllocator \/ CreateVirtualAllocator
  BY <1>1, <1>5, DemandBitmaps
<1>6. CASE \E size \in Sizes : AllocatedMemoryNew(size) \/ ReservePhysical(size)
  BY <1>6, <1>s, CallKeeps, Zenon DEF Called
<1>7. CASE StackFault \/ KHalt \/ UNCHANGED kvars
  BY <1>7, <1>s DEF StackFault, KHalt, kvars, vars
<1>8. QED
  BY <1>2, <1>3, <1>4, <1>5, <1>6, <1>7 DEF KNext, BootStep, Boot

(* So many frames as are counted are no more than the demand, and all of   *)
(* it when nothing is left to map.                                         *)
LEMMA DemandMet ==
  ASSUME FlowInv, TableInv, DemandInv
  PROVE  BootTakesItsDemand
<1> SUFFICES ASSUME pc \notin {"start", "failed"}
             PROVE  /\ linear <= HeapPhys + BootDemand * PAGE_SIZE
                    /\ pc = "booted" => linear = HeapPhys + BootDemand * PAGE_SIZE
  BY DEF BootTakesItsDemand
<1>1. Known /\ PagesSplit /\ Covers(t, Served) /\ FramesCounted
  BY BootKnows DEF DemandInv
<1>2. IsFiniteSet(Served)
  BY <1>1, FS_Subset DEF Known
<1>3. Cardinality(DOMAIN t.mem) = TablesFor(Served)
  BY <1>1, <1>2, TableCount, Zenon DEF Known
<1>4. /\ TablesFor(Served) \in Nat /\ TablesFor(BootPages) \in Nat /\ TablesFor(Served) <= TablesFor(BootPages)
  BY <1>1, MoreTables DEF Known
<1>5. 2 * size_bytes \in Nat /\ size_bytes \in Nat /\ HeapPhys \in Nat
  BY <1>1 DEF Known
<1>6. PICK m \in Nat, n \in Nat : m = size_in_pages(size_bytes) /\ n = size_in_pages(2 * size_bytes)
  BY <1>5, SizeInPages
<1>7. PICK c \in Nat, d \in Nat : c = TablesFor(Served) /\ d = TablesFor(BootPages) /\ c <= d
  BY <1>4
<1>8. PICK b \in Nat : b = BitmapFrames /\ b <= m + n /\ (pc = "booted" => b = m + n)
  BY <1>6 DEF BitmapFrames
<1>9. pc = "booted" => c = d
  <2> HAVE pc = "booted"
  <2>1. ToMap = {}
    BY DEF ToMap
  <2>2. Served = BootPages
    BY <1>1, <2>1, Zenon DEF PagesSplit, Known
  <2>3. QED
    BY <1>7, <2>2
<1>10. PAGE_SIZE \in Nat /\ HEAP_PAGES \in Nat
  BY PageSizeAssumption, AddressesAssumption
<1>11. BootDemand = HEAP_PAGES + d + m + n /\ linear = HeapPhys + (HEAP_PAGES + c + b) * PAGE_SIZE
  BY <1>1, <1>3, <1>6, <1>7, <1>8 DEF BootDemand, FramesCounted
<1>12. PICK x \in Nat, y \in Nat : x = HEAP_PAGES + c + b /\ y = HEAP_PAGES + d + m + n
  BY <1>10
<1>13. x <= y /\ (pc = "booted" => x = y)
  BY <1>7, <1>8, <1>9, <1>10, <1>12
<1>14. x * PAGE_SIZE \in Nat /\ y * PAGE_SIZE \in Nat /\ x * PAGE_SIZE <= y * PAGE_SIZE
  BY <1>10, <1>13
<1>15. linear = HeapPhys + x * PAGE_SIZE /\ BootDemand = y
  BY <1>11, <1>12
<1>16. QED
  BY <1>5, <1>13, <1>14, <1>15

(* For every memory map, layout of the kernel, stack and size of the heap: *)
(* the LinearFrameAllocator hands out one frame for every page of the heap *)
(* and the bitmaps and one for every table on the way to a page that is    *)
(* mapped, never more, and once booted just that.  Whether "this place     *)
(* will surely fit" (memory/mod.rs:57) is decided by this number, which    *)
(* nothing in the boot compares with the region.                           *)
THEOREM BootTakesWhatItNeeds == KSpec => []BootTakesItsDemand
<1>1. KInit => DemandInv
  BY DEF KInit, Init, DemandInv
<1>2. FlowInv /\ TableInv /\ DemandInv => BootTakesItsDemand
  BY DemandMet
<1>3. QED
  BY <1>1, <1>2, AlwaysFlow, AlwaysTable, DemandInvStep, PTL DEF KSpec
=============================================================================
