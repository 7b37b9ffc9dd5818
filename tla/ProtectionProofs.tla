------------------------- MODULE ProtectionProofs -------------------------
(***************************************************************************)
(* What the page table that the boot loads maps, and with which flags, for *)
(* every memory map, layout of the kernel, stack and heap.                 *)
(***************************************************************************)
EXTENDS KernelBootProofs

-----------------------------------------------------------------------------
(* What the loader has to grant: its stack lies in memory that map_misc    *)
(* maps, the page of stack_top is none of the pages that get the stack's   *)
(* flags, the kernel's code and data or the heap, and no other region has  *)
(* the indices of that page.                                               *)
StackLayout ==
  /\ StackPages \subseteq MiscPages
  /\ \A a \in StackPages \cup PagesFrom(HeapPhys + HHDM, HEAP_PAGES * PAGE_SIZE)
                \cup PagesFrom(Sections[2], Sections[3] - Sections[2])
                \cup PagesFrom(Sections[4], Sections[5] - Sections[4]) : ~SamePage(a, stack_top)
  /\ \A a \in MiscPages : SamePage(a, stack_top) => PageOf(a) = PageOf(stack_top)

(* The pages of a call of map_contiguous, with the entries they are given. *)
PagesOfJob(j) ==
  { <<j.to + k * PAGE_SIZE, Entry(j.from + k * PAGE_SIZE, j.flags)>> : k \in 0..(j.left - 1) }

PagesLeft(js) == UNION { PagesOfJob(js[i]) : i \in 1..Len(js) }

Wanted == PagesLeft(map_kernel \o map_misc)

HeapWanted == PagesOfJob(Job(HeapPhys, HeapPhys + HHDM, flags_rw, HEAP_PAGES))

Holds(w) == ~Reserved(w[1]) /\ Aligned(w[2].addr) /\ Lookup(t, w[1]) = w[2]

Queued(W) == \A w \in W : w \in PagesLeft(jobs) \/ Holds(w)

StackAs(s, flags) == Holds(<<s, Entry(s - HHDM, flags)>>)

(* The page of stack_top is gone, the stack has its flags or is in the     *)
(* queue for them, and all other pages are as they were mapped.            *)
Guarded ==
  /\ Lookup(t, stack_top) = Unused
  /\ \A w \in Wanted : \/ Holds(w) \/ SamePage(w[1], stack_top)
                       \/ \E s \in StackPages : w[2] = Entry(s - HHDM, flags_rwx)
  /\ \A s \in StackPages :
       \/ StackAs(s, flags_rw)
       \/ pc = "stack" /\ StackAs(s, flags_rwx) /\ \E i \in 1..Len(jobs) : PageStart(jobs[i].to) = s

ProtInv ==
  /\ pc = "map" => Queued(Wanted)
  /\ pc \in {"stack", "clear", "heap", "booted"} => Guarded
  /\ pc = "stack" => \A i \in 1..Len(jobs) : jobs[i].flags = flags_rw /\ PageStart(jobs[i].to) \in StackPages
  /\ pc = "heap" => Queued(HeapWanted) /\ PagesLeft(jobs) \subseteq HeapWanted
  /\ pc = "booted" => \A w \in HeapWanted : Holds(w)

SamePlan ==
  /\ StackPages' = StackPages /\ MiscPages' = MiscPages /\ Wanted' = Wanted
  /\ HeapWanted' = HeapWanted /\ stack_top' = stack_top /\ (StackLayout => StackLayout')

LEMMA PlanStays == SameMap => SamePlan
<1> SUFFICES ASSUME SameMap PROVE SamePlan
  OBVIOUS
<1>1. mmap' = mmap /\ sp' = sp /\ HeapPhys' = HeapPhys
  BY DEF SameMap
<1>2. stack_top' = stack_top /\ StackPages' = StackPages
  BY <1>1, Zenon DEF stack_top, StackPages, stack_bottom, PagesFrom, PageStart
<1>3. MiscPages' = MiscPages
  BY <1>1 DEF MiscPages, OfType, PagesFrom
<1>4. k_sect' = k_sect
  BY <1>1, Zenon DEF k_sect, OfType
<1>5. map_kernel' = map_kernel /\ map_misc' = map_misc
  BY <1>1, <1>4, Zenon DEF map_kernel, map_misc
<1>6. Wanted' = Wanted /\ HeapWanted' = HeapWanted
  BY <1>1, <1>5 DEF Wanted, HeapWanted, PagesLeft, PagesOfJob
<1>7. StackLayout => StackLayout'
  BY <1>1, <1>2, <1>3, SMTT(40) DEF StackLayout
<1>8. QED
  BY <1>2, <1>3, <1>6, <1>7 DEF SamePlan

(* A page that some call maps has an entry that is in use.                 *)
IsPage(w) ==
  /\ w[1] \in Nat /\ w[2].addr \in Nat /\ "PRESENT" \in w[2].flags
  /\ w = <<w[1], Entry(w[2].addr, w[2].flags)>>

LEMMA JobPagesAre ==
  ASSUME NEW j \in BootJobs, "PRESENT" \in j.flags, NEW w \in PagesOfJob(j)
  PROVE  IsPage(w) /\ w[2].flags = j.flags
<1>1. PICK k \in 0..(j.left - 1) : w = <<j.to + k * PAGE_SIZE, Entry(j.from + k * PAGE_SIZE, j.flags)>>
  BY DEF PagesOfJob
<1>2. j.to \in Nat /\ j.from \in Nat /\ j.left \in Nat
  BY DEF BootJobs
<1>3. PICK d \in Nat : d = k * PAGE_SIZE
  BY <1>2, PageSizeAssumption
<1>4. w = <<j.to + d, Entry(j.from + d, j.flags)>> /\ j.to + d \in Nat /\ j.from + d \in Nat
  BY <1>1, <1>2, <1>3, SMTT(40)
<1>5. QED
  BY <1>4 DEF IsPage, Entry

(* The page that is mapped next comes off the pages of the job.            *)
LEMMA NextPageLeaves ==
  ASSUME NEW j \in BootJobs, j.left > 0
  PROVE  PagesOfJob(j) = {<<j.to, Entry(j.from, j.flags)>>} \cup PagesOfJob(NextPage(j))
<1> DEFINE n == NextPage(j)
           Nth(x, k) == <<x.to + k * PAGE_SIZE, Entry(x.from + k * PAGE_SIZE, x.flags)>>
<1>1. /\ j.to \in Nat /\ j.from \in Nat /\ j.left \in Nat /\ PAGE_SIZE \in Nat
      /\ n.to = j.to + PAGE_SIZE /\ n.from = j.from + PAGE_SIZE /\ n.flags = j.flags /\ n.left = j.left - 1
  BY PageSizeAssumption DEF BootJobs, NextPage, Job
<1> HIDE DEF n
<1>2. Nth(j, 0) = <<j.to, Entry(j.from, j.flags)>>
  BY <1>1
<1>3. ASSUME NEW k \in Nat PROVE Nth(n, k) = Nth(j, k + 1)
  <2>1. n.to + k * PAGE_SIZE = j.to + (k + 1) * PAGE_SIZE
    BY <1>1
  <2>2. n.from + k * PAGE_SIZE = j.from + (k + 1) * PAGE_SIZE
    BY <1>1
  <2>3. QED
    BY <1>1, <2>1, <2>2, SMTT(40)
<1> HIDE DEF Nth
<1>4. PagesOfJob(j) = {Nth(j, k) : k \in 0..(j.left - 1)} /\ PagesOfJob(n) = {Nth(n, k) : k \in 0..(j.left - 2)}
  BY <1>1 DEF PagesOfJob, Nth
<1>5. ASSUME NEW k \in 0..(j.left - 1) PROVE Nth(j, k) = Nth(j, 0) \/ \E m \in 0..(j.left - 2) : Nth(j, k) = Nth(n, m)
  <2>1. CASE k = 0
    BY <2>1
  <2>2. CASE k # 0
    <3>1. k - 1 \in 0..(j.left - 2) /\ (k - 1) + 1 = k /\ k - 1 \in Nat
      BY <1>1, <2>2
    <3>2. QED
      BY <1>3, <3>1
  <2>3. QED
    BY <2>1, <2>2
<1>6. ASSUME NEW m \in 0..(j.left - 2) PROVE \E k \in 0..(j.left - 1) : Nth(n, m) = Nth(j, k)
  <2>1. m + 1 \in 0..(j.left - 1) /\ m \in Nat
    BY <1>1
  <2>2. QED
    BY <1>3, <2>1
<1>7. 0 \in 0..(j.left - 1)
  BY <1>1
<1>8. QED
  BY <1>2, <1>4, <1>5, <1>6, <1>7, SMTT(40) DEF n

(* The pages of a queue are those of its first job and of the others.      *)
LEMMA PagesLeftIs ==
  ASSUME NEW S, NEW q \in Seq(S)
  PROVE  /\ \A x \in S : PagesLeft(<<x>> \o q) = PagesOfJob(x) \cup PagesLeft(q)
         /\ q # <<>> => PagesLeft(q) = PagesOfJob(Head(q)) \cup PagesLeft(Tail(q))
         /\ q = <<>> => PagesLeft(q) = {}
<1>1. ASSUME NEW x \in S, NEW y \in Seq(S), NEW z, Len(z) = Len(y) + 1, z[1] = x,
             \A i \in 1..Len(y) : z[i + 1] = y[i]
      PROVE  PagesLeft(z) = PagesOfJob(x) \cup PagesLeft(y)
  <2>1. Len(y) \in Nat /\ 1 \in 1..Len(z)
    BY <1>1
  <2>2. \A i \in 1..Len(z) : i = 1 \/ (i - 1 \in 1..Len(y) /\ z[i] = y[i - 1])
    <3> TAKE i \in 1..Len(z)
    <3>1. i # 1 => i - 1 \in 1..Len(y) /\ (i - 1) + 1 = i
      BY <1>1, <2>1
    <3>2. QED
      BY <1>1, <3>1
  <2>3. \A i \in 1..Len(y) : i + 1 \in 1..Len(z)
    BY <1>1, <2>1
  <2>4. ASSUME NEW w PROVE w \in PagesLeft(z) <=> w \in PagesOfJob(x) \/ w \in PagesLeft(y)
    <3>1. w \in PagesLeft(z) <=> \E i \in 1..Len(z) : w \in PagesOfJob(z[i])
      BY DEF PagesLeft
    <3>2. w \in PagesLeft(y) <=> \E i \in 1..Len(y) : w \in PagesOfJob(y[i])
      BY DEF PagesLeft
    <3>3. QED
      BY <1>1, <2>1, <2>2, <2>3, <3>1, <3>2, Zenon
  <2>5. QED
    BY <2>4
<1>2. ASSUME NEW x \in S PROVE PagesLeft(<<x>> \o q) = PagesOfJob(x) \cup PagesLeft(q)
  <2>1. /\ Len(<<x>> \o q) = Len(q) + 1 /\ (<<x>> \o q)[1] = x
        /\ \A i \in 1..Len(q) : (<<x>> \o q)[i + 1] = q[i]
    OBVIOUS
  <2>2. QED
    BY <1>1, <2>1, Zenon
<1>3. ASSUME q # <<>> PROVE PagesLeft(q) = PagesOfJob(Head(q)) \cup PagesLeft(Tail(q))
  <2>1. /\ Tail(q) \in Seq(S) /\ Len(q) = Len(Tail(q)) + 1 /\ q[1] = Head(q) /\ Head(q) \in S
        /\ \A i \in 1..Len(Tail(q)) : q[i + 1] = Tail(q)[i]
    BY <1>3
  <2>2. QED
    BY <1>1, <2>1, Zenon
<1>4. q = <<>> => PagesLeft(q) = {}
  BY DEF PagesLeft
<1>5. QED
  BY <1>2, <1>3, <1>4


(* The calls that the boot makes before it turns to the stack: those of    *)
(* the kernel's code and data, and those of the regions.                   *)
PlanIs ==
  /\ \A w \in Wanted : IsPage(w) /\ w[2].flags # flags_rw
  /\ \A a \in MiscPages : a - HHDM \in Nat /\ <<a, Entry(a - HHDM, flags_rwx)>> \in Wanted
  /\ \A a \in PagesFrom(Sections[2], Sections[3] - Sections[2]) :
       \E w \in Wanted : w[1] = a /\ w[2].flags = flags_rx \cup {"GLOBAL"}
  /\ \A a \in PagesFrom(Sections[4], Sections[5] - Sections[4]) :
       \E w \in Wanted : w[1] = a /\ w[2].flags = flags_rw \cup {"GLOBAL"}

JoinIs(a, b, ab) ==
  /\ Len(ab) = Len(a) + Len(b) /\ Len(a) \in Nat /\ Len(b) \in Nat
  /\ \A i \in 1..Len(a) : ab[i] = a[i]
  /\ \A n \in 1..Len(b) : ab[Len(a) + n] = b[n]

LEMMA Joined ==
  ASSUME NEW S, NEW a \in Seq(S), NEW b \in Seq(S)
  PROVE  JoinIs(a, b, a \o b)
  BY DEF JoinIs

LEMMA PlanKnown ==
  ASSUME mmap \in MemoryMaps, OfType({"ExecutableAndModules"}) # {}
  PROVE  PlanIs
<1> DEFINE K == map_kernel
           M == map_misc
           J == K \o M
           Flagged(j) == "PRESENT" \in j.flags /\ j.flags # flags_rw
<1>1. K \in Seq(MapJobs) /\ Len(K) = 5
  BY KernelJobs
<1>2. M \in Seq(MapJobs)
  BY MiscJobs, SMTT(40)
<1>3. /\ K[2] = map_kernel_section(2, flags_rx) /\ K[4] = map_kernel_section(4, flags_rw)
      /\ \A i \in 1..5 : Flagged(K[i])
  BY DEF map_kernel, map_kernel_section, Job, flags_r, flags_rx, flags_rw
<1>4. /\ DOMAIN mmap = 1..Len(mmap) /\ DOMAIN M = DOMAIN mmap
      /\ \A n \in DOMAIN mmap :
           M[n] = Job(mmap[n].base, mmap[n].base + HHDM, flags_rwx,
                      IF mmap[n].type \in MiscTypes THEN size_in_pages(mmap[n].length) ELSE 0)
  BY MapIs DEF map_misc
<1>5. \A n \in DOMAIN M : Flagged(M[n])
  <2>1. \A from, to, pages : Flagged(Job(from, to, flags_rwx, pages))
    BY DEF Job, flags_rwx, flags_rw
  <2> HIDE DEF M, Flagged
  <2>2. QED
    BY <1>4, <2>1, SMTT(40)
<1>6. Wanted = PagesLeft(J)
  BY DEF Wanted
<1> HIDE DEF K, M, Flagged
<1>7. /\ Len(J) = 5 + Len(M) /\ \A i \in 1..5 : J[i] = K[i]
      /\ \A n \in 1..Len(M) : J[5 + n] = M[n] /\ 5 + n \in 1..Len(J)
      /\ \A i \in 1..Len(J) : i \in 1..5 \/ \E n \in 1..Len(M) : J[i] = M[n]
  <2>1. /\ Len(J) = 5 + Len(M) /\ Len(M) \in Nat /\ \A i \in 1..5 : J[i] = K[i]
        /\ \A n \in 1..Len(M) : J[5 + n] = M[n]
    <3>1. JoinIs(K, M, J)
      BY <1>1, <1>2, Joined, ZenonT(40)
    <3>2. QED
      BY <1>1, <3>1, Zenon DEF JoinIs
  <2> HIDE DEF J
  <2>2. ASSUME NEW i \in 1..Len(J), i \notin 1..5 PROVE \E n \in 1..Len(M) : J[i] = M[n]
    <3>1. i - 5 \in 1..Len(M) /\ 5 + (i - 5) = i
      BY <2>1, <2>2
    <3>2. QED
      BY <2>1, <3>1, Zenon
  <2>3. \A n \in 1..Len(M) : 5 + n \in 1..Len(J)
    BY <2>1
  <2>4. QED
    BY <2>1, <2>2, <2>3, Zenon
<1> HIDE DEF J
<1>8. DOMAIN M = 1..Len(M) /\ \A i \in 1..5 : K[i] \in BootJobs
  <2>1. \A S : \A a \in Seq(S) : DOMAIN a = 1..Len(a) /\ \A i \in 1..Len(a) : a[i] \in S
    OBVIOUS
  <2>2. DOMAIN M = 1..Len(M) /\ \A i \in 1..5 : K[i] \in MapJobs
    BY <1>1, <1>2, <2>1, ZenonT(40)
  <2>3. QED
    BY <2>2 DEF MapJobs
<1>9. \A n \in 1..Len(M) : M[n] \in BootJobs
  BY <1>2, SMTT(40) DEF MapJobs
<1>10. \A i \in 1..Len(J) : J[i] \in BootJobs /\ Flagged(J[i])
  BY <1>3, <1>5, <1>7, <1>8, <1>9, Zenon
<1>11. ASSUME NEW w \in Wanted PROVE IsPage(w) /\ w[2].flags # flags_rw
  <2>1. PICK i \in 1..Len(J) : w \in PagesOfJob(J[i])
    BY <1>6, SMTT(40) DEF PagesLeft
  <2>2. QED
    BY <1>10, <2>1, JobPagesAre, SMTT(40) DEF Flagged
<1>12. ASSUME NEW a \in MiscPages
       PROVE  a - HHDM \in Nat /\ <<a, Entry(a - HHDM, flags_rwx)>> \in Wanted
  <2>1. PICK n \in OfType(MiscTypes) : a \in PagesFrom(mmap[n].base + HHDM, mmap[n].length)
    BY DEF MiscPages
  <2>2. n \in DOMAIN mmap /\ mmap[n].type \in MiscTypes
    BY <2>1 DEF OfType
  <2>3. PICK b \in Nat, len \in Nat : b = mmap[n].base /\ len = mmap[n].length
    BY <2>2, MapIs, SMTT(40) DEF Regions
  <2>4. PICK pages \in Nat : pages = size_in_pages(len)
    BY <2>3, SizeInPages, SMTT(40)
  <2>5. M[n] = Job(b, b + HHDM, flags_rwx, pages)
    BY <1>4, <2>2, <2>3, <2>4, SMTT(40)
  <2>6. PICK k \in 0..(pages - 1) : a = (b + HHDM) + k * PAGE_SIZE
    BY <2>1, <2>3, <2>4, SMTT(40) DEF PagesFrom
  <2>7. PICK d \in Nat : d = k * PAGE_SIZE
    BY PageSizeAssumption, SMTT(40)
  <2>8. a - HHDM = b + d /\ b + d \in Nat
    BY <2>6, <2>7, AddressesAssumption, SMTT(40)
  <2>9. <<(b + HHDM) + k * PAGE_SIZE, Entry(b + k * PAGE_SIZE, flags_rwx)>> \in PagesOfJob(M[n])
    BY <2>5, SMTT(40) DEF PagesOfJob, Job
  <2>10. <<a, Entry(a - HHDM, flags_rwx)>> \in PagesOfJob(M[n])
    BY <2>6, <2>7, <2>8, <2>9, SMTT(40)
  <2>11. n \in 1..Len(M)
    BY <1>4, <1>8, <2>2, SMTT(40)
  <2>12. QED
    BY <1>6, <1>7, <2>8, <2>10, <2>11, Zenon DEF PagesLeft
<1>13. ASSUME NEW i \in {2, 4}, NEW flags, K[i] = map_kernel_section(i, flags),
              NEW a \in PagesFrom(Sections[i], Sections[i + 1] - Sections[i])
       PROVE  \E w \in Wanted : w[1] = a /\ w[2].flags = flags \cup {"GLOBAL"}
  <2> DEFINE pages == size_in_pages(Sections[i + 1] - Sections[i])
             from == KernelVirtToPhys(Sections[i])
  <2>1. PICK k \in 0..(pages - 1) : a = Sections[i] + k * PAGE_SIZE
    BY <1>13, SMTT(40) DEF PagesFrom
  <2>2. K[i] = Job(from, Sections[i], flags \cup {"GLOBAL"}, pages)
    BY <1>13, SMTT(40) DEF map_kernel_section
  <2> HIDE DEF pages, from
  <2>3. <<a, Entry(from + k * PAGE_SIZE, flags \cup {"GLOBAL"})>> \in PagesOfJob(K[i])
    BY <2>1, <2>2, SMTT(40) DEF PagesOfJob, Job
  <2>4. i \in 1..Len(J) /\ J[i] = K[i]
    <3>1. i \in 1..5 /\ Len(M) \in Nat
      BY <1>2, SMTT(40)
    <3>2. QED
      BY <1>7, <3>1, SMTT(40)
  <2>5. <<a, Entry(from + k * PAGE_SIZE, flags \cup {"GLOBAL"})>> \in Wanted
    BY <1>6, <2>3, <2>4, SMTT(40) DEF PagesLeft
  <2>6. QED
    BY <2>5, SMTT(40) DEF Entry
<1>14. \A a \in PagesFrom(Sections[2], Sections[3] - Sections[2]) :
         \E w \in Wanted : w[1] = a /\ w[2].flags = flags_rx \cup {"GLOBAL"}
  <2>1. 2 + 1 = 3 /\ 2 \in {2, 4}
    OBVIOUS
  <2>2. QED
    BY <1>3, <1>13, <2>1, SMTT(40)
<1>15. \A a \in PagesFrom(Sections[4], Sections[5] - Sections[4]) :
         \E w \in Wanted : w[1] = a /\ w[2].flags = flags_rw \cup {"GLOBAL"}
  <2>1. 4 + 1 = 5 /\ 4 \in {2, 4}
    OBVIOUS
  <2>2. QED
    BY <1>3, <1>13, <2>1, SMTT(40)
<1>16. QED
  BY <1>11, <1>12, <1>14, <1>15, SMTT(40) DEF PlanIs

(* The pages of the heap.                                                  *)
HeapIs ==
  /\ \A w \in HeapWanted : IsPage(w)
  /\ { w[1] : w \in HeapWanted } = PagesFrom(HeapPhys + HHDM, HEAP_PAGES * PAGE_SIZE)
  /\ \A w \in HeapWanted : w[2] = Entry(w[1] - HHDM, flags_rw)

LEMMA HeapKnown ==
  ASSUME HeapPhys \in Nat
  PROVE  HeapIs /\ Job(HeapPhys, HeapPhys + HHDM, flags_rw, HEAP_PAGES) \in BootJobs
<1> DEFINE j == Job(HeapPhys, HeapPhys + HHDM, flags_rw, HEAP_PAGES)
<1>1. HHDM \in Nat /\ HEAP_PAGES \in Nat /\ PAGE_SIZE \in Nat /\ PAGE_SIZE > 0
  BY AddressesAssumption, PageSizeAssumption, SMTT(40)
<1>2. j \in BootJobs /\ "PRESENT" \in j.flags
  BY <1>1 DEF Job, BootJobs, flags_rw, PageTableFlags
<1>3. \A w \in HeapWanted : IsPage(w)
  <2> HIDE DEF j
  <2>1. QED
    BY <1>2, JobPagesAre DEF HeapWanted, j
<1>4. size_in_pages(HEAP_PAGES * PAGE_SIZE) = HEAP_PAGES
  <2>1. (HEAP_PAGES * PAGE_SIZE) \div PAGE_SIZE = HEAP_PAGES /\ (HEAP_PAGES * PAGE_SIZE) % PAGE_SIZE = 0
    BY <1>1
  <2>2. QED
    BY <1>1, <2>1 DEF size_in_pages
<1> DEFINE to(k) == (HeapPhys + HHDM) + k * PAGE_SIZE
           e(k) == Entry(HeapPhys + k * PAGE_SIZE, flags_rw)
<1>5. HeapWanted = { <<to(k), e(k)>> : k \in 0..(HEAP_PAGES - 1) }
  BY DEF HeapWanted, PagesOfJob, Job
<1>6. PagesFrom(HeapPhys + HHDM, HEAP_PAGES * PAGE_SIZE) = { to(k) : k \in 0..(HEAP_PAGES - 1) }
  BY <1>4 DEF PagesFrom
<1>7. \A k \in 0..(HEAP_PAGES - 1) : e(k) = Entry(to(k) - HHDM, flags_rw)
  <2> TAKE k \in 0..(HEAP_PAGES - 1)
  <2>1. PICK d \in Nat : d = k * PAGE_SIZE
    BY <1>1
  <2>2. ((HeapPhys + HHDM) + d) - HHDM = HeapPhys + d
    BY <1>1
  <2>3. to(k) = (HeapPhys + HHDM) + d /\ e(k) = Entry(HeapPhys + d, flags_rw)
    BY <2>1
  <2> HIDE DEF to, e
  <2>4. to(k) - HHDM = HeapPhys + d
    BY <2>2, <2>3, Zenon
  <2>5. QED
    BY <2>3, <2>4, Zenon
<1> HIDE DEF to, e
<1>8. { w[1] : w \in HeapWanted } = PagesFrom(HeapPhys + HHDM, HEAP_PAGES * PAGE_SIZE)
  <2>1. \A k \in 0..(HEAP_PAGES - 1) : <<to(k), e(k)>> \in HeapWanted /\ <<to(k), e(k)>>[1] = to(k)
    BY <1>5
  <2>2. \A w \in HeapWanted : \E k \in 0..(HEAP_PAGES - 1) : w[1] = to(k)
    BY <1>5
  <2>3. QED
    BY <1>6, <2>1, <2>2, ZenonT(40)
<1>9. \A w \in HeapWanted : w[2] = Entry(w[1] - HHDM, flags_rw)
  BY <1>5, <1>7, SMTT(40)
<1>10. QED
  BY <1>2, <1>3, <1>8, <1>9, SMTT(40) DEF HeapIs


-----------------------------------------------------------------------------
(* What a step that maps a page does to the table and the queue.           *)
MapStepped ==
  LET j == Head(jobs)
  IN  /\ pc \in {"map", "heap"} /\ pc' = pc /\ j.to \in Nat
      /\ PagesLeft(jobs) = {<<j.to, Entry(j.from, j.flags)>>} \cup PagesLeft(jobs')
      /\ ~Reserved(j.to) /\ Aligned(j.from) /\ Lookup(t, j.to) = Unused
      /\ Changed(t, t', j.to, Entry(j.from, j.flags))

LEMMA MapSteps ==
  ASSUME FlowInv, TableInv, MapPage, pc' # "failed"
  PROVE  MapStepped
<1> DEFINE j == Head(jobs)
           r == map(t, NextFrames, j.from, j.to, j.flags)
<1>1. /\ pc \in {"map", "heap"} /\ pc' = pc /\ jobs # <<>> /\ j.left > 0 /\ t' = r.t /\ r.out = "Ok"
      /\ jobs' = <<NextPage(j)>> \o Tail(jobs)
  BY Zenon DEF MapPage, Fail
<1>2. jobs \in Seq(MapJobs)
  BY <1>1, SMTT(40) DEF FlowInv, JobsLeft
<1>3. j \in MapJobs /\ Tail(jobs) \in Seq(MapJobs)
  BY <1>1, <1>2, Queue, SMTT(40)
<1>4. j \in BootJobs /\ j.from \in Nat /\ j.to \in Nat /\ j.flags \in PageTableFlags
  BY <1>3, SMTT(40) DEF MapJobs, BootJobs
<1>5. linear \in Nat /\ TablesTaken
  BY <1>1 DEF TableInv
<1>6. Tree(t.lvl4, t) /\ \A f \in DOMAIN t.mem : f \in Nat /\ f + PAGE_SIZE <= linear
  BY <1>5 DEF TablesTaken
<1>7. PoolReady
  BY <1>5, <1>6, NextFramesAre, SMTT(40)
<1>8. MapDid(t, r, j.to, Entry(j.from, j.flags))
  <2> HIDE DEF j
  <2>1. QED
    BY <1>4, <1>6, <1>7, MapEffect, Zenon DEF PoolReady
<1>9. Aligned(j.from)
  <2> HIDE DEF j
  <2>1. r.out = "Ok" => Aligned(j.from)
    BY ZenonT(40) DEF map
  <2>2. QED
    BY <1>1, <2>1, SMTT(40)
<1>10. NextPage(j) \in MapJobs
  BY <1>1, <1>3, NextPageIs, SMTT(40)
<1>11. PagesLeft(jobs') = PagesOfJob(NextPage(j)) \cup PagesLeft(Tail(jobs))
  <2> DEFINE n == NextPage(j)
             rest == Tail(jobs)
  <2>1. n \in MapJobs /\ rest \in Seq(MapJobs)
    BY <1>3, <1>10, SMTT(40)
  <2> HIDE DEF n, rest
  <2>2. \A x \in MapJobs : PagesLeft(<<x>> \o rest) = PagesOfJob(x) \cup PagesLeft(rest)
    BY <2>1, PagesLeftIs, SMTT(40)
  <2>3. PagesLeft(<<n>> \o rest) = PagesOfJob(n) \cup PagesLeft(rest)
    BY <2>1, <2>2, ZenonT(40)
  <2>4. QED
    BY <1>1, <2>3, ZenonT(40) DEF n, rest
<1>12. PagesLeft(jobs) = PagesOfJob(j) \cup PagesLeft(Tail(jobs))
  BY <1>1, <1>2, PagesLeftIs, SMTT(40)
<1>13. PagesOfJob(j) = {<<j.to, Entry(j.from, j.flags)>>} \cup PagesOfJob(NextPage(j))
  BY <1>1, <1>4, NextPageLeaves, SMTT(40)
<1> HIDE DEF r
<1>14. QED
  BY <1>1, <1>4, <1>8, <1>9, <1>11, <1>12, <1>13, SMTT(40) DEF MapStepped, MapDid

(* A page that is mapped stays as it is when another one is mapped.        *)
LEMMA HoldsOn ==
  ASSUME MapStepped, NEW w, IsPage(w), Holds(w)
  PROVE  Holds(w)'
<1>1. PICK to \in Nat : \E e : Lookup(t, to) = Unused /\ Changed(t, t', to, e)
  BY DEF MapStepped
<1>2. w[1] \in Nat /\ ~Reserved(w[1]) /\ Lookup(t, w[1]) = w[2] /\ Aligned(w[2].addr)
  BY DEF IsPage, Holds
<1>3. w[2] # Unused
  <2>1. "PRESENT" \in w[2].flags
    BY DEF IsPage
  <2>2. QED
    BY <2>1 DEF Unused, Entry
<1>4. ~SamePage(w[1], to)
  BY <1>1, <1>2, <1>3, SameLookup, SMTT(40)
<1>5. Lookup(t', w[1]) = w[2]
  BY <1>1, <1>2, <1>4, SMTT(40) DEF Changed
<1>6. QED
  BY <1>2, <1>5, SMTT(40) DEF Holds

LEMMA StaysQueued ==
  ASSUME MapStepped, NEW w, IsPage(w), w \in PagesLeft(jobs) \/ Holds(w)
  PROVE  w \in PagesLeft(jobs') \/ Holds(w)'
<1>1. CASE Holds(w)
  BY <1>1, HoldsOn, SMTT(40)
<1>2. CASE w \in PagesLeft(jobs) /\ w \notin PagesLeft(jobs')
  <2> DEFINE j == Head(jobs)
             e == Entry(j.from, j.flags)
  <2>1. w = <<j.to, e>> /\ j.to \in Nat /\ ~Reserved(j.to) /\ Aligned(j.from) /\ Changed(t, t', j.to, e)
    BY <1>2, SMTT(40) DEF MapStepped
  <2>2. w[1] = j.to /\ w[2] = e /\ e.addr = j.from
    BY <2>1, SMTT(40) DEF Entry
  <2> HIDE DEF e, j
  <2>3. SamePage(j.to, j.to)
    BY DEF SamePage
  <2>4. Lookup(t', j.to) = e
    BY <2>1, <2>3, SMTT(40) DEF Changed
  <2>5. QED
    BY <2>1, <2>2, <2>4, SMTT(40) DEF Holds
<1>3. QED
  BY <1>1, <1>2, SMTT(40)

(* A page and its first address.                                           *)
LEMMA PageStartIs ==
  ASSUME NEW a \in Nat
  PROVE  PageStart(a) \in Nat /\ SamePage(PageStart(a), a)
<1>1. PICK p \in Nat : p = PageOf(a)
  BY PageIs
<1>2. PageStart(a) = p * PAGE_SIZE
  BY <1>1, PageSizeAssumption DEF PageStart
<1>3. PageStart(a) \in Nat /\ PageOf(PageStart(a)) = PageOf(a)
  BY <1>1, <1>2, PageIs, SMTT(40)
<1>4. QED
  BY <1>3, Zenon DEF SamePage, get_page_index

(* Stack pages are pages, of their own.                                    *)
LEMMA StackPagesAre ==
  ASSUME PlanIs, StackLayout, NEW s \in StackPages
  PROVE  /\ s \in Nat /\ s - HHDM \in Nat /\ <<s, Entry(s - HHDM, flags_rwx)>> \in Wanted
         /\ \A flags : StackAs(s, flags) <=>
              ~Reserved(s) /\ Aligned(s - HHDM) /\ Lookup(t, s) = Entry(s - HHDM, flags)
<1>1. s \in MiscPages
  BY DEF StackLayout
<1>2. s - HHDM \in Nat /\ <<s, Entry(s - HHDM, flags_rwx)>> \in Wanted
  BY <1>1, SMTT(40) DEF PlanIs
<1>3. IsPage(<<s, Entry(s - HHDM, flags_rwx)>>)
  BY <1>2, SMTT(40) DEF PlanIs
<1>4. s \in Nat
  BY <1>3, SMTT(40) DEF IsPage
<1>5. \A flags : StackAs(s, flags) <=>
         ~Reserved(s) /\ Aligned(s - HHDM) /\ Lookup(t, s) = Entry(s - HHDM, flags)
  BY DEF StackAs, Holds, Entry
<1>6. QED
  BY <1>2, <1>4, <1>5, SMTT(40)

LEMMA StackIsPage ==
  ASSUME NEW s \in Nat, s - HHDM \in Nat, NEW flags \in {flags_rw, flags_rwx}
  PROVE  IsPage(<<s, Entry(s - HHDM, flags)>>)
  BY DEF IsPage, Entry, flags_rw, flags_rwx

LEMMA TopIs ==
  ASSUME sp \in StackPointers
  PROVE  stack_top \in Nat /\ ~Reserved(stack_top)
<1>1. stack_top \in Nat /\ stack_bottom \in Nat /\ \A a \in stack_bottom..stack_top : ~Reserved(a)
  BY StackQueue, SMTT(40)
<1>2. stack_bottom <= stack_top
  BY <1>1, StackAssumption, SMTT(40) DEF stack_bottom
<1>3. QED
  BY <1>1, <1>2, SMTT(40)

(* A step that maps a page of the heap changes no page but that.           *)
LEMMA GuardedMaps ==
  ASSUME FlowInv, SameMap, PlanIs, StackLayout, HeapIs, MapStepped, Guarded, pc = "heap",
         PagesLeft(jobs) \subseteq HeapWanted
  PROVE  Guarded'
<1>1. SamePlan
  BY PlanStays, SMTT(40)
<1>2. Lookup(t', stack_top) = Unused
  <2> DEFINE to == Head(jobs).to
             e == Entry(Head(jobs).from, Head(jobs).flags)
  <2>1. <<to, e>> \in HeapWanted /\ Changed(t, t', to, e)
    BY Zenon DEF MapStepped
  <2>2. <<to, e>>[1] \in {w[1] : w \in HeapWanted}
    BY <2>1, SMTT(40)
  <2> HIDE DEF to, e
  <2>3. ~SamePage(to, stack_top)
    BY <2>2 DEF HeapIs, StackLayout
  <2>4. ~SamePage(stack_top, to)
    BY <2>3 DEF SamePage
  <2>5. stack_top \in Nat /\ ~Reserved(stack_top)
    BY TopIs, SMTT(40) DEF FlowInv
  <2>6. Lookup(t, stack_top) = Unused
    BY DEF Guarded
  <2>7. QED
    BY <2>1, <2>4, <2>5, <2>6, SMTT(40) DEF Changed
<1>3. ASSUME NEW w \in Wanted
      PROVE  \/ Holds(w)' \/ SamePage(w[1], stack_top)
             \/ \E s \in StackPages : w[2] = Entry(s - HHDM, flags_rwx)
  <2>1. IsPage(w)
    BY DEF PlanIs
  <2>2. QED
    BY <2>1, HoldsOn, SMTT(40) DEF Guarded
<1>4. ASSUME NEW s \in StackPages PROVE StackAs(s, flags_rw)'
  <2>1. s \in Nat /\ s - HHDM \in Nat
    BY StackPagesAre, Zenon
  <2>2. IsPage(<<s, Entry(s - HHDM, flags_rw)>>)
    BY <2>1, StackIsPage, Zenon
  <2>3. Holds(<<s, Entry(s - HHDM, flags_rw)>>)
    BY DEF Guarded, StackAs
  <2>4. QED
    BY <2>2, <2>3, HoldsOn, SMTT(40) DEF StackAs
<1>5. QED
  BY <1>1, <1>2, <1>3, <1>4, ZenonT(40) DEF Guarded, SamePlan


(* The guard page is unmapped, and the stack queued.                       *)
LEMMA GuardedStarts ==
  ASSUME FlowInv, TableInv, SameMap, PlanIs, StackLayout, ProtInv, UnmapGuardPage, pc' # "failed"
  PROVE  ProtInv'
<1> DEFINE pages == size_in_pages(STACK_SIZE)
           at(n) == stack_bottom + (n - 1) * PAGE_SIZE
<1>1. /\ pc = "map" /\ jobs = <<>> /\ pc' = "stack" /\ t' = unmap(t, stack_top).t
      /\ jobs' = [n \in 1..pages |-> Job(0, at(n), flags_rw, 1)]
      /\ unmap(t, stack_top).out = "Ok"
  BY DEF UnmapGuardPage, Fail
<1>2. SamePlan
  BY PlanStays, SMTT(40)
<1>3. stack_top \in Nat /\ ~Reserved(stack_top)
  BY TopIs, SMTT(40) DEF FlowInv
<1>4. Tree(t.lvl4, t)
  BY <1>1, ZenonT(40) DEF TableInv, TablesTaken
<1>5. Changed(t, t', stack_top, Unused)
  <2>1. Lookup(t, stack_top) # Unused
    BY <1>1, SMTT(40) DEF unmap, is_unused
  <2>2. QED
    BY <1>1, <1>3, <1>4, <2>1, UnmapEffect, SMTT(40)
<1>6. Lookup(t', stack_top) = Unused
  <2>1. SamePage(stack_top, stack_top)
    BY SMTT(40) DEF SamePage
  <2>2. QED
    BY <1>3, <1>5, <2>1, SMTT(40) DEF Changed
<1>7. ASSUME NEW w \in Wanted PROVE Holds(w) /\ IsPage(w)
  <2>1. PagesLeft(jobs) = {}
    BY <1>1, SMTT(40) DEF PagesLeft
  <2>2. QED
    BY <1>1, <2>1, SMTT(40) DEF ProtInv, Queued, PlanIs
<1>8. ASSUME NEW w \in Wanted PROVE Holds(w)' \/ SamePage(w[1], stack_top)
  <2>1. w[1] \in Nat /\ ~Reserved(w[1])
    BY <1>7 DEF IsPage, Holds
  <2>2. QED
    BY <1>5, <1>7, <2>1, SMTT(40) DEF Changed, Holds
<1>9. pages \in Nat /\ Len(jobs') = pages /\ \A n \in 1..pages : jobs'[n] = Job(0, at(n), flags_rw, 1)
  <2>1. pages \in Nat
    BY SizeInPages, StackAssumption, SMTT(40)
  <2> HIDE DEF pages, at
  <2>2. QED
    BY <1>1, <2>1, SMTT(40)
<1>10. StackPages = {PageStart(at(n)) : n \in 1..pages}
  <2> DEFINE From == PagesFrom(stack_bottom, STACK_SIZE)
  <2>1. From = {stack_bottom + k * PAGE_SIZE : k \in 0..(pages - 1)}
    BY DEF PagesFrom
  <2> HIDE DEF pages
  <2>2. ASSUME NEW n \in 1..pages PROVE n - 1 \in 0..(pages - 1)
    BY <1>9, SMTT(40)
  <2>3. ASSUME NEW k \in 0..(pages - 1) PROVE k + 1 \in 1..pages /\ at(k + 1) = stack_bottom + k * PAGE_SIZE
    <3>1. k + 1 \in 1..pages /\ (k + 1) - 1 = k
      BY <1>9, SMTT(40)
    <3>2. QED
      BY <3>1, SMTT(40)
  <2>4. \A s \in From : \E n \in 1..pages : s = at(n)
    <3> HIDE DEF at
    <3>1. QED
      BY <2>1, <2>3, SMTT(40)
  <2>5. \A n \in 1..pages : at(n) \in From
    BY <2>1, <2>2, SMTT(40)
  <2>6. StackPages = {PageStart(a) : a \in From}
    BY DEF StackPages
  <2> HIDE DEF at, From
  <2>7. QED
    BY <2>4, <2>5, <2>6, ZenonT(40)
<1> HIDE DEF pages, at
<1>11. \A n \in 1..Len(jobs') : jobs'[n].flags = flags_rw /\ PageStart(jobs'[n].to) \in StackPages
  BY <1>9, <1>10, SMTT(40) DEF Job
<1>12. ASSUME NEW s \in StackPages
       PROVE  StackAs(s, flags_rwx)' /\ \E i \in 1..Len(jobs') : PageStart(jobs'[i].to) = s
  <2>1. <<s, Entry(s - HHDM, flags_rwx)>> \in Wanted
    BY StackPagesAre
  <2>2. ~SamePage(s, stack_top)
    BY DEF StackLayout
  <2>3. Holds(<<s, Entry(s - HHDM, flags_rwx)>>)'
    BY <1>8, <2>1, <2>2, SMTT(40)
  <2>4. PICK n \in 1..pages : s = PageStart(at(n))
    BY <1>10, SMTT(40)
  <2>5. PageStart(jobs'[n].to) = s /\ n \in 1..Len(jobs')
    BY <1>9, <2>4, SMTT(40) DEF Job
  <2>6. QED
    BY <2>3, <2>5, SMTT(40) DEF StackAs
<1>13. Guarded'
  BY <1>1, <1>2, <1>6, <1>8, <1>12, Zenon DEF Guarded, SamePlan
<1>14. QED
  BY <1>1, <1>2, <1>11, <1>13, Zenon DEF ProtInv, SamePlan

(* A page of the stack is given its flags.                                 *)
LEMMA GuardedRemaps ==
  ASSUME FlowInv, TableInv, SameMap, PlanIs, StackLayout, ProtInv, RemapStackPage, pc' # "failed"
  PROVE  ProtInv'
<1>1. /\ pc = "stack" /\ pc' = pc /\ jobs # <<>> /\ jobs' = Tail(jobs)
      /\ t' = update_flags(t, Head(jobs).to, Head(jobs).flags).t
  BY DEF RemapStackPage, Fail
<1>2. SamePlan /\ Guarded
  BY <1>1, PlanStays, SMTT(40) DEF ProtInv
<1>3. jobs \in Seq(StackJobs)
  BY <1>1 DEF FlowInv, JobsLeft
<1>4. /\ Len(jobs) \in Nat \ {0} /\ Head(jobs) = jobs[1] /\ Len(jobs') = Len(jobs) - 1
      /\ \A i \in 1..Len(jobs') : jobs'[i] = jobs[i + 1]
  BY <1>1, <1>3, SMTT(40)
<1>5. PICK s0 \in StackPages : PageStart(Head(jobs).to) = s0 /\ Head(jobs).flags = flags_rw
  BY <1>1, <1>4, SMTT(40) DEF ProtInv
<1>6. s0 \in Nat /\ s0 - HHDM \in Nat
  BY <1>5, StackPagesAre, ZenonT(40)
<1>7. PICK F \in {flags_rw, flags_rwx} : StackAs(s0, F)
  BY <1>2, <1>5, Zenon DEF Guarded
<1>8. ~Reserved(s0) /\ Aligned(s0 - HHDM) /\ Lookup(t, s0) = Entry(s0 - HHDM, F)
  BY <1>5, <1>7, StackPagesAre, Zenon
<1>9. Changed(t, t', s0, Entry(s0 - HHDM, flags_rw))
  <2>1. PICK to \in Nat : to = Head(jobs).to
    BY <1>1, <1>3, Queue, SMTT(40) DEF StackJobs, BootJobs
  <2>2. SamePage(s0, to)
    BY <1>5, <2>1, PageStartIs, SMTT(40)
  <2>3. Lookup(t, to) = Entry(s0 - HHDM, F) /\ ~Reserved(to)
    BY <1>8, <2>2, SameLookup, SMTT(40)
  <2>4. Lookup(t, to) # Unused /\ Lookup(t, to).addr = s0 - HHDM
    BY <2>3, SMTT(40) DEF Unused, Entry, flags_rw, flags_rwx
  <2>5. Tree(t.lvl4, t)
    BY <1>1, SMTT(40) DEF TableInv, TablesTaken
  <2>6. flags_rw \in PageTableFlags
    BY SMTT(40) DEF flags_rw, PageTableFlags
  <2>7. Changed(t, update_flags(t, to, flags_rw).t, to, Entry(Lookup(t, to).addr, flags_rw))
    BY <2>3, <2>4, <2>5, <2>6, UpdateEffect, SMTT(40)
  <2>8. Changed(t, t', to, Entry(s0 - HHDM, flags_rw))
    BY <1>1, <1>5, <2>1, <2>4, <2>7, SMTT(40)
  <2>9. \A q : SamePage(q, s0) <=> SamePage(q, to)
    BY <2>2, SMTT(40) DEF SamePage
  <2>10. QED
    BY <2>8, <2>9, SMTT(40) DEF Changed
<1>10. Lookup(t', stack_top) = Unused
  <2>1. ~SamePage(s0, stack_top)
    BY <1>5 DEF StackLayout
  <2>2. ~SamePage(stack_top, s0)
    BY <2>1 DEF SamePage
  <2>3. stack_top \in Nat /\ ~Reserved(stack_top)
    BY TopIs, SMTT(40) DEF FlowInv
  <2>4. QED
    BY <1>2, <1>9, <2>2, <2>3, SMTT(40) DEF Changed, Guarded
<1>11. ASSUME NEW w, IsPage(w), Holds(w)
       PROVE  Holds(w)' \/ (SamePage(w[1], s0) /\ w[2] = Entry(s0 - HHDM, F))
  <2>1. w[1] \in Nat /\ ~Reserved(w[1]) /\ Lookup(t, w[1]) = w[2]
    BY <1>11, SMTT(40) DEF IsPage, Holds
  <2>2. CASE SamePage(w[1], s0)
    BY <1>8, <2>1, <2>2, SameLookup, SMTT(40)
  <2>3. CASE ~SamePage(w[1], s0)
    BY <1>9, <1>11, <2>1, <2>3, SMTT(40) DEF Changed, Holds
  <2>4. QED
    BY <2>2, <2>3, SMTT(40)
<1>12. ASSUME NEW w \in Wanted
       PROVE  \/ Holds(w)' \/ SamePage(w[1], stack_top)
              \/ \E s \in StackPages : w[2] = Entry(s - HHDM, flags_rwx)
  <2>1. IsPage(w) /\ w[2].flags # flags_rw
    BY DEF PlanIs
  <2>2. ASSUME Holds(w), ~Holds(w)' PROVE w[2] = Entry(s0 - HHDM, flags_rwx)
    <3>1. w[2] = Entry(s0 - HHDM, F)
      BY <1>11, <2>1, <2>2, SMTT(40)
    <3>2. F # flags_rw
      BY <2>1, <3>1, SMTT(40) DEF Entry
    <3>3. QED
      BY <3>1, <3>2, SMTT(40)
  <2>3. QED
    BY <1>2, <1>5, <2>2, ZenonT(40) DEF Guarded
<1>13. StackAs(s0, flags_rw)'
  <2>1. SamePage(s0, s0)
    BY DEF SamePage
  <2>2. Lookup(t', s0) = Entry(s0 - HHDM, flags_rw)
    BY <1>6, <1>8, <1>9, <2>1, SMTT(40) DEF Changed
  <2>3. Entry(s0 - HHDM, flags_rw).addr = s0 - HHDM
    BY DEF Entry
  <2>4. QED
    BY <1>8, <2>2, <2>3, SMTT(40) DEF StackAs, Holds
<1>14. ASSUME NEW s \in StackPages, s # s0, NEW flags \in {flags_rw, flags_rwx}, StackAs(s, flags)
       PROVE  StackAs(s, flags)'
  <2> DEFINE w == <<s, Entry(s - HHDM, flags)>>
  <2>1. s \in Nat /\ s - HHDM \in Nat
    BY StackPagesAre, Zenon
  <2>2. IsPage(w) /\ Holds(w)
    BY <1>14, <2>1, StackIsPage, Zenon DEF StackAs
  <2>3. w[2] # Entry(s0 - HHDM, F)
    <3>1. s - HHDM # s0 - HHDM
      BY <1>6, <1>14, <2>1, AddressesAssumption, SMTT(40)
    <3>2. w[2].addr = s - HHDM /\ Entry(s0 - HHDM, F).addr = s0 - HHDM
      BY DEF Entry
    <3>3. QED
      BY <3>1, <3>2, SMTT(40)
  <2> HIDE DEF w
  <2>4. Holds(w)'
    BY <1>11, <2>2, <2>3, SMTT(40)
  <2>5. QED
    BY <2>4, SMTT(40) DEF StackAs, w
<1>15. ASSUME NEW s \in StackPages
       PROVE  \/ StackAs(s, flags_rw)'
              \/ StackAs(s, flags_rwx)' /\ \E i \in 1..Len(jobs') : PageStart(jobs'[i].to) = s
  <2>1. CASE s = s0
    BY <1>13, <2>1, SMTT(40)
  <2>2. CASE s # s0 /\ StackAs(s, flags_rw)
    BY <1>14, <2>2, SMTT(40)
  <2>3. CASE s # s0 /\ StackAs(s, flags_rwx) /\ \E i \in 1..Len(jobs) : PageStart(jobs[i].to) = s
    <3>1. PICK i \in 1..Len(jobs) : PageStart(jobs[i].to) = s
      BY <2>3, SMTT(40)
    <3>2. i # 1
      BY <1>4, <1>5, <2>3, <3>1, SMTT(40)
    <3>3. i - 1 \in 1..Len(jobs') /\ (i - 1) + 1 = i
      BY <1>4, <3>2, SMTT(40)
    <3>4. PageStart(jobs'[i - 1].to) = s
      BY <1>4, <3>1, <3>3, SMTT(40)
    <3>5. QED
      BY <1>14, <2>3, <3>3, <3>4, SMTT(40)
  <2>4. QED
    BY <1>2, <2>1, <2>2, <2>3, ZenonT(40) DEF Guarded
<1>16. Guarded'
  BY <1>1, <1>2, <1>10, <1>12, <1>15, ZenonT(40) DEF Guarded, SamePlan
<1>17. \A i \in 1..Len(jobs') : jobs'[i].flags = flags_rw /\ PageStart(jobs'[i].to) \in StackPages
  <2> TAKE i \in 1..Len(jobs')
  <2>1. i + 1 \in 1..Len(jobs) /\ jobs'[i] = jobs[i + 1]
    BY <1>4, SMTT(40)
  <2>2. QED
    BY <1>1, <2>1, SMTT(40) DEF ProtInv
<1>18. QED
  BY <1>1, <1>2, <1>16, <1>17, SMTT(40) DEF ProtInv, SamePlan


-----------------------------------------------------------------------------
(* The phases after the stack leave the table alone but for the heap.      *)
LEMMA GuardedSame ==
  ASSUME SameMap, Guarded, t' = t, pc # "stack" \/ jobs = <<>>
  PROVE  Guarded'
<1>1. SamePlan
  BY PlanStays
<1>2. \A w : Holds(w)' <=> Holds(w)
  BY DEF Holds
<1>3. ASSUME NEW s \in StackPages PROVE StackAs(s, flags_rw)'
  <2>1. jobs = <<>> => 1..Len(jobs) = {}
    BY SMTT(40)
  <2>2. StackAs(s, flags_rw)
    BY <2>1, SMTT(40) DEF Guarded
  <2>3. QED
    BY <1>2, <2>2, SMTT(40) DEF StackAs
<1>4. ASSUME NEW w \in Wanted
      PROVE  \/ Holds(w)' \/ SamePage(w[1], stack_top)
             \/ \E s \in StackPages : w[2] = Entry(s - HHDM, flags_rwx)
  BY <1>2, Zenon DEF Guarded
<1>5. QED
  BY <1>1, <1>3, <1>4, ZenonT(40) DEF Guarded, SamePlan

(* A step that leaves the table, the phase and the queue.                  *)
LEMMA ProtKept ==
  ASSUME SameMap, ProtInv, t' = t, pc' = pc, jobs' = jobs
  PROVE  ProtInv'
<1>1. SamePlan
  BY PlanStays, SMTT(40)
<1>2. \A w : Holds(w)' <=> Holds(w)
  BY SMTT(40) DEF Holds
<1>3. Guarded => Guarded'
  <2>1. \A s, flags : StackAs(s, flags)' <=> StackAs(s, flags)
    BY DEF StackAs, Holds
  <2>2. QED
    BY <1>1, <1>2, <2>1, ZenonT(40) DEF Guarded, SamePlan
<1>4. \A w : w \in PagesLeft(jobs') <=> w \in PagesLeft(jobs)
  OBVIOUS
<1>5. QED
  BY <1>1, <1>2, <1>3, <1>4, SMTT(40) DEF ProtInv, Queued, SamePlan

(* One page of a phase that maps, or the end of one of its calls.          *)
LEMMA ProtMaps ==
  ASSUME FlowInv, TableInv, SameMap, PlanIs, HeapIs, StackLayout, ProtInv, MapPage, pc' # "failed"
  PROVE  ProtInv'
<1>1. SamePlan /\ MapStepped
  BY PlanStays, MapSteps, SMTT(40)
<1>2. pc \in {"map", "heap"} /\ pc' = pc /\ PagesLeft(jobs') \subseteq PagesLeft(jobs)
  BY <1>1, ZenonT(40) DEF MapStepped
<1>3. CASE pc = "map"
  <2>1. ASSUME NEW w \in Wanted PROVE w \in PagesLeft(jobs') \/ Holds(w)'
    <3>1. IsPage(w) /\ (w \in PagesLeft(jobs) \/ Holds(w))
      BY <1>3, ZenonT(40) DEF PlanIs, ProtInv, Queued
    <3>2. QED
      BY <1>1, <3>1, StaysQueued, SMTT(40)
  <2>2. QED
    BY <1>1, <1>2, <1>3, <2>1, SMTT(40) DEF ProtInv, Queued, SamePlan
<1>4. CASE pc = "heap"
  <2>1. ASSUME NEW w \in HeapWanted PROVE w \in PagesLeft(jobs') \/ Holds(w)'
    <3>1. IsPage(w) /\ (w \in PagesLeft(jobs) \/ Holds(w))
      BY <1>4, Zenon DEF HeapIs, ProtInv, Queued
    <3>2. QED
      BY <1>1, <3>1, StaysQueued
  <2>2. Guarded'
    <3>1. Guarded /\ PagesLeft(jobs) \subseteq HeapWanted
      BY <1>4, SMTT(40) DEF ProtInv
    <3>2. QED
      BY <1>1, <1>4, <3>1, GuardedMaps, SMTT(40)
  <2>3. PagesLeft(jobs') \subseteq HeapWanted
    BY <1>2, <1>4, SMTT(40) DEF ProtInv
  <2>4. QED
    BY <1>1, <1>2, <1>4, <2>1, <2>2, <2>3, SMTT(40) DEF ProtInv, Queued, SamePlan
<1>5. QED
  BY <1>2, <1>3, <1>4, SMTT(40)

LEMMA ProtNextJob ==
  ASSUME FlowInv, SameMap, ProtInv, NextJob
  PROVE  ProtInv'
<1>1. SamePlan
  BY PlanStays
<1>2. pc \in {"map", "heap"} /\ pc' = pc /\ t' = t /\ jobs # <<>> /\ Head(jobs).left = 0 /\ jobs' = Tail(jobs)
  BY DEF NextJob
<1>3. jobs \in Seq(MapJobs)
  BY <1>2 DEF FlowInv, JobsLeft
<1>4. PagesLeft(jobs') = PagesLeft(jobs)
  <2>1. PagesOfJob(Head(jobs)) = {}
    BY <1>2 DEF PagesOfJob
  <2>2. PagesLeft(jobs) = PagesOfJob(Head(jobs)) \cup PagesLeft(Tail(jobs))
    BY <1>2, <1>3, PagesLeftIs, SMTT(40)
  <2>3. QED
    BY <1>2, <2>1, <2>2, SMTT(40)
<1>5. \A w : Holds(w)' <=> Holds(w)
  BY <1>2 DEF Holds
<1>6. pc = "heap" => Guarded'
  BY <1>2, GuardedSame, SMTT(40) DEF ProtInv
<1>7. QED
  BY <1>1, <1>2, <1>4, <1>5, <1>6, SMTT(40) DEF ProtInv, Queued, SamePlan

LEMMA LayoutStays == StackLayout /\ [KNext]_kvars => StackLayout'
<1> SUFFICES ASSUME StackLayout, KNext \/ UNCHANGED kvars PROVE StackLayout'
  BY DEF kvars
<1>1. QED
  BY MapStays, PlanStays, SMTT(40) DEF SamePlan

LEMMA ProtInvStep == FlowInv /\ TableInv /\ StackLayout /\ ProtInv /\ [KNext]_kvars => ProtInv'
<1> SUFFICES ASSUME FlowInv, TableInv, StackLayout, ProtInv, KNext \/ UNCHANGED kvars
             PROVE  ProtInv'
  BY DEF kvars
<1>1. SameMap /\ SamePlan
  BY MapStays, PlanStays, SMTT(40)
<1>2. pc \notin {"start", "failed"} => PlanIs /\ HeapIs
  <2>1. pc \notin {"start", "failed"} => PlanIs
    BY PlanKnown, SMTT(40) DEF FlowInv
  <2>2. pc \notin {"start", "failed"} => HeapPhys \in Nat
    BY MapIs, SMTT(40) DEF FlowInv, RegionsKnown
  <2>3. QED
    BY <2>1, <2>2, HeapKnown, SMTT(40)
<1>3. CASE pc' = "failed"
  BY <1>3, SMTT(40) DEF ProtInv
<1>4. CASE Start /\ pc' # "failed"
  <2>1. pc' = "map" /\ jobs' = map_kernel \o map_misc
    BY <1>4, SMTT(40) DEF Start, Fail
  <2>2. Wanted = PagesLeft(jobs')
    BY <2>1, SMTT(40) DEF Wanted
  <2>3. QED
    BY <1>1, <2>1, <2>2, SMTT(40) DEF ProtInv, Queued, SamePlan
<1>5. CASE MapPage /\ pc' # "failed"
  BY <1>1, <1>2, <1>5, ProtMaps, ZenonT(40) DEF MapPage
<1>6. CASE NextJob
  BY <1>1, <1>6, ProtNextJob, SMTT(40)
<1>7. CASE UnmapGuardPage /\ pc' # "failed"
  BY <1>1, <1>2, <1>7, GuardedStarts, SMTT(40) DEF UnmapGuardPage
<1>8. CASE RemapStackPage /\ pc' # "failed"
  BY <1>1, <1>2, <1>8, GuardedRemaps, ZenonT(40) DEF RemapStackPage
<1>9. CASE CreateFrameAllocator
  <2>1. pc = "stack" /\ jobs = <<>> /\ pc' = "clear" /\ t' = t
    BY <1>9, SMTT(40) DEF CreateFrameAllocator
  <2>2. Guarded'
    BY <1>1, <2>1, GuardedSame, SMTT(40) DEF ProtInv
  <2>3. QED
    BY <2>1, <2>2, SMTT(40) DEF ProtInv
<1>10. CASE ClearRegion /\ pc' # "failed"
  <2>1. pc = "clear" /\ pc' = "clear" /\ t' = t
    BY <1>10, ZenonT(40) DEF ClearRegion, Fail
  <2>2. Guarded'
    BY <1>1, <2>1, GuardedSame, SMTT(40) DEF ProtInv
  <2>3. QED
    BY <2>1, <2>2, SMTT(40) DEF ProtInv
<1>11. CASE CreateVirtualAllocator
  <2> DEFINE j == Job(HeapPhys, HeapPhys + HHDM, flags_rw, HEAP_PAGES)
  <2>1. pc = "clear" /\ pc' = "heap" /\ t' = t /\ jobs' = <<j>>
    BY <1>11, SMTT(40) DEF CreateVirtualAllocator, HeapNext
  <2>2. Guarded'
    BY <1>1, <2>1, GuardedSame, SMTT(40) DEF ProtInv
  <2>3. PagesLeft(jobs') = HeapWanted
    <3>1. HeapWanted = PagesOfJob(j)
      BY DEF HeapWanted
    <3> HIDE DEF j
    <3>2. Len(jobs') = 1 /\ jobs'[1] = j
      BY <2>1, SMTT(40)
    <3>3. \A i \in 1..1 : i = 1
      BY SMTT(40)
    <3>4. QED
      BY <3>1, <3>2, <3>3, SMTT(40) DEF PagesLeft
  <2>4. QED
    BY <1>1, <2>1, <2>2, <2>3, ZenonT(40) DEF ProtInv, Queued, SamePlan
<1>12. CASE MarkAndLoad /\ pc' # "failed"
  <2>1. pc = "heap" /\ jobs = <<>> /\ pc' = "booted" /\ t' = t
    BY <1>12, Zenon DEF MarkAndLoad, Fail
  <2>2. Guarded'
    BY <1>1, <2>1, GuardedSame DEF ProtInv
  <2>3. PagesLeft(jobs) = {}
    BY <2>1, SMTT(40) DEF PagesLeft
  <2>4. \A w \in HeapWanted : Holds(w)'
    BY <2>1, <2>3, SMTT(40) DEF ProtInv, Queued, Holds
  <2>5. QED
    BY <1>1, <2>1, <2>2, <2>4, SMTT(40) DEF ProtInv, SamePlan
<1>13. CASE \E size \in Sizes : AllocatedMemoryNew(size) \/ ReservePhysical(size)
  BY <1>1, <1>13, CallKeeps, ProtKept, ZenonT(40) DEF Called
<1>14. CASE StackFault \/ KHalt \/ UNCHANGED kvars
  BY <1>1, <1>14, ProtKept, SMTT(40) DEF StackFault, KHalt, kvars, vars
<1>15. QED
  BY <1>3, <1>4, <1>5, <1>6, <1>7, <1>8, <1>9, <1>10, <1>11, <1>12, <1>13, <1>14
   , SMTT(40) DEF KNext, BootStep, Boot

LEMMA ProtectedAtEnd ==
  ASSUME FlowInv, StackLayout, ProtInv
  PROVE  KernelProtected
<1> SUFFICES ASSUME pc = "booted" PROVE KernelProtected
  BY Zenon DEF KernelProtected
<1>1. Guarded /\ PlanIs /\ HeapIs /\ \A w \in HeapWanted : Holds(w)
  <2>1. HeapPhys \in Nat
    BY MapIs DEF FlowInv, RegionsKnown
  <2>2. QED
    BY <2>1, PlanKnown, HeapKnown, SMTT(40) DEF FlowInv, ProtInv
<1>2. /\ "GLOBAL" \in flags_rx \cup {"GLOBAL"} /\ "GLOBAL" \in flags_rw \cup {"GLOBAL"}
      /\ "GLOBAL" \notin flags_rwx
  BY SMTT(40) DEF flags_rwx
<1>3. ASSUME NEW w \in Wanted, ~SamePage(w[1], stack_top), "GLOBAL" \in w[2].flags
      PROVE  Lookup(t, w[1]) = w[2]
  <2>1. \A s : w[2] # Entry(s - HHDM, flags_rwx)
    BY <1>2, <1>3, SMTT(40) DEF Entry
  <2>2. QED
    BY <1>1, <1>3, <2>1, ZenonT(40) DEF Guarded, Holds
<1>4. ASSUME NEW a \in PagesFrom(Sections[2], Sections[3] - Sections[2])
      PROVE  Lookup(t, a).flags = flags_rx \cup {"GLOBAL"}
  <2>1. PICK w \in Wanted : w[1] = a /\ w[2].flags = flags_rx \cup {"GLOBAL"}
    BY <1>1, Zenon DEF PlanIs
  <2>2. ~SamePage(a, stack_top)
    BY SMTT(40) DEF StackLayout
  <2>3. QED
    BY <1>2, <1>3, <2>1, <2>2, SMTT(40)
<1>5. ASSUME NEW a \in PagesFrom(Sections[4], Sections[5] - Sections[4])
      PROVE  Lookup(t, a).flags = flags_rw \cup {"GLOBAL"}
  <2>1. PICK w \in Wanted : w[1] = a /\ w[2].flags = flags_rw \cup {"GLOBAL"}
    BY <1>1, SMTT(40) DEF PlanIs
  <2>2. ~SamePage(a, stack_top)
    BY DEF StackLayout
  <2>3. QED
    BY <1>2, <1>3, <2>1, <2>2, SMTT(40)
<1>6. ASSUME NEW a \in Nat, a - HHDM \in Nat, Aligned(a - HHDM), Lookup(t, a) = Entry(a - HHDM, flags_rw)
      PROVE  Lookup(t, a).flags = flags_rw /\ translate(t, a) = a - HHDM
  <2>1. Lookup(t, a).flags = flags_rw /\ Lookup(t, a).addr = a - HHDM /\ Lookup(t, a) # Unused
    BY <1>6 DEF Entry, Unused, flags_rw
  <2>2. a % PAGE_SIZE = 0
    <3>1. PICK d \in Nat : d = a - HHDM
      BY <1>6, SMTT(40)
    <3>2. Aligned(d + HHDM)
      BY <1>6, <3>1, AlignedSums, AddressesAssumption, SMTT(40)
    <3>3. d + HHDM = a
      BY <3>1, AddressesAssumption, SMTT(40)
    <3>4. QED
      BY <3>2, <3>3, SMTT(40) DEF Aligned
  <2>3. (a - HHDM) + 0 = a - HHDM
    BY <1>6, SMTT(40)
  <2>4. QED
    BY <2>1, <2>2, <2>3, SMTT(40) DEF translate, is_unused
<1>7. ASSUME NEW a \in StackPages PROVE Lookup(t, a).flags = flags_rw /\ translate(t, a) = a - HHDM
  <2>1. StackAs(a, flags_rw)
    BY <1>1, ZenonT(40) DEF Guarded
  <2>2. a \in Nat /\ a - HHDM \in Nat /\ Aligned(a - HHDM) /\ Lookup(t, a) = Entry(a - HHDM, flags_rw)
    BY <1>1, <2>1, StackPagesAre, ZenonT(40)
  <2>3. QED
    BY <1>6, <2>2, SMTT(40)
<1>8. ASSUME NEW a \in PagesFrom(HeapPhys + HHDM, HEAP_PAGES * PAGE_SIZE)
      PROVE  Lookup(t, a).flags = flags_rw /\ translate(t, a) = a - HHDM
  <2>1. PICK w \in HeapWanted : w[1] = a
    BY <1>1, ZenonT(40) DEF HeapIs
  <2>2. w[2] = Entry(a - HHDM, flags_rw) /\ IsPage(w) /\ Holds(w)
    BY <1>1, <2>1, ZenonT(40) DEF HeapIs
  <2>3. w[2].addr = a - HHDM
    BY <2>2, SMTT(40) DEF Entry
  <2>4. a \in Nat /\ a - HHDM \in Nat /\ Aligned(a - HHDM) /\ Lookup(t, a) = Entry(a - HHDM, flags_rw)
    BY <2>1, <2>2, <2>3, SMTT(40) DEF IsPage, Holds
  <2>5. QED
    BY <1>6, <2>4, SMTT(40)
<1>9. translate(t, stack_top) = None
  BY <1>1, ZenonT(40) DEF Guarded, translate, is_unused
<1>10. ASSUME NEW a \in MiscPages
       PROVE  a \in StackPages \/ PageOf(a) = PageOf(stack_top) \/ Lookup(t, a) = Entry(a - HHDM, flags_rwx)
  <2> DEFINE w == <<a, Entry(a - HHDM, flags_rwx)>>
  <2>1. w \in Wanted /\ w[1] = a /\ w[2] = Entry(a - HHDM, flags_rwx) /\ a - HHDM \in Nat
    BY <1>1, ZenonT(40) DEF PlanIs
  <2>2. a \in Nat
    BY <1>1, <2>1, SMTT(40) DEF PlanIs, IsPage
  <2> HIDE DEF w
  <2>3. CASE Holds(w)
    BY <2>1, <2>3, SMTT(40) DEF Holds
  <2>4. CASE SamePage(w[1], stack_top)
    BY <2>1, <2>4, SMTT(40) DEF StackLayout
  <2>5. ASSUME NEW s \in StackPages, w[2] = Entry(s - HHDM, flags_rwx) PROVE a = s
    <3>1. s \in Nat
      BY <1>1, StackPagesAre, Zenon
    <3>2. a - HHDM = s - HHDM
      <4>1. Entry(a - HHDM, flags_rwx) = Entry(s - HHDM, flags_rwx)
        BY <2>1, <2>5, ZenonT(40)
      <4>2. \A x, y : Entry(x, flags_rwx) = Entry(y, flags_rwx) => x = y
        BY SMTT(40) DEF Entry
      <4>3. QED
        BY <4>1, <4>2, ZenonT(40)
    <3>3. QED
      BY <2>2, <3>1, <3>2, AddressesAssumption, SMTT(40)
  <2>6. QED
    BY <1>1, <2>1, <2>3, <2>4, <2>5, ZenonT(40) DEF Guarded
<1>11. QED
  BY <1>4, <1>5, <1>7, <1>8, <1>9, <1>10, ZenonT(40) DEF KernelProtected

(* Whatever the memory map and wherever the kernel was loaded: when        *)
(* init_memory succeeds on a stack that the boot loader left apart, the    *)
(* loaded table has the kernel's code and data, the heap and the stack     *)
(* with their flags, no page at stack_top, and all other regions where     *)
(* they were.                                                              *)
THEOREM LoadedTableProtects == KSpec /\ StackLayout => []KernelProtected
<1>1. KInit => ProtInv
  BY DEF KInit, Init, ProtInv
<1>2. FlowInv /\ StackLayout /\ ProtInv => KernelProtected
  BY ProtectedAtEnd
<1>3. QED
  BY <1>1, <1>2, AlwaysFlow, AlwaysTable, LayoutStays, ProtInvStep, PTL DEF KSpec
=============================================================================
