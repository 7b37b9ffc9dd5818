------------------------- MODULE KernelBootProofs -------------------------
(***************************************************************************)
(* What the boot and the calls after it promise for every memory map, page *)
(* size, fanout, layout of the kernel and size of the heap.                *)
(***************************************************************************)
EXTENDS KernelMemory, MemoryLemmas

-----------------------------------------------------------------------------
(* The loop that creates levels has taken k frames of the pool, and they   *)
(* are tables now.                                                         *)
Shaped(root, s) ==
  /\ s = [t |-> s.t, pool |-> s.pool, table |-> s.table, out |-> s.out]
  /\ s.t = [mem |-> s.t.mem, lvl4 |-> root]

Took(u, pool, s, k) ==
  /\ s.pool \in Seq(Nat) /\ Len(s.pool) = Len(pool) - k
  /\ \A i \in 1..Len(s.pool) : s.pool[i] = pool[i + k]
  /\ DOMAIN s.t.mem = DOMAIN u.mem \cup {pool[i] : i \in 1..k}

LinkTook(root, u, pool, s, r, k) ==
  /\ Shaped(root, r)
  /\ \/ r.out = "Ok" /\ s.out = "Ok" /\ k + 1 <= Len(pool) /\ Took(u, pool, r, k + 1)
     \/ r.out # "Ok" /\ Took(u, pool, r, k)

LEMMA LinkTakes ==
  ASSUME NEW root, NEW u, NEW pool \in Seq(Nat), NEW s, Shaped(root, s),
         NEW k \in Nat, k <= Len(pool), Took(u, pool, s, k), NEW n, NEW to
  PROVE  LinkTook(root, u, pool, s, Link(s, n, to), k)
<1> DEFINE i      == get_page_index(n, to)
           frame  == Head(s.pool)
           linked == SetEntry(s.t, s.table, i, Entry(frame, flags_rwx))
           r      == Link(s, n, to)
<1>1. CASE s.out # "Ok"
  BY <1>1 DEF Link, LinkTook
<1>2. CASE s.out = "Ok" /\ (r = [s EXCEPT !.out = "panic"] \/ r = [s EXCEPT !.out = "TableAllocationFailed"])
  <2>1. r.t = s.t /\ r.pool = s.pool /\ r.out # "Ok" /\ r.table = s.table
        /\ r = [t |-> s.t, pool |-> s.pool, table |-> s.table, out |-> r.out]
    BY <1>2 DEF Shaped
  <2> HIDE DEF r
  <2>2. QED
    BY <2>1 DEF LinkTook, Took, Shaped, r
<1>3. CASE /\ s.out = "Ok" /\ s.pool # <<>>
           /\ r = [ t     |-> [linked EXCEPT !.mem = new_page_table_level(@, frame)],
                    pool  |-> Tail(s.pool), table |-> frame, out |-> "Ok" ]
  <2>1. linked = [mem |-> linked.mem, lvl4 |-> root] /\ DOMAIN linked.mem = DOMAIN s.t.mem
    BY DEF SetEntry, Shaped
  <2> HIDE DEF linked, frame
  <2>2. /\ r.t = [mem |-> new_page_table_level(linked.mem, frame), lvl4 |-> root]
        /\ r.pool = Tail(s.pool) /\ r.out = "Ok" /\ r.table = frame
        /\ r = [t |-> r.t, pool |-> r.pool, table |-> r.table, out |-> r.out]
    BY <1>3, <2>1
  <2> HIDE DEF r
  <2>3. DOMAIN r.t.mem = DOMAIN s.t.mem \cup {frame}
    BY <2>1, <2>2 DEF new_page_table_level
  <2>4. s.pool \in Seq(Nat) /\ s.pool # <<>>
    BY <1>3 DEF Took
  <2>5. /\ Len(s.pool) >= 1 /\ Head(s.pool) = s.pool[1]
        /\ Tail(s.pool) \in Seq(Nat) /\ Len(Tail(s.pool)) = Len(s.pool) - 1
        /\ \A j \in 1..Len(Tail(s.pool)) : Tail(s.pool)[j] = s.pool[j + 1]
    BY <2>4
  <2>6. Len(s.pool) = Len(pool) - k /\ \A j \in 1..Len(s.pool) : s.pool[j] = pool[j + k]
    BY DEF Took
  <2>7. frame = pool[k + 1] /\ k + 1 <= Len(pool)
    BY <2>5, <2>6 DEF frame
  <2>8. DOMAIN r.t.mem = DOMAIN u.mem \cup {pool[j] : j \in 1..(k + 1)}
    <3>1. DOMAIN s.t.mem = DOMAIN u.mem \cup {pool[j] : j \in 1..k}
      BY DEF Took
    <3>2. 1..(k + 1) = 1..k \cup {k + 1}
      OBVIOUS
    <3>3. QED
      BY <2>3, <2>7, <3>1, <3>2, Zenon
  <2>9. /\ r.pool \in Seq(Nat) /\ Len(r.pool) = Len(pool) - (k + 1)
        /\ \A j \in 1..Len(r.pool) : r.pool[j] = pool[j + (k + 1)]
    <3>1. ASSUME NEW j \in 1..Len(Tail(s.pool)) PROVE Tail(s.pool)[j] = pool[j + (k + 1)]
      <4>1. j + 1 \in 1..Len(s.pool) /\ (j + 1) + k = j + (k + 1)
        BY <2>5
      <4>2. QED
        BY <2>5, <2>6, <4>1, Zenon
    <3>2. QED
      BY <2>2, <2>5, <2>6, <3>1, SMTT(40)
  <2>10. QED
    BY <1>3, <2>2, <2>7, <2>8, <2>9, SMTT(40) DEF LinkTook, Took, Shaped, r
<1>4. QED
  BY <1>1, <1>2, <1>3, ZenonT(40) DEF Link, FramesAfterAlloc

LevelsTook(root, u, pool, r, level) ==
  /\ Shaped(root, r)
  /\ \E k \in 0..(level - 1) :
       k <= Len(pool) /\ Took(u, pool, r, k) /\ (r.out = "Ok" => k = level - 1)

LEMMA CreateTakes ==
  ASSUME NEW root, NEW u, u = [mem |-> u.mem, lvl4 |-> root], NEW pool \in Seq(Nat), NEW level \in 1..4, NEW to
  PROVE  LevelsTook(root, u, pool, CreateLevels(u, pool, level, to), level)
<1> DEFINE s0 == [t |-> u, pool |-> pool, table |-> get_page_table(u, level, to), out |-> "Ok"]
           s4 == IF level >= 4 THEN Link(s0, 4, to) ELSE s0
           s3 == IF level >= 3 THEN Link(s4, 3, to) ELSE s4
           s2 == IF level >= 2 THEN Link(s3, 2, to) ELSE s3
           Did(s, d) == Shaped(root, s) /\ \E k \in 0..d :
                          k <= Len(pool) /\ Took(u, pool, s, k) /\ (s.out = "Ok" => k = d)
<1>1. CreateLevels(u, pool, level, to) = s2
  BY DEF CreateLevels
<1>2. Did(s0, 0)
  <2>1. s0.t = u /\ s0.pool = pool /\ Shaped(root, s0)
    BY DEF Shaped
  <2> HIDE DEF s0
  <2>2. Took(u, pool, s0, 0)
    BY <2>1 DEF Took
  <2>3. QED
    BY <2>1, <2>2
<1>3. ASSUME NEW s, NEW d \in Nat, Did(s, d), NEW n PROVE Did(Link(s, n, to), d + 1)
  <2>1. PICK k \in 0..d : k <= Len(pool) /\ Took(u, pool, s, k) /\ (s.out = "Ok" => k = d)
    BY <1>3
  <2>2. LinkTook(root, u, pool, s, Link(s, n, to), k)
    BY <1>3, <2>1, LinkTakes
  <2>3. QED
    BY <2>1, <2>2, SMTT(40) DEF LinkTook
<1> HIDE DEF s0, Did
<1>4. Did(s4, IF level >= 4 THEN 1 ELSE 0)
  BY <1>2, <1>3
<1> HIDE DEF s4
<1>5. Did(s3, IF level >= 4 THEN 2 ELSE IF level >= 3 THEN 1 ELSE 0)
  BY <1>3, <1>4
<1> HIDE DEF s3
<1>6. Did(s2, level - 1)
  <2>1. CASE level >= 4
    BY <1>3, <1>5, <2>1
  <2>2. CASE level = 3
    BY <1>3, <1>5, <2>2
  <2>3. CASE level <= 2
    BY <1>3, <1>5, <2>3
  <2>4. QED
    BY <2>1, <2>2, <2>3
<1> HIDE DEF s2
<1>7. QED
  BY <1>1, <1>6 DEF Did, LevelsTook

MapTook(u, pool, r, levels) ==
  \E k \in 0..3 : k <= Len(pool) /\ Took(u, pool, r, k) /\ (r.out = "Ok" => k = levels)

LEMMA MapTakes ==
  ASSUME NEW root, NEW u, Tree(root, u), NEW pool \in Seq(Nat), NEW from, NEW to \in Nat, NEW flags
  PROVE  MapTook(u, pool, map(u, pool, from, to, flags), IF Reserved(to) THEN 0 ELSE LowestLevel(u, to) - 1)
<1> DEFINE level == LowestLevel(u, to)
           s == CreateLevels(u, pool, level, to)
           r == map(u, pool, from, to, flags)
           i == get_page_index(1, to)
           w == SetEntry(s.t, s.table, i, Entry(from, flags))
<1>1. u = [mem |-> u.mem, lvl4 |-> root] /\ IsTable(root, u)
  BY DEF Tree, IsTable
<1>2. level \in 1..4
  <2>1. get_page_table(u, 4, to) = root
    BY <1>1, LookupIs
  <2>2. QED
    BY <1>1, <2>1, LowestLevelIs
<1>3. CASE Reserved(to)
  <2>1. r.t = u /\ r.pool = pool /\ r.out = "AttemptedMappingToReserved"
    BY <1>3, Zenon DEF map
  <2> HIDE DEF r
  <2>2. Took(u, pool, r, 0)
    BY <2>1 DEF Took
  <2>3. QED
    BY <2>1, <2>2, SMTT(40) DEF MapTook, r
<1>4. CASE ~Reserved(to)
  <2> HIDE DEF level
  <2>1. LevelsTook(root, u, pool, s, level)
    BY <1>1, <1>2, CreateTakes
  <2>2. PICK k \in 0..(level - 1) :
          k <= Len(pool) /\ Took(u, pool, s, k) /\ (s.out = "Ok" => k = level - 1)
    BY <2>1 DEF LevelsTook
  <2>3. s.t = [mem |-> s.t.mem, lvl4 |-> root]
    BY <2>1, SMTT(40) DEF LevelsTook, Shaped
  <2>4. \/ r = [t |-> s.t, pool |-> s.pool, out |-> s.out] /\ s.out # "Ok"
        \/ r = [t |-> s.t, pool |-> s.pool, out |-> "AlreadyMapped"] /\ s.out = "Ok"
        \/ r = [t |-> s.t, pool |-> s.pool, out |-> "panic"] /\ s.out = "Ok"
        \/ r = [t |-> w, pool |-> s.pool, out |-> "Ok"] /\ s.out = "Ok"
    BY <1>4, Zenon DEF map, level
  <2>5. DOMAIN w.mem = DOMAIN s.t.mem
    BY <2>3 DEF SetEntry
  <2> HIDE DEF s, w
  <2>7. r.pool = s.pool /\ DOMAIN r.t.mem = DOMAIN s.t.mem
    BY <2>4, <2>5
  <2>8. r.out = "Ok" => s.out = "Ok"
    BY <2>4
  <2> HIDE DEF r
  <2>9. Took(u, pool, r, k)
    BY <2>2, <2>7 DEF Took
  <2>10. k \in 0..3
    BY <1>2
  <2>11. QED
    BY <1>4, <2>2, <2>8, <2>9, <2>10, Zenon DEF MapTook, r, level
<1>5. QED
  BY <1>3, <1>4

-----------------------------------------------------------------------------
(* max_by finds an element.                                                *)
LEMMA BoundedKeys ==
  ASSUME NEW n \in Nat, NEW D, D \subseteq 1..n, NEW key \in [D -> Nat]
  PROVE  \E b \in Nat : \A i \in D : key[i] <= b
<1> DEFINE Bounded(m) == \E b \in Nat : \A i \in D : i <= m => key[i] <= b
           S == {m \in Nat : ~Bounded(m)}
<1>1. Bounded(0)
  BY DEF Bounded
<1>2. ASSUME NEW m \in Nat, Bounded(m) PROVE Bounded(m + 1)
  <2>1. PICK b \in Nat : \A i \in D : i <= m => key[i] <= b
    BY <1>2
  <2>2. CASE m + 1 \in D
    <3>1. PICK c \in Nat : c >= b /\ c >= key[m + 1]
      <4>1. key[m + 1] \in Nat
        BY <2>2
      <4>2. QED
        BY <4>1
    <3>2. \A i \in D : i <= m + 1 => key[i] <= c
      BY <2>1, <3>1
    <3>3. QED
      BY <3>2
  <2>3. CASE m + 1 \notin D
    BY <2>1, <2>3
  <2>4. QED
    BY <2>2, <2>3
<1> HIDE DEF Bounded
<1>3. S = {}
  <2> SUFFICES ASSUME S # {} PROVE FALSE
    OBVIOUS
  <2>1. Min(S) \in S /\ \A y \in S : Min(S) <= y
    BY NatMin
  <2>2. Min(S) \in Nat /\ Min(S) # 0
    BY <1>1, <2>1, SMTT(40)
  <2>3. Min(S) - 1 \in Nat /\ Min(S) - 1 \notin S
    BY <2>1, <2>2
  <2>4. Bounded((Min(S) - 1) + 1)
    BY <1>2, <2>3
  <2>5. (Min(S) - 1) + 1 = Min(S)
    BY <2>2
  <2>6. QED
    BY <2>1, <2>4, <2>5
<1>4. Bounded(n)
  BY <1>3
<1>5. QED
  BY <1>4 DEF Bounded

LEMMA LastMaxIs ==
  ASSUME NEW n \in Nat, NEW D, D \subseteq 1..n, D # {}, NEW key \in [D -> Nat]
  PROVE  LastMaxBy(key) \in D /\ \A j \in D : key[j] <= key[LastMaxBy(key)]
<1> DEFINE B == {b \in Nat : \A i \in D : key[i] <= b}
           M == Min(B)
           K == {i \in D : key[i] = M}
           L == {x \in Nat : \E i \in K : x = n - i}
           last == n - Min(L)
<1>1. B # {}
  BY BoundedKeys, Zenon
<1>2. M \in B /\ \A y \in B : M <= y
  <2>1. B \subseteq Nat
    OBVIOUS
  <2> HIDE DEF B
  <2>2. QED
    BY <1>1, <2>1, NatMin, Zenon
<1>3. M \in Nat /\ \A i \in D : key[i] <= M
  BY <1>2
<1> HIDE DEF M
<1>4. K # {}
  <2> SUFFICES ASSUME \A i \in D : key[i] # M PROVE FALSE
    OBVIOUS
  <2>1. \A i \in D : key[i] <= M - 1 /\ M - 1 \in Nat
    BY <1>3
  <2>2. M - 1 \in B
    BY <2>1, Zenon
  <2>3. QED
    BY <1>2, <1>3, <2>2
<1>5. L # {}
  <2>1. PICK i \in K : TRUE
    BY <1>4, Zenon
  <2>2. n - i \in Nat
    BY <2>1
  <2>3. n - i \in L
    BY <2>1, <2>2
  <2>4. QED
    BY <2>3, Zenon
<1>6. Min(L) \in L /\ \A y \in L : Min(L) <= y
  <2>1. L \subseteq Nat
    OBVIOUS
  <2> HIDE DEF L
  <2>2. QED
    BY <1>5, <2>1, NatMin, Zenon
<1>7. last \in K /\ \A i \in K : i <= last
  BY <1>6
<1> HIDE DEF last
<1>8. \A j \in DOMAIN key : key[j] < key[last] \/ (key[j] = key[last] /\ j <= last)
  BY <1>3, <1>7
<1>9. last \in DOMAIN key
  BY <1>7
<1> DEFINE Best(i) == \A j \in DOMAIN key : key[j] < key[i] \/ (key[j] = key[i] /\ j <= i)
<1>10. LastMaxBy(key) \in DOMAIN key /\ Best(LastMaxBy(key))
  <2>1. LastMaxBy(key) = CHOOSE i \in DOMAIN key : Best(i)
    BY DEF LastMaxBy
  <2>2. Best(last)
    BY <1>8
  <2> HIDE DEF Best
  <2>3. QED
    BY <1>9, <2>1, <2>2, SMTT(40)
<1>11. PICK x \in D : x = LastMaxBy(key) /\ Best(x)
  BY <1>10, ZenonT(40)
<1>12. \A j \in D : key[j] \in Nat
  OBVIOUS
<1>13. QED
  BY <1>11, <1>12

-----------------------------------------------------------------------------
(* Where the boot is, what it has left to do, and that the table is loaded *)
(* at the end only.                                                        *)
BootJobs == [from : Nat, to : Nat, flags : PageTableFlags, left : Nat]

MapJobs == { j \in BootJobs : MisalignedMap \/ Aligned(j.from) }

StackJobs == { j \in BootJobs : j.to \in stack_bottom..stack_top }

BootRegions == { mmap[k] : k \in DOMAIN mmap }

JobsLeft ==
  /\ pc \in {"map", "heap"} => jobs \in Seq(MapJobs)
  /\ pc = "stack" => jobs \in Seq(StackJobs)
  /\ pc = "clear" => jobs \in Seq(BootRegions)

FlowInv ==
  /\ mmap \in MemoryMaps /\ sp \in StackPointers
  /\ pc \in {"start", "map", "stack", "clear", "heap", "booted", "failed"}
  /\ pc # "failed" => out = "Ok"
  /\ cr3 # None => pc = "booted"
  /\ pc \notin {"start", "failed"} => OfType({"Usable"}) # {} /\ OfType({"ExecutableAndModules"}) # {}
  /\ pc \in {"heap", "booted"} => \E n \in Nat : va = New(n, TRUE)
  /\ JobsLeft

(* The memory map never changes, and neither does what is read off it.     *)
SameMap ==
  /\ mmap' = mmap /\ sp' = sp
  /\ \A types : OfType(types)' = OfType(types)
  /\ HeapPhys' = HeapPhys /\ allocator_region' = allocator_region /\ size_bytes' = size_bytes
  /\ UsableFrames' = UsableFrames /\ MisalignedMap' = MisalignedMap /\ OddFrames' = OddFrames
  /\ MapJobs' = MapJobs /\ StackJobs' = StackJobs /\ BootRegions' = BootRegions

LEMMA MapStays == KNext \/ UNCHANGED kvars => SameMap
<1> SUFFICES ASSUME KNext \/ UNCHANGED kvars PROVE SameMap
  OBVIOUS
<1>1. mmap' = mmap /\ sp' = sp
  BY Zenon DEF KNext, BootStep, Boot, Start, MapPage, NextJob, UnmapGuardPage, RemapStackPage,
    CreateFrameAllocator, ClearRegion, CreateVirtualAllocator, HeapNext, MarkAndLoad,
    AllocatedMemoryNew, ReservePhysical, StackFault, KHalt, kvars, vars
<1>2. \A types : OfType(types)' = OfType(types)
  BY <1>1 DEF OfType
<1>3. allocator_region' = allocator_region /\ HeapPhys' = HeapPhys
  BY <1>1, Zenon DEF allocator_region, HeapPhys, OfType
<1>4. size_bytes' = size_bytes
  BY <1>1, Zenon DEF size_bytes, EndOf, OfType
<1>5. UsableFrames' = UsableFrames
  BY <1>1, Zenon DEF UsableFrames, EndOf, OfType
<1>6. MisalignedMap' = MisalignedMap
  BY <1>1, Zenon DEF MisalignedMap
<1>7. OddFrames' = OddFrames
  BY <1>1, Zenon DEF OddFrames, EndOf, OfType, size_bytes
<1>8. MapJobs' = MapJobs
  BY <1>1, Zenon DEF MapJobs, MisalignedMap
<1>9. StackJobs' = StackJobs /\ BootRegions' = BootRegions
  BY <1>1, Zenon DEF StackJobs, BootRegions, stack_bottom, stack_top
<1>10. QED
  BY <1>1, <1>2, <1>3, <1>4, <1>5, <1>6, <1>7, <1>8, <1>9, Zenon DEF SameMap

RegionsKnown ==
  /\ \E i \in OfType({"Usable"}) : allocator_region = mmap[i]
  /\ allocator_region \in Regions /\ allocator_region.type = "Usable"
  /\ HeapPhys \in Nat /\ size_bytes \in Nat

LEMMA MapIs ==
  ASSUME mmap \in MemoryMaps
  PROVE  /\ mmap \in Seq(Regions) /\ \A i \in DOMAIN mmap : mmap[i] \in Regions /\ EndOf(i) \in Nat
         /\ OfType({"Usable"}) # {} => RegionsKnown
<1>1. mmap \in Seq(Regions) /\ DOMAIN mmap = 1..Len(mmap) /\ Len(mmap) \in Nat
  BY MemoryMapAssumption
<1>2. \A i \in DOMAIN mmap : mmap[i] \in Regions
  BY <1>1
<1>3. \A r \in Regions : r.base \in Nat /\ r.length \in Nat /\ End(r) \in Nat
  BY DEF Regions, End
<1>4. \A i \in DOMAIN mmap : EndOf(i) \in Nat
  BY <1>2, <1>3, SMTT(40) DEF EndOf
<1>5. ASSUME OfType({"Usable"}) # {} PROVE RegionsKnown
  <2> DEFINE D == OfType({"Usable"})
             V == OfType(RegionTypes \ {"Reserved", "Framebuffer"})
             key == [i \in D |-> mmap[i].length]
             ends == [i \in V |-> EndOf(i)]
  <2>1. D \subseteq 1..Len(mmap) /\ V \subseteq 1..Len(mmap) /\ D \subseteq V
    BY <1>1 DEF OfType, RegionTypes
  <2>2. key \in [D -> Nat]
    BY <1>1, <1>2, <1>3, <2>1, SMTT(40)
  <2>3. ends \in [V -> Nat]
    BY <1>1, <1>4, <2>1, Zenon
  <2>4. V # {}
    BY <1>5, <2>1, Zenon
  <2>5. LastMaxBy(key) \in D
    <3> HIDE DEF key, D
    <3>1. D # {}
      BY <1>5 DEF D
    <3>2. QED
      BY <1>1, <2>1, <2>2, <3>1, LastMaxIs, Zenon
  <2>6. LastMaxBy(ends) \in V
    <3> HIDE DEF ends, V
    <3>1. QED
      BY <1>1, <2>1, <2>3, <2>4, LastMaxIs, Zenon
  <2>7. allocator_region = mmap[LastMaxBy(key)]
    BY DEF allocator_region
  <2>8. size_bytes = PageOf(EndOf(LastMaxBy(ends))) \div 8
    BY DEF size_bytes
  <2> HIDE DEF key, ends
  <2>9. allocator_region \in Regions /\ allocator_region.type = "Usable" /\ HeapPhys \in Nat
    BY <1>2, <1>3, <2>5, <2>7 DEF OfType, HeapPhys
  <2>10. EndOf(LastMaxBy(ends)) \in Nat
    BY <1>1, <1>4, <2>1, <2>6
  <2>11. size_bytes \in Nat
    <3>1. PICK x \in Nat : x = PageOf(EndOf(LastMaxBy(ends)))
      BY <2>10, PageIs
    <3>2. QED
      BY <2>8, <3>1
  <2>12. QED
    BY <2>5, <2>7, <2>9, <2>11, SMTT(40) DEF RegionsKnown
<1>6. QED
  BY <1>1, <1>2, <1>4, <1>5

LEMMA SizeInPages ==
  ASSUME NEW size \in Nat
  PROVE  /\ size_in_pages(size) \in Nat /\ size <= size_in_pages(size) * PAGE_SIZE
         /\ \A n \in 0..(size_in_pages(size) - 1) : n * PAGE_SIZE \in Nat /\ n * PAGE_SIZE < size
<1>1. PICK q \in Nat, r \in 0..(PAGE_SIZE - 1) :
        size = q * PAGE_SIZE + r /\ size \div PAGE_SIZE = q /\ size % PAGE_SIZE = r
  BY PageSizeAssumption
<1>2. PAGE_SIZE \in Nat /\ PAGE_SIZE > 0
  BY PageSizeAssumption
<1>3. size_in_pages(size) = q + (IF r # 0 THEN 1 ELSE 0)
  BY <1>1 DEF size_in_pages
<1>4. size <= size_in_pages(size) * PAGE_SIZE
  BY <1>1, <1>2, <1>3
<1>5. ASSUME NEW n \in 0..(size_in_pages(size) - 1) PROVE n * PAGE_SIZE \in Nat /\ n * PAGE_SIZE < size
  <2>1. n \in Nat /\ n <= q /\ (n = q => r > 0)
    BY <1>1, <1>3
  <2>2. n * PAGE_SIZE \in Nat /\ (n < q => (q - n) * PAGE_SIZE > 0)
    BY <1>2, <2>1
  <2>3. QED
    BY <1>1, <1>2, <2>1, <2>2
<1>6. QED
  BY <1>1, <1>3, <1>4, <1>5, SMTT(40)

LEMMA AlignedSums ==
  ASSUME NEW a \in Nat, Aligned(a)
  PROVE  /\ Aligned(a + PAGE_SIZE)
         /\ \A b \in Nat : Aligned(b) => Aligned(a + b) /\ Aligned(a - b)
         /\ \A n \in Nat : Aligned(a + n * PAGE_SIZE)
<1>1. PAGE_SIZE \in Nat /\ PAGE_SIZE > 0
  BY PageSizeAssumption
<1>2. ASSUME NEW x \in Nat, Aligned(x) PROVE \E m \in Nat : x = m * PAGE_SIZE
  <2>1. PICK q \in Nat : x \div PAGE_SIZE = q
    BY <1>1
  <2>2. x = q * PAGE_SIZE
    BY <1>1, <1>2, <2>1 DEF Aligned
  <2>3. QED
    BY <2>2
<1>3. \A m \in Int : Aligned(m * PAGE_SIZE)
  BY <1>1 DEF Aligned
<1>4. PICK m \in Nat : a = m * PAGE_SIZE
  BY <1>2
<1>5. Aligned(a + PAGE_SIZE)
  <2>1. a + PAGE_SIZE = (m + 1) * PAGE_SIZE /\ m + 1 \in Int
    BY <1>1, <1>4
  <2>2. QED
    BY <1>3, <2>1
<1>6. ASSUME NEW b \in Nat, Aligned(b) PROVE Aligned(a + b) /\ Aligned(a - b)
  <2>1. PICK n \in Nat : b = n * PAGE_SIZE
    BY <1>2, <1>6, Zenon
  <2>2. a + b = (m + n) * PAGE_SIZE /\ a - b = (m - n) * PAGE_SIZE /\ m + n \in Int /\ m - n \in Int
    BY <1>1, <1>4, <2>1, SMTT(40)
  <2>3. QED
    BY <1>3, <2>2
<1>7. ASSUME NEW n \in Nat PROVE Aligned(a + n * PAGE_SIZE)
  <2>1. a + n * PAGE_SIZE = (m + n) * PAGE_SIZE /\ m + n \in Int
    BY <1>1, <1>4, SMTT(40)
  <2>2. QED
    BY <1>3, <2>1
<1>8. QED
  BY <1>5, <1>6, <1>7

LEMMA KernelJobs ==
  ASSUME mmap \in MemoryMaps, OfType({"ExecutableAndModules"}) # {}
  PROVE  map_kernel \in Seq(MapJobs) /\ Len(map_kernel) = 5
<1> DEFINE size == k_sect.length - (Sections[5] - Sections[1])
<1>1. /\ \A i \in 1..5 : Sections[i] \in Nat /\ Aligned(Sections[i]) /\ Sections[1] <= Sections[i]
      /\ \A i \in 1..4 : Sections[i] <= Sections[i + 1]
  BY SectionsAssumption
<1>2. size \in Nat
  <2>1. OfType({"ExecutableAndModules"}) \subseteq Nat
    BY MapIs DEF OfType
  <2>2. Min(OfType({"ExecutableAndModules"})) \in OfType({"ExecutableAndModules"})
    BY <2>1, NatMin
  <2>3. k_sect \in Regions /\ k_sect.length >= Sections[5] - Sections[1]
    BY <2>2, MapIs, KernelRegionAssumption, SMTT(40) DEF k_sect, OfType
  <2>4. QED
    BY <1>1, <2>3 DEF Regions
<1>3. \A i \in 1..5 : KernelVirtToPhys(Sections[i]) \in Nat /\ Aligned(KernelVirtToPhys(Sections[i]))
  <2> SUFFICES ASSUME NEW i \in 1..5
               PROVE  KernelVirtToPhys(Sections[i]) \in Nat /\ Aligned(KernelVirtToPhys(Sections[i]))
    OBVIOUS
  <2>1. PICK x \in Nat, y \in Nat : x = Sections[i] /\ y = Sections[1] /\ Aligned(x) /\ Aligned(y) /\ y <= x
    BY <1>1
  <2>2. Aligned(x - y)
    BY <2>1, AlignedSums, Zenon
  <2>3. PICK d \in Nat : d = x - y
    BY <2>1
  <2>4. d + KernelPhys \in Nat /\ Aligned(d + KernelPhys)
    BY <2>2, <2>3, AddressesAssumption, AlignedSums, SMTT(40)
  <2>5. QED
    BY <2>1, <2>3, <2>4, SMTT(40) DEF KernelVirtToPhys
<1>4. /\ flags_r \cup {"GLOBAL"} \in PageTableFlags /\ flags_rx \cup {"GLOBAL"} \in PageTableFlags
      /\ flags_rw \cup {"GLOBAL"} \in PageTableFlags
  BY DEF PageTableFlags, flags_r, flags_rx, flags_rw
<1>5. ASSUME NEW from \in Nat, Aligned(from), NEW to \in Nat, NEW flags \in PageTableFlags, NEW n \in Nat
      PROVE  Job(from, to, flags, n) \in MapJobs
  BY <1>5, SMTT(40) DEF Job, MapJobs, BootJobs
<1>6. ASSUME NEW i \in 1..4, NEW flags, flags \cup {"GLOBAL"} \in PageTableFlags
      PROVE  map_kernel_section(i, flags) \in MapJobs
  <2>1. i \in 1..5 /\ Sections[i + 1] - Sections[i] \in Nat
    BY <1>1
  <2>2. size_in_pages(Sections[i + 1] - Sections[i]) \in Nat
    BY <2>1, SizeInPages, SMTT(40)
  <2>3. QED
    BY <1>1, <1>3, <1>5, <1>6, <2>1, <2>2, SMTT(40) DEF map_kernel_section
<1>7. Job(KernelVirtToPhys(Sections[5]), Sections[5], flags_r \cup {"GLOBAL"}, size_in_pages(size)) \in MapJobs
  <2>1. size_in_pages(size) \in Nat
    BY <1>2, SizeInPages
  <2> HIDE DEF size
  <2>2. 5 \in 1..5
    OBVIOUS
  <2>3. QED
    BY <1>1, <1>3, <1>4, <1>5, <2>1, <2>2, SMTT(40)
<1>8. /\ map_kernel_section(1, flags_r) \in MapJobs /\ map_kernel_section(2, flags_rx) \in MapJobs
      /\ map_kernel_section(3, flags_r) \in MapJobs /\ map_kernel_section(4, flags_rw) \in MapJobs
  BY <1>4, <1>6
<1>9. \A a, b, c, d, e \in MapJobs : <<a, b, c, d, e>> \in Seq(MapJobs) /\ Len(<<a, b, c, d, e>>) = 5
  OBVIOUS
<1>10. QED
  BY <1>7, <1>8, <1>9, SMTT(40) DEF map_kernel

LEMMA MiscJobs ==
  ASSUME mmap \in MemoryMaps
  PROVE  map_misc \in Seq(MapJobs)
<1>1. flags_rwx \in PageTableFlags /\ HHDM \in Nat
  BY AddressesAssumption DEF PageTableFlags, flags_rwx
<1>2. ASSUME NEW n \in DOMAIN mmap
      PROVE  Job(mmap[n].base, mmap[n].base + HHDM, flags_rwx,
                 IF mmap[n].type \in MiscTypes THEN size_in_pages(mmap[n].length) ELSE 0) \in MapJobs
  <2>1. mmap[n].base \in Nat /\ mmap[n].length \in Nat
    BY MapIs DEF Regions
  <2>2. size_in_pages(mmap[n].length) \in Nat
    BY <2>1, SizeInPages
  <2>3. MisalignedMap \/ Aligned(mmap[n].base)
    BY DEF MisalignedMap
  <2>4. QED
    BY <1>1, <2>1, <2>2, <2>3, SMTT(40) DEF Job, MapJobs, BootJobs
<1>3. DOMAIN mmap = 1..Len(mmap) /\ Len(mmap) \in Nat
  BY MapIs
<1> DEFINE job(n) == Job(mmap[n].base, mmap[n].base + HHDM, flags_rwx,
                         IF mmap[n].type \in MiscTypes THEN size_in_pages(mmap[n].length) ELSE 0)
<1>4. map_misc = [n \in 1..Len(mmap) |-> job(n)]
  BY <1>3, SMTT(40) DEF map_misc
<1>5. \A n \in 1..Len(mmap) : job(n) \in MapJobs
  BY <1>2, <1>3
<1> HIDE DEF job
<1>6. QED
  BY <1>3, <1>4, <1>5, SMTT(40)

LEMMA StackQueue ==
  ASSUME sp \in StackPointers
  PROVE  /\ [ n \in 1..size_in_pages(STACK_SIZE) |->
                Job(0, stack_bottom + (n - 1) * PAGE_SIZE, flags_rw, 1) ] \in Seq(StackJobs)
         /\ stack_top \in Nat /\ stack_bottom \in Nat
         /\ \A a \in stack_bottom..stack_top : ~Reserved(a)
<1>1. /\ stack_top \in Nat /\ stack_bottom \in Nat /\ stack_bottom + STACK_SIZE = stack_top
      /\ STACK_SIZE \in Nat
  BY StackAssumption DEF stack_top, stack_bottom
<1>2. \A a \in stack_bottom..stack_top : ~Reserved(a)
  BY StackAssumption DEF stack_top, stack_bottom
<1> DEFINE pages == size_in_pages(STACK_SIZE)
           job(n) == Job(0, stack_bottom + (n - 1) * PAGE_SIZE, flags_rw, 1)
<1>3. pages \in Nat /\ \A n \in 0..(pages - 1) : n * PAGE_SIZE \in Nat /\ n * PAGE_SIZE < STACK_SIZE
  BY <1>1, SizeInPages
<1> HIDE DEF pages
<1>4. ASSUME NEW n \in 1..pages PROVE job(n) \in StackJobs
  <2>1. PICK m \in 0..(pages - 1) : m = n - 1
    BY <1>3
  <2>2. PICK d \in Nat : d = m * PAGE_SIZE /\ d < STACK_SIZE
    BY <1>3
  <2>3. flags_rw \in PageTableFlags
    BY DEF flags_rw, PageTableFlags
  <2>4. stack_bottom + d \in stack_bottom..stack_top /\ stack_bottom + d \in Nat
    BY <1>1, <2>2, SMTT(40)
  <2>5. Job(0, stack_bottom + d, flags_rw, 1) \in StackJobs
    BY <2>3, <2>4 DEF Job, StackJobs, BootJobs
  <2>6. QED
    BY <2>1, <2>2, <2>5, SMTT(40)
<1> HIDE DEF job
<1>5. [n \in 1..pages |-> job(n)] \in Seq(StackJobs)
  BY <1>3, <1>4
<1>6. QED
  BY <1>1, <1>2, <1>5, SMTT(40) DEF pages, job

LEMMA Queue ==
  ASSUME NEW S, NEW s \in Seq(S), s # <<>>
  PROVE  /\ Len(s) \in Nat \ {0} /\ Head(s) \in S
         /\ Tail(s) \in Seq(S) /\ Len(Tail(s)) = Len(s) - 1
         /\ \A x \in S : /\ <<x>> \o Tail(s) \in Seq(S) /\ Len(<<x>> \o Tail(s)) = Len(s)
                         /\ Head(<<x>> \o Tail(s)) = x
<1>1. Len(s) \in Nat \ {0} /\ Head(s) \in S /\ Tail(s) \in Seq(S) /\ Len(Tail(s)) = Len(s) - 1
  OBVIOUS
<1>2. ASSUME NEW x \in S, NEW w \in Seq(S)
      PROVE  <<x>> \o w \in Seq(S) /\ Len(<<x>> \o w) = 1 + Len(w) /\ Head(<<x>> \o w) = x
  OBVIOUS
<1>3. QED
  BY <1>1, <1>2

LEMMA NextPageIs ==
  ASSUME NEW j \in MapJobs, j.left > 0
  PROVE  NextPage(j) \in MapJobs /\ NextPage(j).left \in 0..(j.left - 1)
<1>1. /\ j.from \in Nat /\ j.to \in Nat /\ j.flags \in PageTableFlags /\ j.left \in Nat
      /\ MisalignedMap \/ Aligned(j.from)
  BY DEF MapJobs, BootJobs
<1>2. PAGE_SIZE \in Nat
  BY PageSizeAssumption
<1>3. MisalignedMap \/ Aligned(j.from + PAGE_SIZE)
  BY <1>1, AlignedSums, SMTT(40)
<1>4. QED
  BY <1>1, <1>2, <1>3, SMTT(40) DEF NextPage, Job, MapJobs, BootJobs

LEMMA FlowInvInit == KInit => FlowInv
<1> SUFFICES ASSUME KInit PROVE FlowInv
  OBVIOUS
<1>1. QED
  BY DEF KInit, Init, FlowInv, JobsLeft, None

(* A step that stays in its phase, with the jobs that remain.              *)
LEMMA FlowKept ==
  ASSUME FlowInv, SameMap, pc' = pc, out' = out, cr3' = cr3, va' = va,
         \/ jobs' = jobs \/ (jobs # <<>> /\ jobs' = Tail(jobs))
         \/ pc \in {"map", "heap"} /\ jobs' \in Seq(MapJobs)
  PROVE  FlowInv'
<1>1. ASSUME NEW S, jobs \in Seq(S), jobs' = Tail(jobs), jobs # <<>> PROVE jobs' \in Seq(S)
  BY <1>1, Queue
<1>2. JobsLeft'
  BY <1>1 DEF FlowInv, JobsLeft, SameMap
<1>3. QED
  BY <1>2 DEF FlowInv, SameMap

(* A step that ends the boot.                                              *)
LEMMA FlowFails ==
  ASSUME FlowInv, SameMap, pc' = "failed", cr3' = cr3, pc # "booted"
  PROVE  FlowInv'
  BY DEF FlowInv, SameMap, JobsLeft

(* A bitmap that is full, as new leaves it, has nothing to give.           *)
LEMMA NothingFree ==
  ASSUME NEW n \in Nat, NEW pages \in Nat \ {0}
  PROVE  alloc(New(n, TRUE), pages).out # "Ok" /\ alloc(New(n, TRUE), pages).a = New(n, TRUE)
<1> DEFINE a == New(n, TRUE)
<1>1. a.bits = 0..(8 * n - 1) /\ a.size = 8 * n /\ a.last = 0
  BY DEF New
<1> HIDE DEF a
<1>2. scan(a, pages).out # "Ok"
  <2>1. CASE pages >= a.size
    BY <2>1 DEF scan
  <2>2. CASE pages < a.size /\ pages > 16
    <3>1. BitmapLen(a) = n
      BY <1>1 DEF BitmapLen
    <3>2. ASSUME NEW s \in ByteFits(a, pages) PROVE FALSE
      <4>1. s \in Visited(a) /\ s \in Nat
        BY <1>1 DEF ByteFits, Visited, AlignUp
      <4>2. s \in s..(s + 8 * (pages - 1))
        BY <4>1
      <4>3. ByteIsZero(a, s)
        BY <3>2, <4>1, <4>2 DEF ByteFits
      <4>4. s < n /\ (8 * s)..(8 * s + 7) \cap (0..(8 * n - 1)) = {}
        BY <1>1, <3>1, <4>3 DEF ByteIsZero
      <4>5. 8 * s \in (8 * s)..(8 * s + 7) /\ 8 * s \in 0..(8 * n - 1)
        BY <4>1, <4>4
      <4>6. QED
        BY <4>4, <4>5
    <3>3. scan(a, pages) = scan_bytes(a, pages)
      BY <1>1, <2>2 DEF scan
    <3>4. ByteFits(a, pages) = {}
      BY <3>2
    <3>5. QED
      BY <3>3, <3>4 DEF scan_bytes
  <2>3. CASE pages < a.size /\ pages <= 16
    <3>1. AlignUp(pages) \in Nat \ {0} /\ n \in Nat \ {0} /\ BitmapLen(a) = n
      BY <1>1, <2>3 DEF AlignUp, BitmapLen
    <3>2. ASSUME NEW s \in Fits(a, AlignUp(pages)) PROVE FALSE
      <4>1. /\ s \in Nat /\ s < a.size * 8
            /\ \A c \in s..(s + AlignUp(pages) - 1) : c < a.size * 8 => RingBit(a, c) \notin a.bits
        BY <1>1, <3>2 DEF Fits
      <4>2. RingBit(a, s) \notin a.bits
        BY <3>1, <4>1
      <4>3. (s \div 8) % n \in 0..(n - 1) /\ s % 8 \in 0..7
        BY <3>1, <4>1
      <4>4. QED
        BY <1>1, <3>1, <4>2, <4>3 DEF RingBit
    <3>3. scan(a, pages) = scan_bits(a, AlignUp(pages))
      BY <1>1, <2>3 DEF scan
    <3>4. Fits(a, AlignUp(pages)) = {}
      BY <3>2
    <3>5. QED
      BY <3>3, <3>4 DEF scan_bits
  <2>4. QED
    BY <1>1, <2>1, <2>2, <2>3
<1>3. QED
  BY <1>2 DEF alloc, a

(* So no call after the boot gets as far as mapping a page.                *)
Called(size) ==
  /\ pc = "booted" /\ t' = t /\ va' = va
  /\ fa' = fa \/ fa' = AllocFrom(fa, slices[1], size_in_pages(size)).a
  /\ UNCHANGED <<mmap, sp, pc, jobs, linear, slices, cr3, out>>

LEMMA CallKeeps ==
  ASSUME FlowInv, NEW size \in Sizes, AllocatedMemoryNew(size) \/ ReservePhysical(size)
  PROVE  Called(size)
<1> DEFINE pages == size_in_pages(size)
           v == AllocFrom(va, slices[2], pages)
           f == AllocFrom(fa, slices[1], pages)
<1>1. pc = "booted" /\ UNCHANGED <<mmap, sp, pc, jobs, linear, slices, cr3, out>>
  BY DEF AllocatedMemoryNew, ReservePhysical, Running
<1>2. CASE size = 0
  BY <1>1, <1>2 DEF AllocatedMemoryNew, ReservePhysical, Called
<1>3. CASE size # 0
  <2>1. pages \in Nat \ {0}
    BY <1>3, SizesAssumption, SizeInPages, PageSizeAssumption
  <2>2. PICK n \in Nat : va = New(n, TRUE)
    BY <1>1 DEF FlowInv
  <2> HIDE DEF pages
  <2>3. v.out # "Ok" /\ v.a = va
    <3>1. alloc(va, pages).out # "Ok" /\ alloc(va, pages).a = va
      BY <2>1, <2>2, NothingFree
    <3>2. QED
      BY <3>1, Zenon DEF AllocFrom
  <2> HIDE DEF v, f
  <2>4. AllocPagesAndMap(f, pages) \/ AllocPagesAndMap([a |-> fa, out |-> "Ok"], pages)
    BY <1>3 DEF AllocatedMemoryNew, ReservePhysical, f, pages
  <2>5. ASSUME NEW g, AllocPagesAndMap(g, pages) PROVE t' = t /\ va' = va /\ fa' = g.a
    <3>1. CASE g.out = "Ok"
      BY <2>3, <2>5, <3>1 DEF AllocPagesAndMap, v
    <3>2. CASE g.out # "Ok"
      BY <2>5, <3>2 DEF AllocPagesAndMap
    <3>3. QED
      BY <3>1, <3>2
  <2>6. t' = t /\ va' = va /\ (fa' = fa \/ fa' = f.a)
    BY <2>4, <2>5
  <2>7. QED
    BY <1>1, <2>6 DEF Called, f, pages
<1>4. QED
  BY <1>2, <1>3

LEMMA FlowInvStep == FlowInv /\ [KNext]_kvars => FlowInv'
<1> SUFFICES ASSUME FlowInv, KNext \/ UNCHANGED kvars PROVE FlowInv'
  BY DEF kvars
<1>0. SameMap
  BY MapStays
<1>1. CASE Start
  <2>1. CASE pc' = "failed"
    BY <1>0, <1>1, <2>1, FlowFails, SMTT(40) DEF Start
  <2>2. CASE pc' # "failed"
    <3>1. /\ OfType({"Usable"}) # {} /\ OfType({"ExecutableAndModules"}) # {}
          /\ pc' = "map" /\ jobs' = map_kernel \o map_misc /\ UNCHANGED <<out, cr3>> /\ pc = "start"
      BY <1>1, <2>2, SMTT(40) DEF Start, Fail
    <3>2. map_kernel \in Seq(MapJobs) /\ map_misc \in Seq(MapJobs)
      BY <3>1, KernelJobs, MiscJobs, SMTT(40) DEF FlowInv
    <3>3. jobs' \in Seq(MapJobs)
      <4> DEFINE k == map_kernel
                 m == map_misc
      <4>1. k \in Seq(MapJobs) /\ m \in Seq(MapJobs) /\ jobs' = k \o m
        BY <3>1, <3>2, SMTT(40)
      <4> HIDE DEF k, m
      <4>2. QED
        BY <4>1
    <3>4. QED
      BY <1>0, <3>1, <3>3, SMTT(40) DEF FlowInv, SameMap, JobsLeft
  <2>3. QED
    BY <2>1, <2>2, SMTT(40)
<1>2. CASE MapPage
  <2>1. CASE pc' = "failed"
    BY <1>0, <1>2, <2>1, FlowFails, SMTT(40) DEF MapPage
  <2>2. CASE pc' # "failed"
    <3>1. /\ pc \in {"map", "heap"} /\ jobs # <<>> /\ Head(jobs).left > 0
          /\ jobs' = <<NextPage(Head(jobs))>> \o Tail(jobs) /\ UNCHANGED <<pc, out, cr3, va>>
      BY <1>2, <2>2, SMTT(40) DEF MapPage, Fail
    <3>2. jobs \in Seq(MapJobs)
      BY <3>1 DEF FlowInv, JobsLeft
    <3>3. Head(jobs) \in MapJobs
      BY <3>1, <3>2, Queue, SMTT(40)
    <3>4. NextPage(Head(jobs)) \in MapJobs
      BY <3>1, <3>3, NextPageIs, SMTT(40)
    <3>5. jobs' \in Seq(MapJobs)
      BY <3>1, <3>2, <3>4, Queue, SMTT(40)
    <3>6. QED
      BY <1>0, <3>1, <3>5, FlowKept, SMTT(40)
  <2>3. QED
    BY <2>1, <2>2
<1>3. CASE NextJob
  BY <1>0, <1>3, FlowKept, SMTT(40) DEF NextJob
<1>4. CASE UnmapGuardPage
  <2>1. CASE pc' = "failed"
    BY <1>0, <1>4, <2>1, FlowFails, SMTT(40) DEF UnmapGuardPage
  <2>2. CASE pc' # "failed"
    <3>1. /\ pc = "map" /\ pc' = "stack" /\ UNCHANGED <<out, cr3>>
          /\ jobs' = [ n \in 1..size_in_pages(STACK_SIZE) |->
                         Job(0, stack_bottom + (n - 1) * PAGE_SIZE, flags_rw, 1) ]
      BY <1>4, <2>2, SMTT(40) DEF UnmapGuardPage, Fail
    <3>2. jobs' \in Seq(StackJobs)
      BY <3>1, StackQueue, SMTT(40) DEF FlowInv
    <3>3. QED
      BY <1>0, <3>1, <3>2, SMTT(40) DEF FlowInv, SameMap, JobsLeft
  <2>3. QED
    BY <2>1, <2>2
<1>5. CASE RemapStackPage
  <2>1. CASE pc' = "failed"
    BY <1>0, <1>5, <2>1, FlowFails, SMTT(40) DEF RemapStackPage
  <2>2. CASE pc' # "failed"
    <3>1. UNCHANGED <<pc, out, cr3, va>> /\ jobs # <<>> /\ jobs' = Tail(jobs)
      BY <1>5, <2>2, SMTT(40) DEF RemapStackPage, Fail
    <3>2. QED
      BY <1>0, <3>1, FlowKept, SMTT(40)
  <2>3. QED
    BY <2>1, <2>2
<1>6. CASE CreateFrameAllocator
  <2>1. mmap \in Seq(BootRegions)
    <3>1. mmap \in Seq(Regions)
      BY MapIs, SMTT(40) DEF FlowInv
    <3>2. QED
      BY <3>1, SMTT(40) DEF BootRegions
  <2>2. QED
    BY <1>0, <1>6, <2>1, SMTT(40) DEF CreateFrameAllocator, FlowInv, SameMap, JobsLeft
<1>7. CASE ClearRegion
  <2>1. CASE pc' = "failed"
    BY <1>0, <1>7, <2>1, FlowFails, ZenonT(40) DEF ClearRegion
  <2>2. CASE pc' # "failed"
    <3>1. UNCHANGED <<pc, out, cr3, va>> /\ jobs # <<>> /\ jobs' = Tail(jobs)
      BY <1>7, <2>2, Zenon DEF ClearRegion, Fail
    <3>2. QED
      BY <1>0, <3>1, FlowKept
  <2>3. QED
    BY <2>1, <2>2
<1>8. CASE CreateVirtualAllocator
  <2>1. /\ pc = "clear" /\ pc' = "heap" /\ UNCHANGED <<out, cr3>>
        /\ jobs' = << Job(HeapPhys, HeapPhys + HHDM, flags_rw, HEAP_PAGES) >>
        /\ va' = New(2 * size_bytes, TRUE)
    BY <1>8 DEF CreateVirtualAllocator, HeapNext
  <2>2. RegionsKnown
    BY <2>1, MapIs DEF FlowInv
  <2>3. MisalignedMap \/ Aligned(HeapPhys)
    BY <2>2 DEF RegionsKnown, HeapPhys, MisalignedMap, OfType
  <2>4. HeapPhys \in Nat /\ HHDM \in Nat /\ HEAP_PAGES \in Nat
    BY <2>2, AddressesAssumption DEF RegionsKnown
  <2>5. flags_rw \in PageTableFlags
    BY DEF flags_rw, PageTableFlags
  <2>6. Job(HeapPhys, HeapPhys + HHDM, flags_rw, HEAP_PAGES) \in MapJobs
    BY <2>3, <2>4, <2>5 DEF Job, MapJobs, BootJobs
  <2>7. jobs' \in Seq(MapJobs)
    BY <2>1, <2>6, SMTT(40)
  <2>8. \E n \in Nat : va' = New(n, TRUE)
    <3>1. 2 * size_bytes \in Nat
      BY <2>2 DEF RegionsKnown
    <3>2. QED
      BY <2>1, <3>1, Zenon
  <2>9. QED
    BY <1>0, <2>1, <2>7, <2>8, ZenonT(40) DEF FlowInv, SameMap, JobsLeft
<1>9. CASE MarkAndLoad
  <2>1. CASE pc' = "failed"
    BY <1>0, <1>9, <2>1, FlowFails, Zenon DEF MarkAndLoad
  <2>2. CASE pc' # "failed"
    <3>1. pc = "heap" /\ pc' = "booted" /\ UNCHANGED <<out, va>>
      BY <1>9, <2>2, ZenonT(40) DEF MarkAndLoad, Fail
    <3>2. QED
      BY <1>0, <3>1 DEF FlowInv, SameMap, JobsLeft
  <2>3. QED
    BY <2>1, <2>2
<1>10. CASE \E size \in Sizes : AllocatedMemoryNew(size) \/ ReservePhysical(size)
  BY <1>0, <1>10, CallKeeps, FlowKept, Zenon DEF Called
<1>11. CASE StackFault \/ KHalt \/ UNCHANGED kvars
  BY <1>0, <1>11, FlowKept, SMTT(40) DEF StackFault, KHalt, kvars, vars
<1>12. QED
  BY <1>1, <1>2, <1>3, <1>4, <1>5, <1>6, <1>7, <1>8, <1>9, <1>10, <1>11, SMTT(40) DEF KNext, BootStep, Boot

LEMMA AlwaysFlow == KSpec => []FlowInv
  BY FlowInvInit, FlowInvStep, PTL DEF KSpec

(* Once load has stored the table in CR3, no step of the boot and no call  *)
(* after it changes an entry of the table.                                 *)
THEOREM LoadedTableNeverChanges == KSpec => LoadedTableIsFinal
<1>1. FlowInv /\ [KNext]_kvars => [cr3 # None => UNCHANGED t]_kvars
  <2> SUFFICES ASSUME FlowInv, KNext, cr3 # None PROVE t' = t
    BY DEF kvars
  <2>1. pc = "booted"
    BY DEF FlowInv
  <2>2. CASE BootStep
    BY <2>1, <2>2, Zenon DEF BootStep, Boot, Start, MapPage, NextJob, UnmapGuardPage, RemapStackPage,
      CreateFrameAllocator, ClearRegion, CreateVirtualAllocator, HeapNext, MarkAndLoad
  <2>3. CASE \E size \in Sizes : AllocatedMemoryNew(size) \/ ReservePhysical(size)
    BY <2>3, CallKeeps, Zenon DEF Called
  <2>4. CASE StackFault \/ KHalt
    BY <2>4, Zenon DEF StackFault, KHalt, kvars, vars
  <2>5. QED
    BY <2>2, <2>3, <2>4, SMTT(40) DEF KNext
<1>2. QED
  BY <1>1, AlwaysFlow, PTL DEF KSpec, LoadedTableIsFinal

(* For every memory map: each step of init_memory reaches a later phase,   *)
(* or leaves fewer calls of its phase, or fewer pages of the same call.    *)
THEOREM BootNeverTurnsBack == KSpec => BootAdvances
<1> DEFINE Forward ==
      \/ pc = "booted" \/ Phase' > Phase
      \/ Phase' = Phase /\ Len(jobs') < Len(jobs)
      \/ /\ pc \in {"map", "heap"} /\ pc' = pc /\ Len(jobs') = Len(jobs)
         /\ Head(jobs').left \in 0..(Head(jobs).left - 1)
<1>1. FlowInv /\ FlowInv' /\ [KNext]_kvars => [Forward]_vars
  <2> SUFFICES ASSUME FlowInv, FlowInv', KNext, ~UNCHANGED vars PROVE Forward
    BY DEF kvars
  <2>1. CASE pc' # pc /\ BootStep
    <3>1. \/ pc = "start" /\ pc' \in {"failed", "map"}
          \/ pc = "map" /\ pc' \in {"failed", "stack"}
          \/ pc = "stack" /\ pc' \in {"failed", "clear"}
          \/ pc = "clear" /\ pc' \in {"failed", "heap"}
          \/ pc = "heap" /\ pc' \in {"failed", "booted"}
      BY <2>1, Zenon DEF BootStep, Boot, Start, MapPage, NextJob, UnmapGuardPage, RemapStackPage,
        CreateFrameAllocator, ClearRegion, CreateVirtualAllocator, HeapNext, MarkAndLoad, Fail
    <3>2. Phase' > Phase
      BY <3>1 DEF Phase
    <3>3. QED
      BY <3>2
  <2>2. CASE pc' = pc /\ MapPage
    <3>1. /\ pc \in {"map", "heap"} /\ jobs # <<>> /\ Head(jobs).left > 0
          /\ jobs' = <<NextPage(Head(jobs))>> \o Tail(jobs)
      BY <2>2, Zenon DEF MapPage, Fail
    <3>2. jobs \in Seq(MapJobs)
      BY <3>1 DEF FlowInv, JobsLeft
    <3>3. Head(jobs) \in MapJobs
      BY <3>1, <3>2, Queue, SMTT(40)
    <3>4. NextPage(Head(jobs)) \in MapJobs /\ NextPage(Head(jobs)).left \in 0..(Head(jobs).left - 1)
      BY <3>1, <3>3, NextPageIs, SMTT(40)
    <3>5. Len(jobs') = Len(jobs) /\ Head(jobs') = NextPage(Head(jobs))
      BY <3>1, <3>2, <3>4, Queue, SMTT(40)
    <3>6. QED
      BY <2>2, <3>1, <3>4, <3>5, SMTT(40)
  <2>3. CASE pc' = pc /\ jobs # <<>> /\ jobs' = Tail(jobs) /\ pc \in {"map", "stack", "clear", "heap"}
    <3>1. ASSUME NEW S, jobs \in Seq(S) PROVE Len(jobs') < Len(jobs)
      BY <2>3, <3>1, Queue, SMTT(40)
    <3>2. Len(jobs') < Len(jobs)
      BY <2>3, <3>1 DEF FlowInv, JobsLeft
    <3>3. Phase' = Phase
      BY <2>3 DEF Phase
    <3>4. QED
      BY <3>2, <3>3
  <2>4. CASE BootStep
    <3>1. \/ pc' # pc \/ MapPage
          \/ jobs # <<>> /\ jobs' = Tail(jobs) /\ pc \in {"map", "stack", "clear", "heap"}
      BY <2>4, ZenonT(40) DEF BootStep, Boot, Start, NextJob, UnmapGuardPage, RemapStackPage,
        CreateFrameAllocator, ClearRegion, CreateVirtualAllocator, HeapNext, MarkAndLoad, Fail
    <3>2. QED
      BY <2>1, <2>2, <2>3, <2>4, <3>1, SMTT(40)
  <2>5. CASE \E size \in Sizes : AllocatedMemoryNew(size) \/ ReservePhysical(size)
    BY <2>5, Zenon DEF AllocatedMemoryNew, ReservePhysical, Running
  <2>6. CASE StackFault \/ KHalt
    BY <2>6 DEF StackFault, KHalt, kvars
  <2>7. QED
    BY <2>4, <2>5, <2>6, SMTT(40) DEF KNext
<1>2. QED
  BY <1>1, AlwaysFlow, PTL DEF KSpec, BootAdvances

-----------------------------------------------------------------------------
(* The tables are a tree, in frames that the boot has taken one after      *)
(* another from the start of its region.                                   *)
TablesTaken ==
  /\ OfType({"Usable"}) # {}
  /\ Tree(t.lvl4, t)
  /\ \E n \in Nat : linear = HeapPhys + n * PAGE_SIZE
  /\ \A f \in DOMAIN t.mem : f \in Nat /\ HeapPhys <= f /\ f + PAGE_SIZE <= linear

TableInv ==
  /\ linear \in Nat
  /\ pc \notin {"start", "failed"} => t.lvl4 # None
  /\ t.lvl4 # None => TablesTaken

LinearFrames == { linear + i * PAGE_SIZE : i \in 0..2 }

PoolReady ==
  /\ NextFrames \in Seq(Nat) /\ Len(NextFrames) = 3
  /\ \A i \in 1..3 : NextFrames[i] = linear + (i - 1) * PAGE_SIZE
  /\ PoolFor(NextFrames, t.mem, LinearFrames)

LEMMA NextFramesAre ==
  ASSUME linear \in Nat, \A f \in DOMAIN t.mem : f \in Nat /\ f + PAGE_SIZE <= linear
  PROVE  PoolReady
<1>1. PAGE_SIZE \in Nat /\ PAGE_SIZE > 0
  BY PageSizeAssumption
<1>2. \A i \in 0..2 : i * PAGE_SIZE \in Nat /\ linear + i * PAGE_SIZE \in Nat
  BY <1>1
<1>3. LinearFrames \subseteq Nat
  BY <1>2 DEF LinearFrames
<1>4. \A i \in 1..3 : linear + (i - 1) * PAGE_SIZE \in LinearFrames
  BY DEF LinearFrames
<1> DEFINE frame(i) == linear + (i - 1) * PAGE_SIZE
<1>5. \A i \in 1..3 : frame(i) \in LinearFrames /\ frame(i) \in Nat
  BY <1>3, <1>4, Zenon
<1>6. NextFrames = [i \in 1..3 |-> frame(i)]
  BY DEF NextFrames
<1>7. \A i \in 1..3 : frame(i) \notin DOMAIN t.mem
  BY <1>1
<1>8. \A i, j \in 1..3 : i # j => frame(i) # frame(j)
  BY <1>1
<1> HIDE DEF frame
<1>9. NextFrames \in Seq(Nat) /\ NextFrames \in Seq(LinearFrames) /\ Len(NextFrames) = 3
  BY <1>5, <1>6, SMTT(40)
<1>10. PoolFor(NextFrames, t.mem, LinearFrames)
  BY <1>3, <1>6, <1>7, <1>8, <1>9, SMTT(40) DEF PoolFor
<1>11. QED
  BY <1>6, <1>9, <1>10, SMTT(40) DEF PoolReady, frame

(* Frames are taken, and the tables stay.                                  *)
LEMMA TablesMove ==
  ASSUME FlowInv, TableInv, SameMap, t' = t, NEW n \in Nat, linear' = linear + PAGE_SIZE * n,
         pc \in {"start", "failed"} => pc' \in {"start", "failed"}
  PROVE  TableInv'
<1>1. PAGE_SIZE \in Nat /\ PAGE_SIZE > 0
  BY PageSizeAssumption
<1>2. linear \in Nat /\ PAGE_SIZE * n \in Nat /\ linear' \in Nat /\ linear <= linear'
  BY <1>1 DEF TableInv
<1>3. ASSUME t.lvl4 # None PROVE TablesTaken'
  <2>1. OfType({"Usable"})' # {} /\ Tree(t.lvl4, t)'
    BY <1>3 DEF TableInv, TablesTaken, SameMap
  <2>2. \E k \in Nat : linear' = HeapPhys' + k * PAGE_SIZE
    <3>1. PICK k \in Nat : linear = HeapPhys + k * PAGE_SIZE
      BY <1>3 DEF TableInv, TablesTaken
    <3>2. k + n \in Nat /\ (k + n) * PAGE_SIZE = k * PAGE_SIZE + PAGE_SIZE * n
      BY <1>1, SMTT(40)
    <3>3. HeapPhys \in Nat
      BY <1>3, MapIs, ZenonT(40) DEF FlowInv, TableInv, TablesTaken, RegionsKnown
    <3>4. QED
      BY <1>1, <3>1, <3>2, <3>3, SMTT(40) DEF SameMap
  <2>3. \A f \in DOMAIN t.mem : f \in Nat /\ HeapPhys' <= f /\ f + PAGE_SIZE <= linear'
    BY <1>1, <1>2, <1>3, SMTT(40) DEF TableInv, TablesTaken, SameMap
  <2>4. QED
    BY <2>1, <2>2, <2>3, SMTT(40) DEF TablesTaken
<1>4. QED
  BY <1>2, <1>3 DEF TableInv

(* One page is mapped, with k tables on the way to it.                     *)
LEMMA TablesGrow ==
  ASSUME FlowInv, TableInv, SameMap, MapPage
  PROVE  TableInv' /\ linear <= linear'
<1> DEFINE j == Head(jobs)
           root == t.lvl4
           r == map(t, NextFrames, j.from, j.to, j.flags)
<1>1. PAGE_SIZE \in Nat /\ PAGE_SIZE > 0
  BY PageSizeAssumption, SMTT(40)
<1>2. pc \in {"map", "heap"} /\ jobs # <<>> /\ t' = r.t /\ linear' = LinearAfter(r.pool)
  BY Zenon DEF MapPage
<1>3. j.from \in Nat /\ j.to \in Nat /\ j.flags \in PageTableFlags
  <2>1. jobs \in Seq(MapJobs)
    BY <1>2, Zenon DEF FlowInv, JobsLeft
  <2>2. Head(jobs) \in MapJobs
    BY <1>2, <2>1, Queue, SMTT(40)
  <2>3. QED
    BY <2>2, SMTT(40) DEF MapJobs, BootJobs
<1>4. linear \in Nat /\ root # None /\ TablesTaken
  BY <1>2 DEF TableInv
<1>5. Tree(root, t) /\ \A f \in DOMAIN t.mem : f \in Nat /\ HeapPhys <= f /\ f + PAGE_SIZE <= linear
  BY <1>4 DEF TablesTaken
<1>6. PoolReady
  BY <1>4, <1>5, NextFramesAre, SMTT(40)
<1>7. Tree(root, r.t)
  <2> HIDE DEF root, j
  <2>1. QED
    BY <1>3, <1>5, <1>6, MapKeepsTree, ZenonT(40) DEF PoolReady
<1>8. MapTook(t, NextFrames, r, IF Reserved(j.to) THEN 0 ELSE LowestLevel(t, j.to) - 1)
  <2> HIDE DEF root, j
  <2>1. QED
    BY <1>3, <1>5, <1>6, MapTakes, ZenonT(40) DEF PoolReady
<1> HIDE DEF j, r
<1>9. PICK k \in 0..3 : Took(t, NextFrames, r, k)
  BY <1>8, SMTT(40) DEF MapTook
<1>10. Len(r.pool) = 3 - k /\ DOMAIN r.t.mem = DOMAIN t.mem \cup {NextFrames[i] : i \in 1..k}
  BY <1>6, <1>9, SMTT(40) DEF Took, PoolReady
<1>11. linear' = linear + k * PAGE_SIZE /\ k * PAGE_SIZE \in Nat
  BY <1>1, <1>2, <1>10, SMTT(40) DEF LinearAfter
<1>12. t'.lvl4 = root
  BY <1>2, <1>7, SMTT(40) DEF Tree, IsTable
<1>13. HeapPhys \in Nat
  BY <1>4, MapIs, SMTT(40) DEF FlowInv, TablesTaken, RegionsKnown
<1>14. PICK n \in Nat : linear = HeapPhys + n * PAGE_SIZE
  BY <1>4 DEF TablesTaken
<1>15. \E m \in Nat : linear' = HeapPhys' + m * PAGE_SIZE
  <2>1. n + k \in Nat /\ (n + k) * PAGE_SIZE = n * PAGE_SIZE + k * PAGE_SIZE
    BY <1>1, SMTT(40)
  <2>2. QED
    BY <1>1, <1>11, <1>13, <1>14, <2>1, SMTT(40) DEF SameMap
<1>16. ASSUME NEW f \in DOMAIN r.t.mem PROVE f \in Nat /\ HeapPhys <= f /\ f + PAGE_SIZE <= linear'
  <2>1. CASE f \in DOMAIN t.mem
    BY <1>1, <1>4, <1>5, <1>11, <2>1, SMTT(40)
  <2>2. CASE f \notin DOMAIN t.mem
    <3>1. PICK i \in 1..k : f = NextFrames[i]
      BY <1>10, <2>2, SMTT(40)
    <3>2. f = linear + (i - 1) * PAGE_SIZE
      BY <1>6, <3>1 DEF PoolReady
    <3>3. (i - 1) * PAGE_SIZE \in Nat /\ (k - i) * PAGE_SIZE \in Nat
      BY <1>1
    <3>4. k * PAGE_SIZE = (i - 1) * PAGE_SIZE + PAGE_SIZE + (k - i) * PAGE_SIZE
      BY <1>1
    <3>5. HeapPhys <= linear
      BY <1>1, <1>13, <1>14, SMTT(40)
    <3>6. QED
      BY <1>1, <1>4, <1>11, <1>13, <3>2, <3>3, <3>4, <3>5, SMTT(40)
  <2>3. QED
    BY <2>1, <2>2, SMTT(40)
<1>17. TablesTaken'
  BY <1>2, <1>4, <1>7, <1>12, <1>15, <1>16, SMTT(40) DEF TablesTaken, SameMap
<1>18. QED
  BY <1>4, <1>11, <1>12, <1>17, SMTT(40) DEF TableInv

(* An entry of a page is changed in place.                                 *)
LEMMA TablesKept ==
  ASSUME FlowInv, TableInv, SameMap, pc \notin {"start", "failed"}, linear' = linear,
         Tree(t.lvl4, t'), DOMAIN t'.mem = DOMAIN t.mem
  PROVE  TableInv'
<1>1. t'.lvl4 = t.lvl4 /\ t.lvl4 # None
  BY SMTT(40) DEF Tree, IsTable, TableInv
<1>2. TablesTaken'
  BY <1>1 DEF TableInv, TablesTaken, SameMap
<1>3. QED
  BY <1>1, <1>2, SMTT(40) DEF TableInv

LEMMA TableInvStep == FlowInv /\ TableInv /\ [KNext]_kvars => TableInv'
<1> SUFFICES ASSUME FlowInv, TableInv, KNext \/ UNCHANGED kvars PROVE TableInv'
  BY DEF kvars
<1>0. SameMap
  BY MapStays
<1>p. PAGE_SIZE \in Nat /\ PAGE_SIZE > 0
  BY PageSizeAssumption
<1>s. ASSUME UNCHANGED <<linear, t>>, pc \in {"start", "failed"} => pc' \in {"start", "failed"}
      PROVE  TableInv'
  <2>1. linear' = linear + PAGE_SIZE * 0
    BY <1>p, <1>s, SMTT(40) DEF TableInv
  <2>2. QED
    BY <1>0, <1>s, <2>1, TablesMove, SMTT(40)
<1>1. CASE Start
  <2>1. CASE UNCHANGED <<linear, t>> /\ pc' = "failed"
    BY <1>s, <2>1, SMTT(40)
  <2>2. CASE /\ t' = new(RootFrame) /\ OfType({"Usable"}) # {}
             /\ linear' = RootFrame + PAGE_SIZE
    <3>1. HeapPhys \in Nat
      BY <2>2, MapIs DEF FlowInv, RegionsKnown
    <3>2. HEAP_PAGES * PAGE_SIZE \in Nat /\ HEAP_PAGES \in Nat
      BY <1>p, AddressesAssumption
    <3>3. RootFrame \in Nat /\ HeapPhys <= RootFrame
      BY <3>1, <3>2 DEF RootFrame
    <3>4. linear' = HeapPhys + (HEAP_PAGES + 1) * PAGE_SIZE
      BY <1>p, <2>2, <3>1, <3>2, SMTT(40) DEF RootFrame
    <3>5. Tree(RootFrame, t')
      BY <2>2, <3>3, NewIsTree, SMTT(40)
    <3>6. t'.lvl4 = RootFrame /\ DOMAIN t'.mem = {RootFrame}
      BY <2>2 DEF new
    <3>7. linear' = RootFrame + PAGE_SIZE
      BY <2>2, SMTT(40)
    <3>8. TablesTaken'
      <4>1. OfType({"Usable"})' # {} /\ Tree(t'.lvl4, t')
        BY <1>0, <2>2, <3>5, <3>6, SMTT(40) DEF SameMap
      <4>2. \E n \in Nat : linear' = HeapPhys' + n * PAGE_SIZE
        BY <1>0, <3>2, <3>4, SMTT(40) DEF SameMap
      <4>3. \A f \in DOMAIN t'.mem : f \in Nat /\ HeapPhys' <= f /\ f + PAGE_SIZE <= linear'
        BY <1>0, <1>p, <3>3, <3>6, <3>7, SMTT(40) DEF SameMap
      <4>4. QED
        BY <4>1, <4>2, <4>3, SMTT(40) DEF TablesTaken
    <3>9. QED
      BY <1>p, <3>3, <3>6, <3>7, <3>8, SMTT(40) DEF TableInv, None
  <2>3. QED
    BY <1>1, <2>1, <2>2, SMTT(40) DEF Start, Fail
<1>2. CASE MapPage
  BY <1>0, <1>2, TablesGrow, SMTT(40)
<1>3. CASE NextJob
  BY <1>3, <1>s, SMTT(40) DEF NextJob
<1>4. CASE UnmapGuardPage
  <2>1. pc = "map" /\ t' = unmap(t, stack_top).t /\ linear' = linear
    BY <1>4, SMTT(40) DEF UnmapGuardPage
  <2>2. Tree(t.lvl4, t)
    BY <2>1, SMTT(40) DEF TableInv, TablesTaken
  <2>3. stack_top \in Nat /\ ~Reserved(stack_top)
    BY StackQueue, StackAssumption, SMTT(40) DEF FlowInv, stack_bottom
  <2>4. Tree(t.lvl4, t') /\ DOMAIN t'.mem = DOMAIN t.mem
    BY <2>1, <2>2, <2>3, UnmapKeepsTree, UnmapKeepsPaths, SMTT(40)
  <2>5. QED
    BY <1>0, <2>1, <2>4, TablesKept, SMTT(40)
<1>5. CASE RemapStackPage
  <2>1. /\ pc = "stack" /\ jobs # <<>> /\ linear' = linear
        /\ t' = update_flags(t, Head(jobs).to, Head(jobs).flags).t
    BY <1>5, ZenonT(40) DEF RemapStackPage
  <2>2. Tree(t.lvl4, t)
    BY <2>1, Zenon DEF TableInv, TablesTaken
  <2>3. Head(jobs) \in StackJobs
    BY <2>1, Queue, SMTT(40) DEF FlowInv, JobsLeft
  <2>4. Head(jobs).to \in Nat /\ ~Reserved(Head(jobs).to) /\ Head(jobs).flags \in PageTableFlags
    BY <2>3, StackQueue, SMTT(40) DEF FlowInv, StackJobs, BootJobs
  <2>5. Tree(t.lvl4, t') /\ DOMAIN t'.mem = DOMAIN t.mem
    BY <2>1, <2>2, <2>4, UpdateKeepsTree, UpdateKeepsPaths, ZenonT(40)
  <2>6. QED
    BY <1>0, <2>1, <2>5, TablesKept, SMTT(40)
<1>6. CASE CreateFrameAllocator
  <2>1. size_bytes \in Nat
    BY <1>6, MapIs DEF CreateFrameAllocator, FlowInv, RegionsKnown
  <2>2. size_in_pages(size_bytes) \in Nat
    BY <2>1, SizeInPages, SMTT(40)
  <2>3. QED
    BY <1>0, <1>6, <2>2, TablesMove, SMTT(40) DEF CreateFrameAllocator
<1>7. CASE ClearRegion
  BY <1>7, <1>s, SMTT(40) DEF ClearRegion
<1>8. CASE CreateVirtualAllocator
  <2>1. 2 * size_bytes \in Nat
    BY <1>8, MapIs DEF CreateVirtualAllocator, HeapNext, FlowInv, RegionsKnown
  <2>2. size_in_pages(2 * size_bytes) \in Nat
    BY <2>1, SizeInPages
  <2>3. QED
    BY <1>0, <1>8, <2>2, TablesMove, SMTT(40) DEF CreateVirtualAllocator, HeapNext
<1>9. CASE MarkAndLoad
  BY <1>9, <1>s, SMTT(40) DEF MarkAndLoad
<1>10. CASE \E size \in Sizes : AllocatedMemoryNew(size) \/ ReservePhysical(size)
  BY <1>10, <1>s, CallKeeps, Zenon DEF Called
<1>11. CASE StackFault \/ KHalt \/ UNCHANGED kvars
  BY <1>11, <1>s DEF StackFault, KHalt, kvars, vars
<1>12. QED
  BY <1>1, <1>2, <1>3, <1>4, <1>5, <1>6, <1>7, <1>8, <1>9, <1>10, <1>11, SMTT(40) DEF KNext, BootStep, Boot

LEMMA AlwaysTable == KSpec => []TableInv
<1>1. KInit => TableInv
  BY DEF KInit, Init, TableInv
<1>2. QED
  BY <1>1, AlwaysFlow, TableInvStep, PTL DEF KSpec

-----------------------------------------------------------------------------
(* What the bitmaps hold: a clear bit is a usable frame, and in the end    *)
(* none that the boot has taken.                                           *)
MarkInv ==
  /\ \E bytes \in Nat : fa \in Allocators(bytes)
  /\ \E bytes \in Nat : va \in Allocators(bytes)
  /\ pc \in {"clear", "heap", "booted"} => fa \in Allocators(size_bytes)
  /\ pc \in {"clear", "heap", "booted"} => Frames \ fa.bits \subseteq UsableFrames
  /\ pc = "booted" => (Frames \ fa.bits) \cap BootFrames = {}

LEMMA PageOrder ==
  ASSUME NEW a \in Nat, NEW b \in Nat
  PROVE  /\ PageOf(a) \in Nat /\ PageOf(b) \in Nat
         /\ a <= b => PageOf(a) <= PageOf(b)
         /\ a + PAGE_SIZE <= b => PageOf(a) + 1 <= PageOf(b)
<1>1. PAGE_SIZE \in Nat /\ PAGE_SIZE > 0
  BY PageSizeAssumption, SMTT(40)
<1>2. ASSUME NEW x \in Nat, NEW y \in Nat, x <= y PROVE PageOf(x) <= PageOf(y)
  <2>1. PICK p \in Nat, r \in 0..(PAGE_SIZE - 1) : x = p * PAGE_SIZE + r /\ PageOf(x) = p
    BY <1>1 DEF PageOf
  <2>2. PICK q \in Nat, s \in 0..(PAGE_SIZE - 1) : y = q * PAGE_SIZE + s /\ PageOf(y) = q
    BY <1>1 DEF PageOf
  <2>3. CASE q < p
    <3>1. (p - q - 1) * PAGE_SIZE \in Nat
      BY <1>1, <2>3, SMTT(40)
    <3>2. p * PAGE_SIZE = q * PAGE_SIZE + PAGE_SIZE + (p - q - 1) * PAGE_SIZE
      BY <1>1
    <3>3. q * PAGE_SIZE \in Nat
      BY <1>1, SMTT(40)
    <3>4. FALSE
      BY <1>1, <1>2, <2>1, <2>2, <3>1, <3>2, <3>3, SMTT(40)
    <3>5. QED
      BY <3>4
  <2>4. QED
    BY <2>1, <2>2, <2>3, SMTT(40)
<1>3. /\ PageOf(a) \in Nat /\ PageOf(b) \in Nat /\ PageOf(a + PAGE_SIZE) = PageOf(a) + 1
      /\ a + PAGE_SIZE \in Nat
  BY <1>1, PageIs, SMTT(40)
<1>4. QED
  BY <1>2, <1>3, SMTT(40)

AllocAdded(bytes, a, r) == r.a \in Allocators(bytes) /\ a.bits \subseteq r.a.bits

LEMMA AllocAdds ==
  ASSUME NEW bytes \in Nat, NEW a \in Allocators(bytes), NEW slice, NEW pages \in Nat
  PROVE  AllocAdded(bytes, a, AllocFrom(a, slice, pages))
<1>1. AllocAdded(bytes, a, alloc(a, pages))
  <2>1. CASE bytes = 0
    <3>1. a.size = 0
      BY <2>1, SMTT(40) DEF Allocators
    <3>2. scan(a, pages).out = "OutOfBounds"
      BY <3>1 DEF scan
    <3>3. alloc(a, pages).a = a
      BY <3>2, SMTT(40) DEF alloc
    <3>4. QED
      BY <3>3, SMTT(40) DEF AllocAdded
  <2>2. CASE bytes # 0
    <3>1. Allocated(bytes, a, pages, alloc(a, pages))
      BY <2>2, AllocEffect, SMTT(40)
    <3>2. QED
      BY <3>1, Zenon DEF Allocated, AllocAdded
  <2>3. QED
    BY <2>1, <2>2, SMTT(40)
<1>2. AllocAdded(bytes, a, [a |-> a, out |-> "panic", start |-> 0])
  BY Zenon DEF AllocAdded
<1>3. QED
  BY <1>1, <1>2, SMTT(40) DEF AllocFrom

(* The bitmap that BitmapAllocator::new fills.                             *)
LEMMA NewIs ==
  ASSUME NEW bytes \in Nat
  PROVE  New(bytes, TRUE) \in Allocators(bytes) /\ New(bytes, TRUE).bits = 0..(New(bytes, TRUE).size - 1)
<1> DEFINE I == 0..(8 * bytes - 1)
           m == 8 * bytes
           n == New(bytes, TRUE)
<1>1. n = [bits |-> I, size |-> m, last |-> 0] /\ I = 0..(m - 1)
  BY Zenon DEF New
<1> HIDE DEF I, m, n
<1>2. n.bits = I /\ n.size = m
  BY <1>1, SMTT(40)
<1>3. n \in [bits : SUBSET I, size : {m}, last : Nat]
  BY <1>1, SMTT(40)
<1>4. QED
  BY <1>1, <1>2, <1>3, Zenon DEF Allocators, I, m, n

(* Neither bitmap changes, nor what the boot took.                         *)
LEMMA MarksKept ==
  ASSUME MarkInv, SameMap, fa' = fa, va' = va,
         \/ pc' \in {"start", "map", "stack", "failed"}
         \/ pc' \in {"clear", "heap"} /\ pc \in {"clear", "heap"}
         \/ pc' = "booted" /\ pc = "booted" /\ linear' = linear
  PROVE  MarkInv'
<1>1. Frames' = Frames
  BY Zenon DEF Frames
<1>2. linear' = linear => BootFrames' = BootFrames
  BY Zenon DEF BootFrames, SameMap
<1>3. QED
  BY <1>1, <1>2, Zenon DEF MarkInv, SameMap

(* Marks are added after the boot.                                         *)
LEMMA MarksAdded ==
  ASSUME MarkInv, SameMap, pc = "booted", pc' = "booted", linear' = linear,
         NEW b, b \in Nat, fa \in Allocators(b), fa' \in Allocators(b), fa.bits \subseteq fa'.bits,
         NEW c, c \in Nat, va \in Allocators(c), va' \in Allocators(c)
  PROVE  MarkInv'
<1>1. fa.size = 8 * b /\ fa'.size = 8 * b /\ fa \in Allocators(size_bytes)
  BY Zenon DEF Allocators, MarkInv
<1>2. fa.size = 8 * size_bytes
  BY <1>1, SMTT(40) DEF Allocators
<1>3. fa' \in Allocators(size_bytes)
  BY <1>1, <1>2, SMTT(40) DEF Allocators
<1>4. Frames' = Frames /\ BootFrames' = BootFrames
  BY <1>1, SMTT(40) DEF Frames, BootFrames, SameMap
<1>5. (Frames \ fa'.bits) \subseteq Frames \ fa.bits
  BY SMTT(40)
<1>6. QED
  BY <1>3, <1>4, <1>5, ZenonT(40) DEF MarkInv, SameMap

LEMMA ClearKeepsMarks ==
  ASSUME FlowInv, MarkInv, SameMap, ClearRegion
  PROVE  MarkInv'
<1> DEFINE region == Head(jobs)
           lo == PageOf(region.base)
           hi == PageOf(End(region))
           r == flag_range(fa, lo, hi, FALSE)
<1>1. pc = "clear" /\ jobs # <<>> /\ va' = va
  BY Zenon DEF ClearRegion
<1>2. CASE fa' = fa /\ pc' \in {"clear", "failed"}
  BY <1>1, <1>2, MarksKept, SMTT(40)
<1>3. CASE fa' = r.a /\ pc' = pc /\ region.type = "Usable"
  <2>1. PICK k \in DOMAIN mmap : region = mmap[k] /\ region \in Regions
    <3>1. region \in BootRegions
      BY <1>1, Queue DEF FlowInv, JobsLeft
    <3>2. QED
      BY <3>1, MapIs, SMTT(40) DEF BootRegions, FlowInv
  <2>2. region.base \in Nat /\ End(region) \in Nat /\ region.base <= End(region)
    BY <2>1 DEF Regions, End
  <2>3. lo \in Nat /\ hi \in Nat /\ lo <= hi
    BY <2>2, PageOrder, SMTT(40)
  <2>4. lo..(hi - 1) \subseteq UsableFrames
    BY <1>3, <2>1, SMTT(40) DEF UsableFrames, OfType, EndOf
  <2>5. fa \in Allocators(size_bytes) /\ size_bytes \in Nat
    BY <1>1, MapIs DEF MarkInv, FlowInv, RegionsKnown
  <2>6. FlaggedRange(size_bytes, fa, lo, hi, FALSE, r)
    <3> HIDE DEF lo, hi
    <3>1. QED
      BY <2>3, <2>5, FlagRangeEffect, Zenon
  <2> HIDE DEF lo, hi, r
  <2>7. fa' \in Allocators(size_bytes) /\ fa.bits \ (lo..(hi - 1)) \subseteq fa'.bits
    BY <1>3, <2>6 DEF FlaggedRange
  <2>8. Frames' = Frames
    BY <2>5, <2>7, SMTT(40) DEF Frames, Allocators
  <2>9. Frames \ fa'.bits \subseteq UsableFrames
    BY <1>1, <2>4, <2>7, SMTT(40) DEF MarkInv
  <2>10. QED
    BY <1>1, <1>3, <2>5, <2>7, <2>8, <2>9, ZenonT(40) DEF MarkInv, SameMap
<1>4. QED
  BY <1>1, <1>2, <1>3, ZenonT(40) DEF ClearRegion, Fail

LEMMA MarkAndLoadMarks ==
  ASSUME FlowInv, TableInv, MarkInv, SameMap, MarkAndLoad
  PROVE  MarkInv'
<1> DEFINE lo == PageOf(HeapPhys)
           hi == PageOf(linear)
           r == flag_range(fa, lo, hi, TRUE)
<1>1. pc = "heap" /\ va' = va /\ linear' = linear
  BY DEF MarkAndLoad
<1>2. CASE fa' = fa /\ pc' = "failed"
  BY <1>1, <1>2, MarksKept, SMTT(40)
<1>3. CASE fa' = r.a /\ pc' = "booted" /\ r.out = "Ok"
  <2>1. RegionsKnown /\ TablesTaken /\ linear \in Nat
    BY <1>1, MapIs, SMTT(40) DEF FlowInv, TableInv
  <2>2. HeapPhys \in Nat /\ HeapPhys <= linear
    <3>1. PICK n \in Nat : linear = HeapPhys + n * PAGE_SIZE
      BY <2>1 DEF TablesTaken
    <3>2. n * PAGE_SIZE \in Nat
      BY PageSizeAssumption, SMTT(40)
    <3>3. QED
      BY <2>1, <3>1, <3>2, SMTT(40) DEF RegionsKnown
  <2>3. lo \in Nat /\ hi \in Nat /\ lo <= hi
    BY <2>1, <2>2, PageOrder, SMTT(40)
  <2>4. fa \in Allocators(size_bytes) /\ size_bytes \in Nat
    BY <1>1, <2>1, SMTT(40) DEF MarkInv, RegionsKnown
  <2>5. FlaggedRange(size_bytes, fa, lo, hi, TRUE, r)
    <3> HIDE DEF lo, hi
    <3>1. QED
      BY <2>3, <2>4, FlagRangeEffect, Zenon
  <2>6. BootFrames' = lo..(hi - 1)
    BY <1>1 DEF BootFrames, SameMap
  <2> HIDE DEF lo, hi, r
  <2>7. fa' \in Allocators(size_bytes) /\ fa'.bits = fa.bits \cup (lo..(hi - 1))
    BY <1>3, <2>5, SMTT(40) DEF FlaggedRange
  <2>8. Frames' = Frames
    BY <2>4, <2>7, SMTT(40) DEF Frames, Allocators
  <2>9. Frames \ fa'.bits \subseteq UsableFrames /\ (Frames \ fa'.bits) \cap (lo..(hi - 1)) = {}
    BY <1>1, <2>7, SMTT(40) DEF MarkInv
  <2>10. QED
    BY <1>1, <1>3, <2>4, <2>6, <2>7, <2>8, <2>9, ZenonT(40) DEF MarkInv, SameMap
<1>4. QED
  BY <1>1, <1>2, <1>3, ZenonT(40) DEF MarkAndLoad, Fail, UsedFramesEnd

LEMMA MarkInvStep == FlowInv /\ TableInv /\ MarkInv /\ [KNext]_kvars => MarkInv'
<1> SUFFICES ASSUME FlowInv, TableInv, MarkInv, KNext \/ UNCHANGED kvars PROVE MarkInv'
  BY DEF kvars
<1>0. SameMap
  BY MapStays
<1>1. CASE Start \/ MapPage \/ NextJob \/ UnmapGuardPage \/ RemapStackPage
  <2>1. /\ fa' = fa /\ va' = va
        /\ pc' \in {"map", "stack", "failed"} \/ (pc = "heap" /\ pc' = "heap")
    BY <1>1, ZenonT(40) DEF Start, MapPage, NextJob, UnmapGuardPage, RemapStackPage, Fail
  <2>2. QED
    BY <1>0, <2>1, MarksKept, SMTT(40)
<1>2. CASE CreateFrameAllocator
  <2>1. size_bytes \in Nat
    BY <1>2, MapIs, ZenonT(40) DEF CreateFrameAllocator, FlowInv, RegionsKnown
  <2>2. fa' \in Allocators(size_bytes) /\ fa'.bits = 0..(fa'.size - 1)
    BY <1>2, <2>1, NewIs, ZenonT(40) DEF CreateFrameAllocator
  <2>3. QED
    BY <1>0, <1>2, <2>1, <2>2, ZenonT(40) DEF CreateFrameAllocator, MarkInv, SameMap, Frames
<1>3. CASE ClearRegion
  BY <1>0, <1>3, ClearKeepsMarks, SMTT(40)
<1>4. CASE CreateVirtualAllocator
  <2>1. 2 * size_bytes \in Nat
    BY <1>4, MapIs, SMTT(40) DEF CreateVirtualAllocator, HeapNext, FlowInv, RegionsKnown
  <2>2. va' \in Allocators(2 * size_bytes) /\ fa' = fa /\ pc = "clear" /\ pc' = "heap"
    BY <1>4, <2>1, NewIs, ZenonT(40) DEF CreateVirtualAllocator, HeapNext
  <2>3. Frames' = Frames
    BY <2>2, SMTT(40) DEF Frames
  <2>4. QED
    BY <1>0, <2>1, <2>2, <2>3, ZenonT(40) DEF MarkInv, SameMap
<1>5. CASE MarkAndLoad
  BY <1>0, <1>5, MarkAndLoadMarks, SMTT(40)
<1>6. ASSUME NEW size \in Sizes, AllocatedMemoryNew(size) \/ ReservePhysical(size) PROVE MarkInv'
  <2>1. PICK b \in Nat, c \in Nat : fa \in Allocators(b) /\ va \in Allocators(c)
    BY SMTT(40) DEF MarkInv
  <2>2. size_in_pages(size) \in Nat
    BY SizesAssumption, SizeInPages, SMTT(40)
  <2>3. AllocAdded(b, fa, AllocFrom(fa, slices[1], size_in_pages(size)))
    BY <2>1, <2>2, AllocAdds, SMTT(40)
  <2>4. /\ fa' = fa \/ fa' = AllocFrom(fa, slices[1], size_in_pages(size)).a
        /\ va' = va /\ pc = "booted" /\ pc' = "booted" /\ linear' = linear
    BY <1>6, CallKeeps, ZenonT(40) DEF Called
  <2>5. fa' \in Allocators(b) /\ fa.bits \subseteq fa'.bits /\ va' \in Allocators(c)
    BY <2>1, <2>3, <2>4, ZenonT(40) DEF AllocAdded
  <2>6. QED
    BY <1>0, <2>1, <2>4, <2>5, MarksAdded, ZenonT(40)
<1>7. CASE StackFault \/ KHalt \/ UNCHANGED kvars
  <2>1. fa' = fa /\ va' = va /\ pc' = pc /\ linear' = linear
    BY <1>7 DEF StackFault, KHalt, kvars, vars
  <2>2. QED
    BY <1>0, <2>1, MarksKept, SMTT(40) DEF FlowInv
<1>8. QED
  BY <1>1, <1>2, <1>3, <1>4, <1>5, <1>6, <1>7, SMTT(40) DEF KNext, BootStep, Boot

LEMMA AlwaysMarked == KSpec => []MarkInv
<1>1. KInit => MarkInv
  <2> SUFFICES ASSUME KInit PROVE MarkInv
    OBVIOUS
  <2>1. fa \in Allocators(0) /\ va \in Allocators(0) /\ 0 \in Nat /\ pc = "start"
    BY NewIs, Zenon DEF KInit, Init
  <2>2. QED
    BY <2>1, SMTT(40) DEF MarkInv
<1>2. QED
  BY <1>1, AlwaysFlow, AlwaysTable, MarkInvStep, PTL DEF KSpec

(* For every memory map: init_memory returns an error or goes on, the two  *)
(* bitmaps mark positions of their own only, and every table of the kernel *)
(* is in a frame that the linear allocator has handed out.                 *)
THEOREM BootTypeCorrect == KSpec => []TypeOK
<1>1. FlowInv /\ TableInv /\ MarkInv => TypeOK
  <2> SUFFICES ASSUME FlowInv, TableInv, MarkInv PROVE TypeOK
    OBVIOUS
  <2>1. fa.bits \subseteq Frames /\ va.bits \subseteq 0..(va.size - 1)
    BY DEF MarkInv, Allocators, Frames
  <2>2. ASSUME t.lvl4 # None, NEW f \in DOMAIN t.mem PROVE PageOf(f) \in BootFrames
    <3>1. TablesTaken /\ linear \in Nat
      BY <2>2, SMTT(40) DEF TableInv
    <3>2. f \in Nat /\ HeapPhys <= f /\ f + PAGE_SIZE <= linear
      BY <3>1, SMTT(40) DEF TablesTaken
    <3>3. HeapPhys \in Nat
      BY <3>1, MapIs, ZenonT(40) DEF FlowInv, TablesTaken, RegionsKnown
    <3>4. /\ PageOf(HeapPhys) \in Nat /\ PageOf(f) \in Nat /\ PageOf(linear) \in Nat
          /\ PageOf(HeapPhys) <= PageOf(f) /\ PageOf(f) + 1 <= PageOf(linear)
      BY <3>1, <3>2, <3>3, PageOrder, SMTT(40)
    <3>5. QED
      BY <3>4 DEF BootFrames
  <2>3. t.lvl4 # None => { PageOf(f) : f \in DOMAIN t.mem } \subseteq BootFrames
    BY <2>2
  <2>4. QED
    BY <2>1, <2>3, Zenon DEF TypeOK, FlowInv, TableInv
<1>2. QED
  BY <1>1, AlwaysFlow, AlwaysTable, AlwaysMarked, PTL

(* For every memory map, and whatever is allocated after the boot: a frame *)
(* that the frame allocator may hand out is usable memory, and holds none  *)
(* of the heap, the page tables and the bitmaps.                           *)
THEOREM FreeFramesStayFree == KSpec => []FreeFramesAreFree
<1>1. MarkInv => FreeFramesAreFree
  BY DEF MarkInv, FreeFramesAreFree
<1>2. QED
  BY <1>1, AlwaysMarked, PTL

-----------------------------------------------------------------------------
(* Why the boot panics.                                                    *)
LEMMA FlagRangeFits ==
  ASSUME NEW bytes \in Nat, NEW a \in Allocators(bytes), NEW lo \in Nat, NEW hi \in Nat,
         hi <= 8 * bytes, NEW flag \in BOOLEAN
  PROVE  flag_range(a, lo, hi, flag).out = "Ok"
<1> DEFINE body == AlignUp(lo)..(AlignDown(hi) - 1)
           ends == (lo..(hi - 1)) \ body
           filled == [a EXCEPT !.bits = IF flag THEN @ \cup body ELSE @ \ body]
<1>1. a.size = 8 * bytes
  BY DEF Allocators
<1>2. range_in_bounds(a, hi)
  BY <1>1 DEF range_in_bounds
<1>3. \A b \in Nat : b < 8 * bytes => in_range(a, b) /\ Indexable(a, b)
  BY <1>1, IndexableIff, SMTT(40) DEF in_range
<1>4. AlignUp(lo) \in Nat /\ AlignDown(hi) \in Nat /\ AlignDown(hi) <= hi
  BY DEF AlignUp, AlignDown
<1>5. \A b \in body : b \in Nat /\ b < 8 * bytes
  BY <1>4
<1>6. \A b \in lo..(hi - 1) : b \in Nat /\ b < 8 * bytes
  OBVIOUS
<1>7. filled.size = a.size /\ \A b : in_range(filled, b) = in_range(a, b) /\ Indexable(filled, b) = Indexable(a, b)
  <2>1. filled.size = a.size
    BY DEF Allocators
  <2> HIDE DEF filled
  <2>2. QED
    BY <2>1 DEF in_range, Indexable, BitmapLen
<1> HIDE DEF body, filled
<1>8. FlagEach(a, lo..(hi - 1), flag).out = "Ok"
  BY <1>3, <1>6 DEF FlagEach, Return
<1>9. FlagEach(filled, ends, flag).out = "Ok"
  BY <1>3, <1>6, <1>7, SMTT(40) DEF FlagEach, Return
<1>10. ~ \E b \in body : ~Indexable(a, b)
  BY <1>3, <1>5
<1>11. flag_range(a, lo, hi, flag) = IF hi - lo < 8 THEN FlagEach(a, lo..(hi - 1), flag) ELSE FlagEach(filled, ends, flag)
  BY <1>2, <1>10, SMTT(40) DEF flag_range, body, filled
<1>12. QED
  BY <1>8, <1>9, <1>11, SMTT(40)

LEMMA LinearAligned ==
  ASSUME FlowInv, TablesTaken, linear \in Nat, ~MisalignedMap
  PROVE  \A g \in LinearFrames : Aligned(g)
<1>1. RegionsKnown
  BY MapIs, SMTT(40) DEF FlowInv, TablesTaken
<1>2. HeapPhys \in Nat /\ Aligned(HeapPhys)
  BY <1>1, SMTT(40) DEF RegionsKnown, HeapPhys, MisalignedMap, OfType
<1>3. PICK n \in Nat : linear = HeapPhys + n * PAGE_SIZE
  BY DEF TablesTaken
<1>4. Aligned(linear)
  BY <1>2, <1>3, AlignedSums, SMTT(40)
<1>5. \A i \in 0..2 : Aligned(linear + i * PAGE_SIZE)
  BY <1>4, AlignedSums, SMTT(40)
<1>6. QED
  BY <1>5, SMTT(40) DEF LinearFrames

Explained == OfType({"ExecutableAndModules"}) = {} \/ MisalignedMap \/ OddFrames \/ RegionTooSmall

(* map panics on a misaligned address only.                                *)
LEMMA MapPanics ==
  ASSUME FlowInv, TableInv, MapPage, out' = "panic"
  PROVE  MisalignedMap
<1> DEFINE j == Head(jobs)
           root == t.lvl4
           r == map(t, NextFrames, j.from, j.to, j.flags)
<1>1. pc \in {"map", "heap"} /\ jobs # <<>> /\ (r.out = "Ok" => out' = out) /\ (r.out # "Ok" => out' = r.out)
  BY Zenon DEF MapPage, Fail
<1>2. r.out = "panic"
  BY <1>1, ZenonT(40) DEF FlowInv
<1>3. j \in MapJobs
  BY <1>1, Queue, Zenon DEF FlowInv, JobsLeft
<1>4. j.from \in Nat /\ j.to \in Nat /\ j.flags \in PageTableFlags /\ (MisalignedMap \/ Aligned(j.from))
  BY <1>3, SMTT(40) DEF MapJobs, BootJobs
<1>5. linear \in Nat /\ TablesTaken
  BY <1>1, ZenonT(40) DEF TableInv
<1>6. Tree(root, t) /\ PoolReady
  BY <1>5, NextFramesAre, SMTT(40) DEF TablesTaken
<1>7. Misaligned(j.from, LinearFrames)
  <2> HIDE DEF j, root
  <2>1. QED
    BY <1>2, <1>4, <1>6, MapKeepsTree, SMTT(40) DEF PoolReady
<1>8. QED
  BY <1>4, <1>5, <1>7, LinearAligned, SMTT(40) DEF Misaligned

(* flag_range panics or fails when the range ends past the bitmap.         *)
LEMMA ClearPanics ==
  ASSUME FlowInv, MarkInv, ClearRegion, out' # out
  PROVE  OddFrames
<1> DEFINE region == Head(jobs)
           lo == PageOf(region.base)
           hi == PageOf(End(region))
           r == flag_range(fa, lo, hi, FALSE)
<1>1. pc = "clear" /\ jobs # <<>> /\ region.type = "Usable" /\ r.out # "Ok"
  BY Zenon DEF ClearRegion
<1>2. PICK k \in DOMAIN mmap : region = mmap[k] /\ region \in Regions
  <2>1. region \in BootRegions
    BY <1>1, Queue, SMTT(40) DEF FlowInv, JobsLeft
  <2>2. QED
    BY <2>1, MapIs, SMTT(40) DEF BootRegions, FlowInv
<1>3. region.base \in Nat /\ End(region) \in Nat
  BY <1>2, SMTT(40) DEF Regions, End
<1>4. lo \in Nat /\ hi \in Nat
  BY <1>3, PageOrder, SMTT(40)
<1>5. fa \in Allocators(size_bytes) /\ size_bytes \in Nat
  BY <1>1, MapIs, ZenonT(40) DEF MarkInv, FlowInv, RegionsKnown
<1>6. ~(hi <= 8 * size_bytes)
  <2> HIDE DEF lo, hi
  <2>1. QED
    BY <1>1, <1>4, <1>5, FlagRangeFits, Zenon
<1>7. k \in OfType({"Usable"}) /\ hi = PageOf(EndOf(k))
  BY <1>1, <1>2, Zenon DEF OfType, EndOf
<1>8. QED
  BY <1>4, <1>5, <1>6, <1>7, SMTT(40) DEF OddFrames

LEMMA MarkPanics ==
  ASSUME FlowInv, TableInv, MarkInv, MarkAndLoad, out' # out
  PROVE  OddFrames \/ RegionTooSmall
<1> DEFINE lo == PageOf(HeapPhys)
           hi == PageOf(linear)
           r == flag_range(fa, lo, hi, TRUE)
<1>1. pc = "heap" /\ r.out # "Ok"
  BY Zenon DEF MarkAndLoad, UsedFramesEnd
<1>2. RegionsKnown /\ linear \in Nat
  BY <1>1, MapIs DEF FlowInv, TableInv
<1>3. HeapPhys \in Nat /\ lo \in Nat /\ hi \in Nat
  BY <1>2, PageOrder, SMTT(40) DEF RegionsKnown
<1>4. fa \in Allocators(size_bytes) /\ size_bytes \in Nat
  BY <1>1, <1>2, SMTT(40) DEF MarkInv, RegionsKnown
<1>5. ~(hi <= 8 * size_bytes)
  <2> HIDE DEF lo, hi
  <2>1. QED
    BY <1>1, <1>3, <1>4, FlagRangeFits, Zenon
<1>6. PICK i \in OfType({"Usable"}) : allocator_region = mmap[i]
  BY <1>2, SMTT(40) DEF RegionsKnown
<1>7. End(allocator_region) = EndOf(i) /\ EndOf(i) \in Nat
  BY <1>6, MapIs, Zenon DEF EndOf, OfType, FlowInv
<1>8. CASE linear <= EndOf(i)
  <2>1. hi <= PageOf(EndOf(i)) /\ PageOf(EndOf(i)) \in Nat
    BY <1>2, <1>7, <1>8, PageOrder, SMTT(40)
  <2>2. PageOf(EndOf(i)) > 8 * size_bytes
    BY <1>3, <1>4, <1>5, <2>1, SMTT(40)
  <2>3. QED
    BY <1>6, <2>2, SMTT(40) DEF OddFrames
<1>9. QED
  BY <1>2, <1>7, <1>8, SMTT(40) DEF RegionTooSmall

(* For every memory map: init_memory panics only when the map has no       *)
(* region of the kernel or a misaligned one, when usable memory ends past  *)
(* the whole bytes of the bitmap, or when the largest region is too small. *)
THEOREM PanicsAreExplained == KSpec => []BootPanicsExplained
<1>1. KInit => BootPanicsExplained
  BY DEF KInit, Init, BootPanicsExplained
<1>2. FlowInv /\ TableInv /\ MarkInv /\ BootPanicsExplained /\ [KNext]_kvars => BootPanicsExplained'
  <2> SUFFICES ASSUME FlowInv, TableInv, MarkInv, BootPanicsExplained, KNext \/ UNCHANGED kvars, out' = "panic"
               PROVE  Explained'
    BY DEF kvars, BootPanicsExplained, Explained
  <2>0. SameMap
    BY MapStays
  <2>1. CASE out' = out
    <3>1. pc = "failed" /\ Explained
      BY <2>1 DEF FlowInv, BootPanicsExplained, Explained
    <3>2. linear' = linear
      BY <3>1, ZenonT(40) DEF KNext, BootStep, Boot, Start, MapPage, NextJob, UnmapGuardPage, RemapStackPage,
        CreateFrameAllocator, ClearRegion, CreateVirtualAllocator, HeapNext, MarkAndLoad,
        AllocatedMemoryNew, ReservePhysical, StackFault, KHalt, kvars, vars
    <3>3. RegionTooSmall' = RegionTooSmall
      BY <2>0, <3>2, Zenon DEF RegionTooSmall, SameMap
    <3>4. QED
      BY <2>0, <3>1, <3>3, ZenonT(40) DEF Explained, SameMap
  <2>2. CASE out' # out
    <3>1. OfType({"ExecutableAndModules"}) = {} => Explained'
      BY <2>0, Zenon DEF SameMap, Explained
    <3>2. MisalignedMap \/ OddFrames => Explained'
      BY <2>0, Zenon DEF SameMap, Explained
    <3>3. CASE Start
      <4>1. /\ OfType({"Usable"}) # {}
            /\ ~Aligned(RootFrame) \/ OfType({"ExecutableAndModules"}) = {}
        BY <2>2, <3>3, SMTT(40) DEF Start, Fail
      <4>2. RegionsKnown
        BY <4>1, MapIs, SMTT(40) DEF FlowInv
      <4>3. ~Aligned(RootFrame) => MisalignedMap
        <5>1. HeapPhys \in Nat /\ (MisalignedMap \/ Aligned(HeapPhys))
          BY <4>2, SMTT(40) DEF RegionsKnown, HeapPhys, MisalignedMap, OfType
        <5>2. QED
          BY <5>1, AddressesAssumption, AlignedSums, SMTT(40) DEF RootFrame
      <4>4. QED
        BY <3>1, <3>2, <4>1, <4>3, SMTT(40)
    <3>4. CASE MapPage
      BY <3>2, <3>4, MapPanics, SMTT(40)
    <3>5. CASE UnmapGuardPage
      <4>1. unmap(t, stack_top).out = "panic"
        BY <2>2, <3>5, SMTT(40) DEF UnmapGuardPage, Fail
      <4>2. QED
        BY <4>1, ZenonT(40) DEF unmap
    <3>6. CASE RemapStackPage
      <4>1. update_flags(t, Head(jobs).to, Head(jobs).flags).out = "panic"
        BY <2>2, <3>6, Zenon DEF RemapStackPage, Fail
      <4>2. QED
        BY <4>1, ZenonT(40) DEF update_flags
    <3>7. CASE ClearRegion
      BY <2>2, <3>2, <3>7, ClearPanics, SMTT(40)
    <3>8. CASE MarkAndLoad
      <4>1. OddFrames \/ RegionTooSmall
        BY <2>2, <3>8, MarkPanics, SMTT(40)
      <4>2. RegionTooSmall' = RegionTooSmall
        BY <2>0, <3>8, Zenon DEF RegionTooSmall, SameMap, MarkAndLoad
      <4>3. QED
        BY <3>2, <4>1, <4>2, SMTT(40) DEF Explained
    <3>9. QED
      BY <2>2, <3>3, <3>4, <3>5, <3>6, <3>7, <3>8, ZenonT(40) DEF KNext, BootStep, Boot, NextJob,
        CreateFrameAllocator, CreateVirtualAllocator, HeapNext, AllocatedMemoryNew, ReservePhysical,
        StackFault, KHalt, kvars, vars
  <2>3. QED
    BY <2>1, <2>2, SMTT(40)
<1>3. QED
  BY <1>1, <1>2, AlwaysFlow, AlwaysTable, AlwaysMarked, PTL DEF KSpec
=============================================================================
