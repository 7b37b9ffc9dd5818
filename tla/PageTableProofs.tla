-------------------------- MODULE PageTableProofs --------------------------
(***************************************************************************)
(* What RecursivePageTable promises for every fanout, page size and        *)
(* sequence of calls: the tables form a tree, the table implements the     *)
(* address space of AddressSpace, and its memory is bounded by the pages   *)
(* that were asked for.  The facts on its operators are in MemoryLemmas.   *)
(***************************************************************************)
EXTENDS PageTable, MemoryLemmas, FiniteSetTheorems

-----------------------------------------------------------------------------
Jobs ==
  [ op : {"idle", "map", "unmap"}, from : Nat, to : Nat, flags : Flags \cup {{}},
    left : 0..MaxPages ]

(* The allocator gives frames that are aligned.                            *)
AlignedFrames == { f \in Nat : Aligned(f) }

LEMMA PoolsAreAligned ==
  ASSUME NEW pool \in Pools, Fresh(pool)
  PROVE  PoolFor(pool, t.mem, AlignedFrames)
<1>1. /\ pool \in Seq(Nat) /\ Len(pool) \in Nat
      /\ \A i \in 1..Len(pool) : Aligned(pool[i])
      /\ \A i, j \in 1..Len(pool) : i # j => pool[i] # pool[j]
  BY PoolsAssumption
<1>2. \A i \in 1..Len(pool) : pool[i] \in AlignedFrames
  BY <1>1 DEF AlignedFrames
<1>3. pool \in Seq(AlignedFrames)
  BY <1>1, <1>2
<1>4. AlignedFrames \subseteq Nat
  BY DEF AlignedFrames
<1>5. QED
  BY <1>1, <1>3, <1>4 DEF PoolFor, Fresh

JobOk ==
  /\ job \in Jobs
  /\ job.op = "map" => job.flags \in Flags
  /\ job.op = "unmap" => \A k \in 0..(job.left - 1) : ~Reserved(job.to + k * PAGE_SIZE)

(* The inductive invariant: the tree, the pages that an unmap has left are *)
(* not reserved, and a panic is that of a map with pages left.             *)
TableInv ==
  /\ Tree(Root, t) /\ JobOk
  /\ Halted => job.op = "map" /\ job.left > 0 /\ ~Aligned(job.from)

LEMMA TableInvInit == Init => TableInv
<1> SUFFICES ASSUME Init PROVE TableInv
  OBVIOUS
<1>9. Tree(Root, t)
  BY NewIsTree, PoolsAssumption DEF Init
<1>10. JobOk
  BY MaxPagesAssumption DEF Init, Idle, JobOk, Jobs
<1>11. QED
  BY <1>9, <1>10 DEF TableInv, Init, Halted

(* The loop goes to its next page, ends or panics.                         *)
LEMMA AdvanceKeepsJob ==
  ASSUME JobOk, job.left > 0, NEW result, Advance(result)
  PROVE  JobOk' /\ (result = "panic" => job' = job)
<1>1. CASE result = "Ok"
  <2>1. job' = [job EXCEPT !.from = @ + PAGE_SIZE, !.to = @ + PAGE_SIZE, !.left = @ - 1]
    BY <1>1 DEF Advance
  <2>2. job \in Jobs /\ PAGE_SIZE \in Nat
    BY PageSizeAssumption DEF JobOk
  <2>3. job' \in Jobs
    <3>1. /\ job.from + PAGE_SIZE \in Nat /\ job.to + PAGE_SIZE \in Nat
          /\ job.left - 1 \in 0..MaxPages
      BY <2>2, MaxPagesAssumption DEF Jobs
    <3>2. QED
      BY <2>1, <2>2, <3>1, Zenon DEF Jobs
  <2>4. /\ job'.op = job.op /\ job'.flags = job.flags
        /\ job'.to = job.to + PAGE_SIZE /\ job'.left = job.left - 1
    BY <2>1, <2>2 DEF Jobs
  <2>5. ASSUME job.op = "unmap", NEW k \in 0..(job'.left - 1)
        PROVE  ~Reserved(job'.to + k * PAGE_SIZE)
    <3>1. k + 1 \in 0..(job.left - 1)
      BY <2>2, <2>4 DEF Jobs
    <3>2. (k + 1) * PAGE_SIZE = k * PAGE_SIZE + PAGE_SIZE /\ k * PAGE_SIZE \in Nat
      BY <2>2
    <3>3. job'.to + k * PAGE_SIZE = job.to + (k + 1) * PAGE_SIZE
      BY <2>2, <2>4, <3>2 DEF Jobs
    <3>4. QED
      BY <2>5, <3>1, <3>3 DEF JobOk
  <2>6. QED
    BY <1>1, <2>3, <2>4, <2>5 DEF JobOk, Reserved
<1>2. CASE result = "panic"
  BY <1>2 DEF Advance, JobOk, Reserved
<1>3. CASE result # "Ok" /\ result # "panic"
  BY <1>3, MaxPagesAssumption DEF Advance, JobOk, Jobs, Idle
<1>4. QED
  BY <1>1, <1>2, <1>3

LEMMA TableInvStep == TableInv /\ [Next]_vars => TableInv'
<1> SUFFICES ASSUME TableInv, [Next]_vars PROVE TableInv'
  OBVIOUS
<1>1. job \in Jobs /\ Tree(Root, t)
  BY DEF TableInv, JobOk
<1>2. ASSUME NEW pages \in 0..MaxPages, NEW from \in Froms, NEW to \in Tos, NEW flags \in Flags,
             map_contiguous(pages, from, to, flags)
      PROVE  TableInv'
  <2>1. /\ job' = [op |-> "map", from |-> from, to |-> to, flags |-> flags, left |-> pages]
        /\ t' = t /\ out' = out /\ ~Halted
    BY <1>2 DEF map_contiguous
  <2>2. JobOk'
    BY <2>1, AddressAssumption DEF JobOk, Jobs
  <2>3. QED
    BY <1>1, <2>1, <2>2 DEF TableInv, Halted
<1>3. ASSUME NEW pages \in 0..MaxPages, NEW address \in Tos, unmap_contiguous(pages, address)
      PROVE  TableInv'
  <2>1. /\ job' = [op |-> "unmap", from |-> 0, to |-> address, flags |-> {}, left |-> pages]
        /\ t' = t /\ out' = out /\ ~Halted
        /\ \A k \in 0..(pages - 1) : ~Reserved(address + k * PAGE_SIZE)
    BY <1>3 DEF unmap_contiguous
  <2>2. JobOk'
    BY <2>1, AddressAssumption DEF JobOk, Jobs, Reserved
  <2>3. QED
    BY <1>1, <2>1, <2>2 DEF TableInv, Halted
<1>4. CASE MapPage
  <2>1. job.op = "map" /\ job.left > 0 /\ job.flags \in Flags /\ job.from \in Nat /\ job.to \in Nat
    BY <1>1, <1>4 DEF MapPage, PagesLeft, TableInv, JobOk, Jobs
  <2>2. PICK pool \in Pools :
          /\ Fresh(pool)
          /\ t' = map(t, pool, job.from, job.to, job.flags).t
          /\ Advance(map(t, pool, job.from, job.to, job.flags).out)
    BY <1>4 DEF MapPage
  <2> DEFINE r == map(t, pool, job.from, job.to, job.flags)
  <2>3. PoolFor(pool, t.mem, AlignedFrames) /\ job.flags \in PageTableFlags
    BY <2>1, <2>2, PoolsAreAligned, FlagsAssumption, SMTT(40)
  <2>4. Tree(Root, r.t) /\ (r.out = "panic" => ~Aligned(job.from))
    <3>1. Tree(Root, r.t) /\ (r.out = "panic" => Misaligned(job.from, AlignedFrames))
      BY <1>1, <2>1, <2>3, MapKeepsTree, SMTT(40)
    <3>2. QED
      BY <3>1 DEF Misaligned, AlignedFrames
  <2> HIDE DEF r
  <2>5. t' = r.t /\ Advance(r.out) /\ out' = r.out
    BY <2>2 DEF r, Advance
  <2>6. JobOk' /\ (r.out = "panic" => job' = job)
    BY <2>1, <2>5, AdvanceKeepsJob DEF TableInv
  <2>7. QED
    BY <2>1, <2>4, <2>5, <2>6, SMTT(40) DEF TableInv, Halted
<1>5. CASE UnmapPage
  <2> DEFINE r == unmap(t, job.to)
  <2>1. job.op = "unmap" /\ job.left > 0 /\ job.to \in Nat /\ job.left \in Nat
    BY <1>1, <1>5 DEF UnmapPage, PagesLeft, Jobs
  <2>2. ~Reserved(job.to)
    <3>1. 0 \in 0..(job.left - 1) /\ job.to + 0 * PAGE_SIZE = job.to
      BY <2>1, PageSizeAssumption
    <3>2. ~Reserved(job.to + 0 * PAGE_SIZE)
      BY <2>1, <3>1, SMTT(40) DEF TableInv, JobOk
    <3>3. QED
      BY <3>1, <3>2
  <2>3. Tree(Root, r.t) /\ r.out # "panic"
    BY <1>1, <2>1, <2>2, UnmapKeepsTree, SMTT(40)
  <2>4. t' = r.t /\ Advance(r.out) /\ out' = r.out
    BY <1>5 DEF UnmapPage, Advance
  <2> HIDE DEF r
  <2>5. JobOk'
    BY <2>1, <2>4, AdvanceKeepsJob, SMTT(40) DEF TableInv
  <2>6. QED
    BY <2>3, <2>4, <2>5 DEF TableInv, Halted
<1>6. CASE JobReturns
  <2>1. JobOk'
    BY <1>6, MaxPagesAssumption DEF JobReturns, JobOk, Jobs, Idle
  <2>2. QED
    BY <1>1, <1>6, <2>1, SMTT(40) DEF JobReturns, TableInv, Halted
<1>7. ASSUME NEW to \in Tos, NEW flags \in Flags, UpdateFlags(to, flags)
      PROVE  TableInv'
  <2> DEFINE r == update_flags(t, to, flags)
  <2>1. t' = r.t /\ out' = r.out /\ job' = job /\ ~Reserved(to)
    BY <1>7 DEF UpdateFlags
  <2>2. Tree(Root, r.t) /\ r.out # "panic"
    BY <1>1, <2>1, AddressAssumption, FlagsAssumption, UpdateKeepsTree, SMTT(40)
  <2> HIDE DEF r
  <2>3. QED
    BY <2>1, <2>2 DEF TableInv, JobOk, Halted, Reserved
<1>8. CASE UNCHANGED vars
  BY <1>8 DEF vars, TableInv, JobOk, Halted, Reserved
<1>9. QED
  BY <1>2, <1>3, <1>4, <1>5, <1>6, <1>7, <1>8, SMTT(40) DEF Next, Halt

LEMMA TableInvariant == Spec => []TableInv
  BY TableInvInit, TableInvStep, PTL DEF Spec

-----------------------------------------------------------------------------
(* The sets of tables of module PageTable are those of a level each.       *)
LevelSet(lv, n) == { f \in DOMAIN t.mem : lv[f] = n }

LEMMA BelowIs ==
  ASSUME IsTable(Root, t), NEW lv, IsTree(Root, t.mem, lv), NEW n \in 2..4, NEW E \in SUBSET Indices,
         \A i \in Indices : i \in E <=> ~(n = 4 /\ i = RECURSIVE_INDEX)
  PROVE  Below(LevelSet(lv, n), E) = LevelSet(lv, n - 1)
<1> DEFINE M == t.mem
<1>1. lv \in [DOMAIN M -> 1..4] /\ \A f \in DOMAIN M : lv[f] = 4 <=> f = Root
  BY DEF IsTree, HasLevels
<1>2. ASSUME NEW f \in DOMAIN M, NEW i \in Indices, IsLink(Root, M, lv, f, i)
      PROVE  M[f][i].addr \in DOMAIN M /\ lv[M[f][i].addr] = lv[f] - 1
  BY <1>2, SMTT(40) DEF IsTree, LinksDown
<1>3. ASSUME NEW g \in Below(LevelSet(lv, n), E)
      PROVE  g \in LevelSet(lv, n - 1)
  <2>1. PICK x \in (LevelSet(lv, n) \cap DOMAIN M) \X E :
          ~is_unused(M[x[1]][x[2]]) /\ g = M[x[1]][x[2]].addr
    BY <1>3 DEF Below
  <2>2. x[1] \in DOMAIN M /\ lv[x[1]] = n /\ x[2] \in E /\ x[2] \in Indices
    BY <2>1 DEF LevelSet
  <2>3. IsLink(Root, M, lv, x[1], x[2])
    BY <1>1, <2>1, <2>2, SMTT(40) DEF IsLink
  <2>4. QED
    BY <1>2, <2>1, <2>2, <2>3, SMTT(40) DEF LevelSet
<1>4. ASSUME NEW g \in LevelSet(lv, n - 1)
      PROVE  g \in Below(LevelSet(lv, n), E)
  <2>1. g \in DOMAIN M /\ lv[g] = n - 1 /\ g # Root
    BY <1>1, <1>4, SMTT(40) DEF LevelSet
  <2>2. PICK f \in DOMAIN M, i \in Indices : IsLink(Root, M, lv, f, i) /\ M[f][i].addr = g
    BY <2>1, SMTT(40) DEF IsTree, AllLinked
  <2>3. lv[f] = n /\ i \in E
    <3>1. lv[f] - 1 = n - 1 /\ lv[f] \in 1..4
      BY <1>1, <1>2, <2>1, <2>2, SMTT(40)
    <3>2. lv[f] = n
      BY <3>1, SMTT(40)
    <3>3. QED
      BY <1>1, <2>2, <3>2, SMTT(40) DEF IsLink
  <2>4. <<f, i>> \in (LevelSet(lv, n) \cap DOMAIN M) \X E
    BY <2>2, <2>3, SMTT(40) DEF LevelSet
  <2>5. <<f, i>>[1] = f /\ <<f, i>>[2] = i /\ ~is_unused(M[f][i])
    BY <2>2, SMTT(40) DEF IsLink
  <2>6. QED
    BY <2>2, <2>4, <2>5, SMTT(40) DEF Below
<1>5. QED
  BY <1>3, <1>4, Zenon

LEMMA TreeImplies == Tree(Root, t) => TablesFormTree
<1> SUFFICES ASSUME Tree(Root, t) PROVE TablesFormTree
  OBVIOUS
<1>1. IsTable(Root, t) /\ IsMem(Root, t.mem)
  BY DEF Tree, IsTable
<1>2. PICK lv : IsTree(Root, t.mem, lv)
  BY DEF Tree
<1>3. /\ lv \in [DOMAIN t.mem -> 1..4] /\ Root \in DOMAIN t.mem
      /\ \A f \in DOMAIN t.mem : lv[f] = 4 <=> f = Root
  BY <1>1, <1>2, SMTT(40) DEF IsTree, HasLevels, IsMem
<1>4. {Root} = LevelSet(lv, 4)
  BY <1>3 DEF LevelSet
<1>5. Level3 = LevelSet(lv, 3)
  <2>1. /\ Indices \ {RECURSIVE_INDEX} \in SUBSET Indices
        /\ \A i \in Indices : i \in Indices \ {RECURSIVE_INDEX} <=> ~(4 = 4 /\ i = RECURSIVE_INDEX)
    OBVIOUS
  <2>2. Below(LevelSet(lv, 4), Indices \ {RECURSIVE_INDEX}) = LevelSet(lv, 4 - 1)
    BY <1>1, <1>2, <2>1, BelowIs, SMTT(40)
  <2>3. QED
    BY <1>4, <2>2, SMTT(40) DEF Level3
<1>6. Level2 = LevelSet(lv, 2)
  <2>1. Indices \in SUBSET Indices /\ \A i \in Indices : i \in Indices <=> ~(3 = 4 /\ i = RECURSIVE_INDEX)
    OBVIOUS
  <2>2. Below(LevelSet(lv, 3), Indices) = LevelSet(lv, 3 - 1)
    BY <1>1, <1>2, <2>1, BelowIs
  <2>3. QED
    BY <1>5, <2>2 DEF Level2
<1>7. Level1 = LevelSet(lv, 1)
  <2>1. Indices \in SUBSET Indices /\ \A i \in Indices : i \in Indices <=> ~(2 = 4 /\ i = RECURSIVE_INDEX)
    OBVIOUS
  <2>2. Below(LevelSet(lv, 2), Indices) = LevelSet(lv, 2 - 1)
    BY <1>1, <1>2, <2>1, BelowIs
  <2>3. QED
    BY <1>6, <2>2 DEF Level1
<1>8. Root \notin Level3 \cup Level2 \cup Level1
  BY <1>3, <1>5, <1>6, <1>7, SMTT(40) DEF LevelSet
<1>9. DOMAIN t.mem = {Root} \cup Level3 \cup Level2 \cup Level1
  <2>1. \A f \in DOMAIN t.mem : lv[f] = 4 \/ lv[f] = 3 \/ lv[f] = 2 \/ lv[f] = 1
    BY <1>3
  <2>2. QED
    BY <1>4, <1>5, <1>6, <1>7, <2>1, SMTT(40) DEF LevelSet
<1>10. ASSUME NEW x \in Links
       PROVE  x = <<x[1], x[2]>> /\ IsLink(Root, t.mem, lv, x[1], x[2])
  <2>1. /\ x = <<x[1], x[2]>> /\ x # <<Root, RECURSIVE_INDEX>> /\ ~is_unused(t.mem[x[1]][x[2]])
        /\ x[1] \in {Root} \cup Level3 \cup Level2 /\ x[1] \in DOMAIN t.mem /\ x[2] \in Indices
    BY DEF Links
  <2>2. lv[x[1]] > 1
    BY <1>4, <1>5, <1>6, <2>1 DEF LevelSet
  <2>3. QED
    BY <2>1, <2>2 DEF IsLink
<1>11. ASSUME NEW x \in Links, NEW y \in Links, t.mem[x[1]][x[2]].addr = t.mem[y[1]][y[2]].addr
       PROVE  x = y
  <2>1. x = <<x[1], x[2]>> /\ IsLink(Root, t.mem, lv, x[1], x[2]) /\ y = <<y[1], y[2]>> /\ IsLink(Root, t.mem, lv, y[1], y[2])
    BY <1>10, SMTT(40)
  <2>2. x[1] = y[1] /\ x[2] = y[2]
    BY <1>2, <1>11, <2>1 DEF IsTree, LinksApart, IsLink
  <2>3. QED
    BY <2>1, <2>2
<1>12. t.mem[Root][RECURSIVE_INDEX] = Entry(Root, flags_rw)
  BY <1>2 DEF IsTree
<1>13. QED
  BY <1>8, <1>9, <1>11, <1>12, SMTT(40) DEF TablesFormTree

-----------------------------------------------------------------------------
(* RecursivePageTable (page_table.rs:25): every frame that serves as a     *)
(* table holds a full table of entries, for every fanout.                  *)
THEOREM TableTypeCorrect == Spec => []TypeOK
<1>1. TableInv => TypeOK
  <2> SUFFICES ASSUME TableInv PROVE TypeOK
    OBVIOUS
  <2>1. IsTable(Root, t) /\ IsMem(Root, t.mem) /\ job \in Jobs
    BY DEF TableInv, Tree, IsTable, JobOk
  <2>2. \A f \in DOMAIN t.mem, i \in Indices : t.mem[f][i] \in AllEntries
    BY <2>1 DEF IsMem
  <2>3. \A e \in AllEntries : e = Entry(e.addr, e.flags) /\ e.addr \in Nat
    BY SMTT(40) DEF AllEntries, Entry
  <2>4. QED
    BY <2>1, <2>2, <2>3 DEF TypeOK, IsTable, IsMem, Jobs
<1>2. QED
  BY <1>1, TableInvariant, PTL

(* map, unmap and update_flags (page_table.rs:53,107,181): for every       *)
(* fanout, every sequence of calls and every allocator that gives fresh    *)
(* frames and fails whenever it likes, the tables form a tree of four      *)
(* levels with the recursive entry in place.                               *)
THEOREM TreeStays == Spec => []TablesFormTree
<1>1. TableInv => TablesFormTree
  BY TreeImplies, SMTT(40) DEF TableInv
<1>2. QED
  BY <1>1, TableInvariant, PTL

(* The assertion of map (page_table.rs:72) never fails: a panic is that of *)
(* a caller with a misaligned physical address.                            *)
THEOREM AssertionHolds == Spec => []PanicsOnlyMisaligned
<1>1. TableInv => PanicsOnlyMisaligned
  BY DEF TableInv, PanicsOnlyMisaligned
<1>2. QED
  BY <1>1, TableInvariant, PTL
-----------------------------------------------------------------------------
(* The steps of a call stay within what the caller asked for.              *)
JobWithin ==
  /\ job.op = "map" => \E from \in Froms, k \in Nat :
                          job.from = from + k * PAGE_SIZE /\ k + job.left <= MaxPages
  /\ PageOf(job.to) + job.left <= Fanout * Fanout * Fanout * Fanout

LEMMA IdleWithin == job' = Idle => JobWithin'
<1>1. PageOf(0) = 0
  BY PageSizeAssumption DEF PageOf
<1>2. QED
  BY <1>1, SpaceSize DEF JobWithin, Idle, PageOf

LEMMA AdvanceWithin ==
  ASSUME JobOk, JobWithin, job.left > 0, NEW result, Advance(result)
  PROVE  JobWithin'
<1> DEFINE B == Fanout * Fanout * Fanout * Fanout
<1>1. CASE result = "Ok"
  <2>1. job' = [job EXCEPT !.from = @ + PAGE_SIZE, !.to = @ + PAGE_SIZE, !.left = @ - 1]
    BY <1>1 DEF Advance
  <2>2. job \in Jobs /\ PAGE_SIZE \in Nat /\ MaxPages \in Nat
    BY PageSizeAssumption, MaxPagesAssumption DEF JobOk
  <2>3. /\ job'.op = job.op /\ job'.from = job.from + PAGE_SIZE
        /\ job'.to = job.to + PAGE_SIZE /\ job'.left = job.left - 1
        /\ job.left \in Nat /\ job.to \in Nat /\ job.from \in Nat
    BY <2>1, <2>2 DEF Jobs
  <2>4. PageOf(job'.to) + job'.left <= B
    <3>1. PageOf(job.to) \in Nat /\ PageOf(job'.to) = PageOf(job.to) + 1
      BY <2>3, PageIs
    <3>2. PageOf(job.to) + job.left <= B /\ B \in Nat
      BY SpaceSize DEF JobWithin
    <3> HIDE DEF B
    <3>3. QED
      BY <2>3, <3>1, <3>2, SMTT(40)
  <2>5. ASSUME job.op = "map"
        PROVE  \E from \in Froms, k \in Nat :
                 job'.from = from + k * PAGE_SIZE /\ k + job'.left <= MaxPages
    <3>1. PICK from \in Froms, k \in Nat :
            job.from = from + k * PAGE_SIZE /\ k + job.left <= MaxPages
      BY <2>5 DEF JobWithin
    <3>2. from \in Nat /\ k * PAGE_SIZE \in Nat /\ (k + 1) * PAGE_SIZE = k * PAGE_SIZE + PAGE_SIZE
      BY <2>2, AddressAssumption
    <3>3. job'.from = from + (k + 1) * PAGE_SIZE /\ (k + 1) + job'.left <= MaxPages
      BY <2>2, <2>3, <3>1, <3>2, SMTT(40)
    <3>4. QED
      BY <3>3
  <2>6. QED
    BY <2>3, <2>4, <2>5 DEF JobWithin, PageOf
<1>2. CASE result = "panic"
  BY <1>2 DEF Advance, JobWithin, PageOf
<1>3. CASE result # "Ok" /\ result # "panic"
  BY <1>3, IdleWithin, SMTT(40) DEF Advance
<1>4. QED
  BY <1>1, <1>2, <1>3, SMTT(40)

LEMMA WithinStep == TableInv /\ JobWithin /\ [Next]_vars => JobWithin'
<1> SUFFICES ASSUME TableInv, JobWithin, [Next]_vars PROVE JobWithin'
  OBVIOUS
<1>1. JobOk
  BY DEF TableInv
<1> DEFINE B == Fanout * Fanout * Fanout * Fanout
<1>2. \A to \in Tos, pages \in 0..MaxPages : PageOf(to) + pages <= B
  <2>1. \A to \in Tos : PageOf(to) \in Nat /\ PageOf(to) + MaxPages <= B
    BY AddressAssumption, PageIs
  <2>2. B \in Nat /\ MaxPages \in Nat
    BY SpaceSize, MaxPagesAssumption
  <2> HIDE DEF B
  <2>3. QED
    BY <2>1, <2>2
<1>3. ASSUME NEW pages \in 0..MaxPages, NEW from \in Froms, NEW to \in Tos, NEW flags \in Flags,
             map_contiguous(pages, from, to, flags)
      PROVE  JobWithin'
  <2>1. job' = [op |-> "map", from |-> from, to |-> to, flags |-> flags, left |-> pages]
    BY <1>3 DEF map_contiguous
  <2>2. from = from + 0 * PAGE_SIZE /\ 0 + pages <= MaxPages
    BY PageSizeAssumption, AddressAssumption, MaxPagesAssumption, SMTT(40)
  <2>3. PageOf(to) + pages <= B
    BY <1>2
  <2>4. QED
    BY <2>1, <2>2, <2>3 DEF JobWithin, PageOf
<1>4. ASSUME NEW pages \in 0..MaxPages, NEW address \in Tos, unmap_contiguous(pages, address)
      PROVE  JobWithin'
  <2>1. job' = [op |-> "unmap", from |-> 0, to |-> address, flags |-> {}, left |-> pages]
    BY <1>4 DEF unmap_contiguous
  <2>2. PageOf(address) + pages <= B
    BY <1>2
  <2>3. QED
    BY <2>1, <2>2 DEF JobWithin, PageOf
<1>5. CASE MapPage
  BY <1>1, <1>5, AdvanceWithin, SMTT(40) DEF MapPage, PagesLeft
<1>6. CASE UnmapPage
  BY <1>1, <1>6, AdvanceWithin, SMTT(40) DEF UnmapPage, PagesLeft
<1>7. CASE JobReturns
  BY <1>7, IdleWithin DEF JobReturns
<1>8. CASE job' = job
  BY <1>8 DEF JobWithin, PageOf
<1>9. QED
  BY <1>3, <1>4, <1>5, <1>6, <1>7, <1>8, SMTT(40) DEF Next, UpdateFlags, Halt, vars

LEMMA WithinInvariant == Spec => [](TableInv /\ JobWithin)
<1>1. Init => JobWithin
  <2>1. PageOf(0) = 0
    BY PageSizeAssumption DEF PageOf
  <2>2. QED
    BY <2>1, SpaceSize DEF Init, JobWithin, Idle
<1>2. QED
  BY <1>1, WithinStep, TableInvInit, TableInvStep, PTL DEF Spec

-----------------------------------------------------------------------------
(* The translations of all user pages, from those of all addresses.        *)
LEMMA SameTranslations ==
  ASSUME SameSpace(t, t')
  PROVE  Translations' = Translations
<1>1. \A p \in UserPages : p * PAGE_SIZE \in Nat /\ ~Reserved(p * PAGE_SIZE)
  BY PageIs DEF UserPages
<1>2. \A p \in UserPages : Lookup(t', p * PAGE_SIZE) = Lookup(t, p * PAGE_SIZE)
  BY <1>1 DEF SameSpace
<1>3. Translations' = [p \in UserPages |-> Lookup(t', p * PAGE_SIZE)]
  BY DEF Translations, UserPages, Reserved, Lookup
<1>4. QED
  BY <1>2, <1>3 DEF Translations

LEMMA ChangedTranslations ==
  ASSUME NEW to \in Nat, ~Reserved(to), Within(to), NEW e, Changed(t, t', to, e)
  PROVE  /\ PageOf(to) \in UserPages
         /\ Translations' = [Translations EXCEPT ![PageOf(to)] = e]
         /\ Translations[PageOf(to)] = Lookup(t, to)
<1> DEFINE page == PageOf(to)
           B == Fanout * Fanout * Fanout * Fanout
<1>1. page \in Nat /\ PageOf(page * PAGE_SIZE) = PageOf(to)
  BY PageIs, SMTT(40)
<1>2. /\ Reserved(page * PAGE_SIZE) <=> Reserved(to)
      /\ Lookup(t, page * PAGE_SIZE) = Lookup(t, to)
  <2>1. \A n : get_page_index(n, page * PAGE_SIZE) = get_page_index(n, to)
    BY <1>1 DEF get_page_index
  <2>2. QED
    BY <2>1, SMTT(40) DEF Reserved, Lookup, get_page_table
<1>3. page \in UserPages
  <2>1. page < B /\ B \in Nat
    BY SpaceSize DEF Within
  <2>2. page \in 0..(B - 1)
    <3> HIDE DEF B, page
    <3>1. QED
      BY <1>1, <2>1, SMTT(40)
  <2>3. QED
    BY <1>2, <2>2 DEF UserPages
<1>4. ASSUME NEW p \in UserPages
      PROVE  /\ p * PAGE_SIZE \in Nat /\ ~Reserved(p * PAGE_SIZE)
             /\ SamePage(p * PAGE_SIZE, to) <=> p = page
  <2>1. p \in Nat /\ p < B /\ ~Reserved(p * PAGE_SIZE)
    <3>1. p \in 0..(B - 1) /\ B \in Nat
      BY SpaceSize, SMTT(40) DEF UserPages
    <3>2. p \in Nat /\ p < B
      <4> HIDE DEF B
      <4>1. QED
        BY <3>1, SMTT(40)
    <3>3. QED
      BY <3>2, SMTT(40) DEF UserPages
  <2>2. p * PAGE_SIZE \in Nat /\ PageOf(p * PAGE_SIZE) = p
    BY <2>1, PageIs, SMTT(40)
  <2>3. Within(p * PAGE_SIZE)
    BY <2>1, <2>2, SMTT(40) DEF Within
  <2>4. QED
    BY <2>1, <2>2, <2>3, SamePageIs, SMTT(40)
<1> HIDE DEF page
<1>5. \A p \in UserPages :
        Lookup(t', p * PAGE_SIZE) = IF p = page THEN e ELSE Lookup(t, p * PAGE_SIZE)
  BY <1>4, SMTT(40) DEF Changed
<1>6. Translations' = [p \in UserPages |-> Lookup(t', p * PAGE_SIZE)]
  BY DEF Translations, UserPages, Reserved, Lookup
<1>7. Translations' = [Translations EXCEPT ![page] = e]
  BY <1>5, <1>6, ZenonT(40) DEF Translations
<1>8. Translations[page] = Lookup(t, to)
  BY <1>2, <1>3, SMTT(40) DEF Translations
<1>9. QED
  BY <1>3, <1>7, <1>8, SMTT(40) DEF page

(* One page of map_contiguous.                                             *)
LEMMA MapPageDoes ==
  ASSUME TableInv, JobWithin, MapPage
  PROVE  \/ /\ out' = "Ok" /\ PageOf(job.to) \in UserPages
            /\ Translations[PageOf(job.to)] = Unused
            /\ Translations' = [Translations EXCEPT ![PageOf(job.to)] = Entry(job.from, job.flags)]
         \/ out' # "Ok" /\ Translations' = Translations
<1>1. /\ job.op = "map" /\ job.left > 0 /\ job.left \in Nat /\ job.flags \in Flags
      /\ job.from \in Nat /\ job.to \in Nat /\ Tree(Root, t)
  BY DEF MapPage, PagesLeft, TableInv, JobOk, Jobs
<1>2. PICK pool \in Pools :
        /\ Fresh(pool)
        /\ t' = map(t, pool, job.from, job.to, job.flags).t
        /\ out' = map(t, pool, job.from, job.to, job.flags).out
  BY DEF MapPage, Advance
<1>3. PoolFor(pool, t.mem, AlignedFrames) /\ job.flags \in PageTableFlags
  BY <1>1, <1>2, PoolsAreAligned, FlagsAssumption, SMTT(40)
<1> DEFINE r == map(t, pool, job.from, job.to, job.flags)
           e == Entry(job.from, job.flags)
<1>4. MapDid(t, r, job.to, e)
  BY <1>1, <1>3, MapEffect, ZenonT(40)
<1> HIDE DEF r
<1>5. t' = r.t /\ out' = r.out
  BY <1>2, SMTT(40) DEF r
<1>6. CASE out' # "Ok"
  BY <1>4, <1>5, <1>6, SameTranslations, SMTT(40) DEF MapDid
<1>7. CASE out' = "Ok"
  <2>1. ~Reserved(job.to) /\ Lookup(t, job.to) = Unused /\ Changed(t, t', job.to, e)
    BY <1>4, <1>5, <1>7, SMTT(40) DEF MapDid
  <2>2. Within(job.to)
    BY <1>1, SpaceSize, PageIs, SMTT(40) DEF JobWithin, Within
  <2>3. QED
    BY <1>1, <1>7, <2>1, <2>2, ChangedTranslations, SMTT(40)
<1>8. QED
  BY <1>6, <1>7, SMTT(40)

(* map_contiguous (page_table.rs:61,75,94): for every fanout, page size    *)
(* and sequence of calls, a page that cannot be mapped changes no          *)
(* translation, and one that is mapped changes its own only.               *)
THEOREM MapsAllOrNothing == Spec => MapAllOrNothing
<1> DEFINE A == job.op = "map" /\ job.left > 0 =>
                  Translations' = IF out' = "Ok"
                                  THEN [Translations EXCEPT ![PageOf(job.to)] = Entry(job.from, job.flags)]
                                  ELSE Translations
<1>1. ASSUME TableInv, JobWithin, [Next]_vars
      PROVE  [A]_vars
  <2>1. CASE MapPage
    BY <1>1, <2>1, MapPageDoes
  <2>2. CASE UNCHANGED vars
    BY <2>2
  <2>3. CASE job = Idle \/ job.left = 0 \/ job.op = "unmap"
    BY <2>3 DEF Idle
  <2>4. QED
    BY <1>1, <2>1, <2>2, <2>3
   , ZenonT(40) DEF Next, map_contiguous, unmap_contiguous, UnmapPage, JobReturns, UpdateFlags, Halt
<1>2. QED
  BY <1>1, WithinInvariant, PTL DEF Spec, MapAllOrNothing

-----------------------------------------------------------------------------
(* The steps that write an entry of a mapped page.                         *)
LEMMA UnmapPageDoes ==
  ASSUME TableInv, JobWithin, UnmapPage
  PROVE  \/ Translations' = Translations
         \/ \E p \in UserPages : /\ Translations[p] # Unused
                                 /\ Translations' = [Translations EXCEPT ![p] = Unused]
<1>1. /\ job.op = "unmap" /\ job.left > 0 /\ job.left \in Nat /\ job.to \in Nat /\ Tree(Root, t)
  BY DEF UnmapPage, PagesLeft, TableInv, JobOk, Jobs
<1>2. ~Reserved(job.to)
  <2>1. 0 \in 0..(job.left - 1) /\ job.to + 0 * PAGE_SIZE = job.to
    BY <1>1, PageSizeAssumption
  <2>2. ~Reserved(job.to + 0 * PAGE_SIZE)
    BY <1>1, <2>1, SMTT(40) DEF TableInv, JobOk
  <2>3. QED
    BY <2>1, <2>2
<1>3. t' = unmap(t, job.to).t
  BY DEF UnmapPage
<1>4. t' = t \/ (Lookup(t, job.to) # Unused /\ Changed(t, t', job.to, Unused))
  BY <1>1, <1>2, <1>3, UnmapEffect, SMTT(40)
<1>5. CASE t' = t
  BY <1>5, SameTranslations DEF SameSpace
<1>6. CASE Lookup(t, job.to) # Unused /\ Changed(t, t', job.to, Unused)
  <2>1. Within(job.to)
    BY <1>1, SpaceSize, PageIs, SMTT(40) DEF JobWithin, Within
  <2>2. QED
    BY <1>1, <1>2, <1>6, <2>1, ChangedTranslations, SMTT(40)
<1>7. QED
  BY <1>4, <1>5, <1>6, SMTT(40)

LEMMA UpdateFlagsDoes ==
  ASSUME TableInv, NEW to \in Tos, NEW flags \in Flags, UpdateFlags(to, flags)
  PROVE  \/ Translations' = Translations
         \/ \E p \in UserPages :
              /\ Translations[p] # Unused
              /\ Translations[p] \in AllEntries
              /\ Translations' = [Translations EXCEPT ![p] = Entry(Translations[p].addr, flags)]
<1>1. to \in Nat /\ ~Reserved(to) /\ Tree(Root, t) /\ t' = update_flags(t, to, flags).t /\ job = Idle
  BY AddressAssumption, SMTT(40) DEF UpdateFlags, TableInv
<1> DEFINE e == Entry(Lookup(t, to).addr, flags)
<1>2. t' = t \/ (Lookup(t, to) # Unused /\ Changed(t, t', to, e))
  BY <1>1, FlagsAssumption, UpdateEffect, SMTT(40)
<1>3. CASE t' = t
  BY <1>3, SameTranslations, SMTT(40) DEF SameSpace
<1>4. CASE Lookup(t, to) # Unused /\ Changed(t, t', to, e)
  <2>1. Lookup(t, to) \in AllEntries
    <3>1. PICK lv : IsTree(Root, t.mem, lv)
      BY <1>1 DEF Tree
    <3>2. get_page_table(t, 1, to) # None
      BY <1>4, SMTT(40) DEF Lookup
    <3>3. get_page_table(t, 1, to) \in DOMAIN t.mem /\ get_page_index(1, to) \in Indices
      BY <1>1, <3>1, <3>2, PathIs, IndexInTable, SMTT(40) DEF Tree
    <3>4. QED
      BY <1>1, <3>2, <3>3, SMTT(40) DEF Lookup, Tree, IsTable, IsMem
  <2>2. Within(to)
    BY <1>1, AddressAssumption, MaxPagesAssumption, SpaceSize, PageIs, SMTT(40) DEF Within
  <2>3. QED
    BY <1>1, <1>4, <2>1, <2>2, ChangedTranslations, SMTT(40)
<1>5. QED
  BY <1>2, <1>3, <1>4, SMTT(40)

LEMMA SpaceInit == Init => Space!Init
<1> SUFFICES ASSUME Init PROVE Space!Init
  OBVIOUS
<1>1. TableInv
  BY TableInvInit
<1>2. t.mem[Root] = [EmptyTable EXCEPT ![RECURSIVE_INDEX] = Entry(Root, flags_rw)]
  BY DEF Init, new
<1>3. ASSUME NEW p \in UserPages PROVE Lookup(t, p * PAGE_SIZE) = Unused
  <2> DEFINE q == p * PAGE_SIZE
             i == get_page_index(4, q)
  <2>1. q \in Nat /\ i # RECURSIVE_INDEX
    BY PageIs DEF UserPages, Reserved
  <2>2. i \in Indices
    BY <2>1, IndexInTable
  <2>3. t.mem[Root][i] = Unused
    <3> HIDE DEF i
    <3>1. QED
      BY <1>2, <2>1, <2>2, SMTT(40) DEF EmptyTable
  <2> HIDE DEF q
  <2>4. IsTable(Root, t)
    BY <1>1, SMTT(40) DEF TableInv, Tree
  <2>5. get_page_table(t, 3, q) = None
    BY <2>3, <2>4, LookupIs, SMTT(40) DEF Child, is_unused
  <2>6. get_page_table(t, 1, q) = None
    BY <2>4, <2>5, LookupIs, ZenonT(40) DEF Child
  <2>7. QED
    BY <2>6 DEF Lookup, q
<1>4. QED
  BY <1>3 DEF Space!Init, Translations

LEMMA SpaceStep == TableInv /\ JobWithin /\ [Next]_vars => [Space!Next]_Translations
<1> SUFFICES ASSUME TableInv, JobWithin, [Next]_vars,
                    Translations' # Translations
             PROVE  Space!Next
  OBVIOUS
<1>1. DOMAIN Translations = UserPages
  BY DEF Translations
<1>2. CASE MapPage
  <2> DEFINE p == PageOf(job.to)
             e == Entry(job.from, job.flags)
  <2>1. /\ p \in UserPages /\ Translations[p] = Unused
        /\ Translations' = [Translations EXCEPT ![p] = e]
    BY <1>2, MapPageDoes, SMTT(40)
  <2>2. e \in AskedEntries
    <3>1. job.op = "map" /\ job.flags \in Flags /\ job.left \in Nat
      BY <1>2 DEF MapPage, TableInv, JobOk, Jobs
    <3>2. PICK from \in Froms, k \in Nat :
            job.from = from + k * PAGE_SIZE /\ k + job.left <= MaxPages
      BY <3>1 DEF JobWithin
    <3>3. k \in 0..MaxPages
      BY <3>1, <3>2, MaxPagesAssumption
    <3>4. QED
      BY <3>1, <3>2, <3>3, SMTT(40) DEF AskedEntries
  <2> HIDE DEF p, e
  <2>3. Translations'[p] = e
    BY <1>1, <2>1
  <2>4. Space!OnlyChanges(p)
    BY <2>1, <2>3, Zenon DEF Space!OnlyChanges
  <2>5. Space!Map(p)
    BY <2>1, <2>2, <2>3, <2>4, SMTT(40) DEF Space!Map
  <2>6. QED
    BY <2>1, <2>5, SMTT(40) DEF Space!Next
<1>3. CASE UnmapPage
  <2>1. PICK p \in UserPages : /\ Translations[p] # Unused
                               /\ Translations' = [Translations EXCEPT ![p] = Unused]
    BY <1>3, UnmapPageDoes
  <2>2. Translations'[p] = Unused
    BY <1>1, <2>1
  <2>3. Space!Unmap(p)
    BY <2>1, <2>2, Zenon DEF Space!Unmap, Space!OnlyChanges
  <2>4. QED
    BY <2>3 DEF Space!Next
<1>4. ASSUME NEW to \in Tos, NEW flags \in Flags, UpdateFlags(to, flags)
      PROVE  Space!Next
  <2>1. PICK p \in UserPages :
          /\ Translations[p] # Unused /\ Translations[p] \in AllEntries
          /\ Translations' = [Translations EXCEPT ![p] = Entry(Translations[p].addr, flags)]
    BY <1>4, UpdateFlagsDoes
  <2>2. Translations'[p] = Entry(Translations[p].addr, flags)
    BY <1>1, <2>1
  <2>3. Translations'[p] = [Translations[p] EXCEPT !.flags = flags] /\ Translations'[p].flags = flags
    BY <2>1, <2>2 DEF AllEntries, Entry
  <2>4. Space!UpdateFlags(p)
    BY <2>1, <2>2, <2>3, ZenonT(40) DEF Space!UpdateFlags, Space!OnlyChanges
  <2>5. QED
    BY <2>4 DEF Space!Next
<1>5. CASE t' = t
  BY <1>5, SameTranslations DEF SameSpace
<1>6. QED
  BY <1>2, <1>3, <1>4, <1>5
 , SMTT(40) DEF Next, map_contiguous, unmap_contiguous, JobReturns, Halt, vars

(* RecursivePageTable (page_table.rs:53,107,181): for every fanout and     *)
(* page size, the tables implement an address space in which a step        *)
(* changes the translation of one page or none, whatever tables map builds *)
(* on the way and whether it succeeds.                                     *)
THEOREM TableImplementsSpace == Spec => ImplementsAddressSpace
  BY SpaceInit, SpaceStep, WithinInvariant, PTL DEF Spec, ImplementsAddressSpace, Space!Spec
-----------------------------------------------------------------------------
(* Every table but the root is on the path of a page of A.                 *)
Reached(u, A) ==
  \A f \in DOMAIN u.mem \ {Root} :
    \E n \in 1..3, p \in A :
      ~Reserved(p * PAGE_SIZE) /\ get_page_table(u, n, p * PAGE_SIZE) = f

LEMMA KeepsReached ==
  ASSUME NEW u, Tree(Root, u), NEW u1, PathsKept(u, u1), DOMAIN u1.mem = DOMAIN u.mem,
         NEW A \in SUBSET Nat, Reached(u, A)
  PROVE  Reached(u1, A)
<1> SUFFICES ASSUME NEW f \in DOMAIN u1.mem \ {Root}
             PROVE  \E n \in 1..3, p \in A :
                      ~Reserved(p * PAGE_SIZE) /\ get_page_table(u1, n, p * PAGE_SIZE) = f
  BY DEF Reached
<1>1. PICK n \in 1..3, p \in A :
        ~Reserved(p * PAGE_SIZE) /\ get_page_table(u, n, p * PAGE_SIZE) = f
  BY DEF Reached
<1>2. f # None /\ n \in 1..4 /\ p * PAGE_SIZE \in Nat
  BY PageIs DEF Tree, IsTable, IsMem, None
<1>3. get_page_table(u1, n, p * PAGE_SIZE) = f
  BY <1>1, <1>2, SMTT(40) DEF PathsKept
<1>4. QED
  BY <1>1, <1>3

LEMMA GrowsReached ==
  ASSUME NEW u, Tree(Root, u), NEW u1, Tree(Root, u1), NEW to \in Nat, NEW F, GrewOnPath(u, u1, to, F),
         NEW A \in SUBSET Nat, Reached(u, A)
  PROVE  Reached(u1, A \cup {PageOf(to)})
<1> DEFINE B == A \cup {PageOf(to)}
<1> SUFFICES ASSUME NEW f \in DOMAIN u1.mem \ {Root}
             PROVE  \E n \in 1..3, p \in B :
                      ~Reserved(p * PAGE_SIZE) /\ get_page_table(u1, n, p * PAGE_SIZE) = f
  BY DEF Reached
<1>1. CASE f \in DOMAIN u.mem
  <2>1. PICK n \in 1..3, p \in A :
          ~Reserved(p * PAGE_SIZE) /\ get_page_table(u, n, p * PAGE_SIZE) = f
    BY <1>1 DEF Reached
  <2>2. f # None /\ n \in 1..4 /\ p * PAGE_SIZE \in Nat
    BY <1>1, PageIs, SMTT(40) DEF Tree, IsTable, IsMem, None
  <2>3. get_page_table(u1, n, p * PAGE_SIZE) = f
    BY <2>1, <2>2, SMTT(40) DEF GrewOnPath, PathsKept
  <2>4. p \in B
    OBVIOUS
  <2>5. QED
    BY <2>1, <2>3, <2>4, SMTT(40)
<1>2. CASE f \notin DOMAIN u.mem
  <2>1. ~Reserved(to) /\ \E n \in 1..3 : get_page_table(u1, n, to) = f
    BY <1>2 DEF GrewOnPath
  <2>2. PICK n \in 1..3 : get_page_table(u1, n, to) = f
    BY <2>1
  <2>3. /\ ~Reserved(PageOf(to) * PAGE_SIZE)
        /\ get_page_table(u1, n, PageOf(to) * PAGE_SIZE) = f
    BY <2>1, <2>2, PathOfPage, SMTT(40) DEF Tree
  <2>4. PageOf(to) \in B
    BY SMTT(40)
  <2>5. QED
    BY <2>3, <2>4, ZenonT(40)
<1>3. QED
  BY <1>1, <1>2, SMTT(40)

-----------------------------------------------------------------------------
(* The inductive invariant of asked, on top of TableInv.                   *)
AskedInv == asked \in SUBSET Nat /\ IsFiniteSet(asked) /\ Reached(t, asked)

LEMMA AskedStep == TableInv /\ TableInv' /\ AskedInv /\ [Next]_vars => AskedInv'
<1> SUFFICES ASSUME TableInv, TableInv', AskedInv, [Next]_vars PROVE AskedInv'
  OBVIOUS
<1>1. Tree(Root, t) /\ Tree(Root, t') /\ JobOk
  BY Zenon DEF TableInv, Tree, IsTable, IsMem, IsTree, HasLevels, LinksDown, LinksApart, AllLinked, IsLink
<1>2. asked \in SUBSET Nat /\ IsFiniteSet(asked) /\ Reached(t, asked)
  BY DEF AskedInv
<1>3. ASSUME asked' = asked, Reached(t', asked) PROVE AskedInv'
  <2>1. Reached(t', asked') /\ asked' \in SUBSET Nat /\ IsFiniteSet(asked')
    BY <1>2, <1>3, SMTT(40)
  <2>2. QED
    BY <2>1 DEF AskedInv, Reached, Reserved
<1>4. ASSUME t' = t, asked' = asked PROVE AskedInv'
  BY <1>2, <1>3, <1>4, SMTT(40)
<1>5. CASE MapPage
  <2>1. PICK pool \in Pools :
          Fresh(pool) /\ t' = map(t, pool, job.from, job.to, job.flags).t
    BY <1>5 DEF MapPage
  <2>2. job.from \in Nat /\ job.to \in Nat /\ job.flags \in Flags
    BY <1>1, <1>5, SMTT(40) DEF MapPage, JobOk, Jobs
  <2>3. PoolFor(pool, t.mem, AlignedFrames) /\ job.flags \in PageTableFlags
    BY <2>1, <2>2, PoolsAreAligned, FlagsAssumption, SMTT(40)
  <2>4. GrewOnPath(t, t', job.to, AlignedFrames)
    BY <1>1, <2>1, <2>2, <2>3, MapGrows, ZenonT(40)
  <2>5. Reached(t', asked \cup {PageOf(job.to)})
    BY <1>1, <1>2, <2>2, <2>4, GrowsReached, SMTT(40)
  <2>6. asked' = asked \cup {PageOf(job.to)} /\ PageOf(job.to) \in Nat
    BY <1>5, <2>2, PageIs, SMTT(40) DEF MapPage
  <2>7. asked' \in SUBSET Nat /\ IsFiniteSet(asked')
    BY <1>2, <2>6, FS_AddElement, Zenon
  <2>8. Reached(t', asked')
    BY <2>5, <2>6, SMTT(40)
  <2>9. QED
    BY <2>7, <2>8, SMTT(40) DEF AskedInv, Reached, Reserved
<1>6. CASE UnmapPage
  <2>1. /\ t' = unmap(t, job.to).t /\ asked' = asked
        /\ job.op = "unmap" /\ job.left > 0
    BY <1>6 DEF UnmapPage, PagesLeft
  <2>2. job.to \in Nat /\ ~Reserved(job.to)
    <3>1. job.to \in Nat /\ job.left \in Nat
      BY <1>1, MaxPagesAssumption, SMTT(40) DEF JobOk, Jobs
    <3>2. 0 \in 0..(job.left - 1) /\ job.to + 0 * PAGE_SIZE = job.to
      BY <2>1, <3>1, PageSizeAssumption, SMTT(40)
    <3>3. ~Reserved(job.to + 0 * PAGE_SIZE)
      BY <1>1, <2>1, <3>2, SMTT(40) DEF JobOk
    <3>4. QED
      BY <3>1, <3>2, <3>3, SMTT(40)
  <2>3. PathsKept(t, t') /\ DOMAIN t'.mem = DOMAIN t.mem
    BY <1>1, <2>1, <2>2, UnmapKeepsPaths, SMTT(40)
  <2>4. QED
    BY <1>1, <1>2, <1>3, <2>1, <2>3, KeepsReached, SMTT(40)
<1>7. ASSUME NEW to \in Tos, NEW flags \in Flags, UpdateFlags(to, flags)
      PROVE  AskedInv'
  <2>1. t' = update_flags(t, to, flags).t /\ asked' = asked /\ ~Reserved(to) /\ to \in Nat
    BY <1>7, AddressAssumption DEF UpdateFlags
  <2>2. PathsKept(t, t') /\ DOMAIN t'.mem = DOMAIN t.mem
    BY <1>1, <2>1, FlagsAssumption, UpdateKeepsPaths, SMTT(40)
  <2>3. QED
    BY <1>1, <1>2, <1>3, <2>1, <2>2, KeepsReached, SMTT(40)
<1>8. QED
  BY <1>4, <1>5, <1>6, <1>7, SMTT(40) DEF Next, map_contiguous, unmap_contiguous, JobReturns, Halt, vars

LEMMA AskedInvariant == Spec => [](TableInv /\ AskedInv)
<1>1. Init => AskedInv
  <2> SUFFICES ASSUME Init PROVE AskedInv
    OBVIOUS
  <2>1. DOMAIN t.mem = {Root} /\ asked = {}
    BY DEF Init, new
  <2>2. QED
    BY <2>1, FS_EmptySet DEF AskedInv, Reached
<1>2. QED
  BY <1>1, AskedStep, TableInvInit, TableInvStep, PTL DEF Spec

-----------------------------------------------------------------------------
LEMMA DivTwice ==
  ASSUME NEW p \in Nat, NEW d \in Nat \ {0}
  PROVE  (p \div d) \div Fanout = p \div (d * Fanout)
<1>1. Fanout \in Nat /\ Fanout > 0 /\ d \in Nat /\ d > 0
  BY FanoutAssumption, SMTT(40)
<1>2. PICK x \in Nat, a \in Nat : x = p \div d /\ p = d * x + a /\ a < d
  <2>1. p \div d \in Nat /\ p % d \in Nat /\ p % d < d /\ p = d * (p \div d) + (p % d)
    BY <1>1
  <2>2. QED
    BY <2>1, SMTT(40)
<1>3. PICK y \in Nat, b \in Nat : y = x \div Fanout /\ x = Fanout * y + b /\ b < Fanout
  <2>1. /\ x \div Fanout \in Nat /\ x % Fanout \in Nat /\ x % Fanout < Fanout
        /\ x = Fanout * (x \div Fanout) + (x % Fanout)
    BY <1>1
  <2>2. QED
    BY <2>1
<1>4. PICK c \in Nat : c = d * Fanout /\ c > 0
  BY <1>1
<1>5. PICK m \in Nat : p = c * y + m /\ m < c
  <2>1. d * b + a \in Nat
    BY <1>1
  <2>2. d * x = d * (Fanout * y) + d * b
    BY <1>1, <1>3
  <2>3. d * (Fanout * y) = c * y
    BY <1>1, <1>4, SMTT(40)
  <2>4. d * b <= d * (Fanout - 1)
    BY <1>1, <1>3, SMTT(40)
  <2>5. d * (Fanout - 1) = c - d
    BY <1>1, <1>4, SMTT(40)
  <2>6. p = c * y + (d * b + a)
    BY <1>1, <1>2, <2>1, <2>2, <2>3, SMTT(40)
  <2>7. d * b \in Nat
    BY <1>1, SMTT(40)
  <2>8. d * b + a < c
    BY <1>1, <1>2, <1>4, <2>4, <2>5, <2>7, SMTT(40)
  <2>9. QED
    BY <2>1, <2>6, <2>8, SMTT(40)
<1>6. PICK z \in Nat, l \in Nat : z = p \div c /\ p = c * z + l /\ l < c
  <2>1. p \div c \in Nat /\ p % c \in Nat /\ p % c < c /\ p = c * (p \div c) + (p % c)
    BY <1>4
  <2>2. QED
    BY <2>1
<1>7. z = y
  <2>1. ASSUME z < y PROVE FALSE
    <3>1. c * (z + 1) <= c * y /\ c * (z + 1) = c * z + c
      BY <1>4, <2>1, SMTT(40)
    <3>2. QED
      BY <1>4, <1>5, <1>6, <3>1, SMTT(40)
  <2>2. ASSUME y < z PROVE FALSE
    <3>1. c * (y + 1) <= c * z /\ c * (y + 1) = c * y + c
      BY <1>4, <2>2, SMTT(40)
    <3>2. QED
      BY <1>4, <1>5, <1>6, <3>1, SMTT(40)
  <2>3. QED
    BY <2>1, <2>2, SMTT(40)
<1>8. QED
  BY <1>2, <1>3, <1>4, <1>6, <1>7, ZenonT(40)

(* Pages with a common prefix share the tables of the path above it.       *)
Prefix(n, p) ==
  CASE n = 1 -> p \div Fanout
    [] n = 2 -> p \div (Fanout * Fanout)
    [] n = 3 -> p \div (Fanout * Fanout * Fanout)

LEMMA SharedPath ==
  ASSUME NEW u, IsTable(Root, u), NEW p \in Nat, NEW r \in Nat, NEW n \in 1..3,
         Prefix(n, p) = Prefix(n, r)
  PROVE  get_page_table(u, n, p * PAGE_SIZE) = get_page_table(u, n, r * PAGE_SIZE)
<1> DEFINE a == p * PAGE_SIZE
           b == r * PAGE_SIZE
<1>1. PageOf(a) = p /\ PageOf(b) = r
  BY PageIs
<1>2. Fanout \in Nat \ {0} /\ Fanout * Fanout \in Nat \ {0}
  BY FanoutAssumption
<1>3. ASSUME NEW x \in Nat
      PROVE  /\ (x \div Fanout) \div Fanout = Prefix(2, x)
             /\ ((x \div Fanout) \div Fanout) \div Fanout = Prefix(3, x)
  <2>1. (x \div Fanout) \div Fanout = x \div (Fanout * Fanout)
    BY <1>2, DivTwice, Zenon
  <2>2. (x \div (Fanout * Fanout)) \div Fanout = x \div (Fanout * Fanout * Fanout)
    BY <1>2, DivTwice, Zenon
  <2>3. QED
    BY <2>1, <2>2 DEF Prefix
<1>4. /\ Prefix(1, p) = p \div Fanout /\ Prefix(1, r) = r \div Fanout
  BY SMTT(40) DEF Prefix
<1>5. /\ get_page_index(2, a) = Prefix(1, p) % Fanout /\ get_page_index(2, b) = Prefix(1, r) % Fanout
      /\ get_page_index(3, a) = Prefix(2, p) % Fanout /\ get_page_index(3, b) = Prefix(2, r) % Fanout
      /\ get_page_index(4, a) = Prefix(3, p) % Fanout /\ get_page_index(4, b) = Prefix(3, r) % Fanout
  BY <1>1, <1>3, <1>4, IndexIs, SMTT(40)
<1>6. /\ Prefix(1, p) = Prefix(1, r) => Prefix(2, p) = Prefix(2, r)
      /\ Prefix(2, p) = Prefix(2, r) => Prefix(3, p) = Prefix(3, r)
  <2>1. /\ Prefix(2, p) = Prefix(1, p) \div Fanout /\ Prefix(2, r) = Prefix(1, r) \div Fanout
        /\ Prefix(3, p) = Prefix(2, p) \div Fanout /\ Prefix(3, r) = Prefix(2, r) \div Fanout
    BY <1>3, <1>4, SMTT(40)
  <2>2. QED
    BY <2>1, SMTT(40)
<1> HIDE DEF a, b
<1>7. Prefix(3, p) = Prefix(3, r) => get_page_table(u, 3, a) = get_page_table(u, 3, b)
  BY <1>5, LookupIs, SMTT(40)
<1>8. Prefix(2, p) = Prefix(2, r) => get_page_table(u, 2, a) = get_page_table(u, 2, b)
  BY <1>5, <1>6, <1>7, LookupIs, SMTT(40)
<1>9. Prefix(1, p) = Prefix(1, r) => get_page_table(u, 1, a) = get_page_table(u, 1, b)
  BY <1>5, <1>6, <1>8, LookupIs, SMTT(40)
<1>10. n = 1 \/ n = 2 \/ n = 3
  OBVIOUS
<1>11. QED
  BY <1>7, <1>8, <1>9, <1>10, SMTT(40) DEF a, b

(* The tables of one level, counted.                                       *)
LEMMA TablesOfLevel ==
  ASSUME NEW u, IsTable(Root, u), NEW A \in SUBSET Nat, IsFiniteSet(A), NEW n \in 1..3
  PROVE  LET G == {get_page_table(u, n, p * PAGE_SIZE) : p \in A}
             K == {Prefix(n, p) : p \in A}
         IN  /\ IsFiniteSet(G) /\ IsFiniteSet(K)
             /\ Cardinality(G) <= Cardinality(K)
<1> DEFINE k == [p \in A |-> Prefix(n, p)]
           g == [p \in A |-> get_page_table(u, n, p * PAGE_SIZE)]
<1>1. ASSUME NEW p \in A, NEW r \in A, k[p] = k[r] PROVE g[p] = g[r]
  <2>1. p \in Nat /\ r \in Nat /\ Prefix(n, p) = Prefix(n, r)
    BY <1>1, SMTT(40)
  <2>2. get_page_table(u, n, p * PAGE_SIZE) = get_page_table(u, n, r * PAGE_SIZE)
    BY <2>1, SharedPath, SMTT(40)
  <2>3. QED
    BY <2>2
<1>2. /\ Values(g, A) = {get_page_table(u, n, p * PAGE_SIZE) : p \in A}
      /\ Values(k, A) = {Prefix(n, p) : p \in A}
  BY DEF Values
<1> HIDE DEF g, k
<1>3. /\ IsFiniteSet(Values(g, A)) /\ IsFiniteSet(Values(k, A))
      /\ Cardinality(Values(g, A)) <= Cardinality(Values(k, A))
  BY <1>1, FewerValues, ZenonT(40)
<1>4. QED
  BY <1>2, <1>3, SMTT(40)

LEMMA UnionOfThree ==
  ASSUME NEW S, NEW T, NEW U, IsFiniteSet(S), IsFiniteSet(T), IsFiniteSet(U),
         NEW x, NEW D, D \subseteq {x} \cup S \cup T \cup U
  PROVE  Cardinality(D) <= 1 + Cardinality(S) + Cardinality(T) + Cardinality(U)
<1> DEFINE X == {x}
<1>1. IsFiniteSet(X) /\ Cardinality(X) = 1
  BY FS_Singleton, Zenon
<1> HIDE DEF X
<1>2. \A P, Q : IsFiniteSet(P) /\ IsFiniteSet(Q) =>
        /\ IsFiniteSet(P \cup Q) /\ Cardinality(P \cup Q) \in Nat
        /\ Cardinality(P \cup Q) <= Cardinality(P) + Cardinality(Q)
  <2> SUFFICES ASSUME NEW P, NEW Q, IsFiniteSet(P), IsFiniteSet(Q)
               PROVE  /\ IsFiniteSet(P \cup Q) /\ Cardinality(P \cup Q) \in Nat
                      /\ Cardinality(P \cup Q) <= Cardinality(P) + Cardinality(Q)
    OBVIOUS
  <2>1. /\ IsFiniteSet(P \cup Q)
        /\ Cardinality(P \cup Q) = Cardinality(P) + Cardinality(Q) - Cardinality(P \cap Q)
    BY FS_Union
  <2>2. IsFiniteSet(P \cap Q)
    BY FS_Subset
  <2>3. /\ Cardinality(P) \in Nat /\ Cardinality(Q) \in Nat /\ Cardinality(P \cap Q) \in Nat
        /\ Cardinality(P \cup Q) \in Nat
    BY <2>1, <2>2, FS_CardinalityType, SMTT(40)
  <2>4. QED
    BY <2>1, <2>3
<1>3. IsFiniteSet(X \cup S) /\ Cardinality(X \cup S) <= 1 + Cardinality(S)
  BY <1>1, <1>2
<1>4. /\ IsFiniteSet((X \cup S) \cup T)
      /\ Cardinality((X \cup S) \cup T) <= Cardinality(X \cup S) + Cardinality(T)
  BY <1>2, <1>3, ZenonT(40)
<1>5. /\ IsFiniteSet(((X \cup S) \cup T) \cup U)
      /\ Cardinality(((X \cup S) \cup T) \cup U) <= Cardinality((X \cup S) \cup T) + Cardinality(U)
  BY <1>2, <1>4, SMTT(40)
<1>6. IsFiniteSet(D) /\ Cardinality(D) <= Cardinality(((X \cup S) \cup T) \cup U)
  <2>1. D \in SUBSET (((X \cup S) \cup T) \cup U)
    BY DEF X
  <2>2. QED
    BY <1>5, <2>1, FS_Subset, SMTT(40)
<1>7. /\ Cardinality(S) \in Nat /\ Cardinality(T) \in Nat /\ Cardinality(U) \in Nat
      /\ Cardinality(X \cup S) \in Nat /\ Cardinality((X \cup S) \cup T) \in Nat
      /\ Cardinality(((X \cup S) \cup T) \cup U) \in Nat /\ Cardinality(D) \in Nat
  BY <1>3, <1>4, <1>5, <1>6, FS_CardinalityType, SMTT(40)
<1>8. QED
  BY <1>3, <1>4, <1>5, <1>6, <1>7, SMTT(40)

-----------------------------------------------------------------------------
(* unmap (page_table.rs:186, "TODO: free empty page tables") leaks no      *)
(* memory without bound: whatever failed, was unmapped or mapped again,    *)
(* there is at most one table for every prefix of the pages asked for.     *)
THEOREM TablesStayBounded == Spec => []TablesBounded
<1>1. TableInv /\ AskedInv => TablesBounded
  <2> SUFFICES ASSUME TableInv, AskedInv PROVE TablesBounded
    OBVIOUS
  <2> DEFINE pages == { p \in asked : ~Reserved(p * PAGE_SIZE) }
             G(n) == {get_page_table(t, n, p * PAGE_SIZE) : p \in pages}
             K(n) == {Prefix(n, p) : p \in pages}
  <2>1. IsTable(Root, t)
    BY DEF TableInv, Tree
  <2>2. pages \in SUBSET Nat /\ IsFiniteSet(pages)
    <3>1. pages \in SUBSET asked
      BY SMTT(40)
    <3> HIDE DEF pages
    <3>2. QED
      BY <3>1, FS_Subset, Zenon DEF AskedInv
  <2>3. DOMAIN t.mem \subseteq {Root} \cup G(1) \cup G(2) \cup G(3)
    <3> SUFFICES ASSUME NEW f \in DOMAIN t.mem \ {Root}
                 PROVE  f \in G(1) \/ f \in G(2) \/ f \in G(3)
      OBVIOUS
    <3>1. PICK n \in 1..3, p \in asked :
            ~Reserved(p * PAGE_SIZE) /\ get_page_table(t, n, p * PAGE_SIZE) = f
      BY DEF AskedInv, Reached
    <3>2. p \in pages /\ (n = 1 \/ n = 2 \/ n = 3)
      BY <3>1
    <3> HIDE DEF pages
    <3>3. QED
      BY <3>1, <3>2, SMTT(40)
  <2>4. /\ {p \div Fanout : p \in pages} = K(1)
        /\ {p \div (Fanout * Fanout) : p \in pages} = K(2)
        /\ {p \div (Fanout * Fanout * Fanout) : p \in pages} = K(3)
    BY DEF Prefix
  <2>5. TablesBounded <=> Cardinality(DOMAIN t.mem) <=
          1 + Cardinality({p \div Fanout : p \in pages})
            + Cardinality({p \div (Fanout * Fanout) : p \in pages})
            + Cardinality({p \div (Fanout * Fanout * Fanout) : p \in pages})
    BY DEF TablesBounded
  <2> HIDE DEF pages
  <2>6. \A n \in 1..3 : /\ IsFiniteSet(G(n)) /\ IsFiniteSet(K(n))
                        /\ Cardinality(G(n)) <= Cardinality(K(n))
    BY <2>1, <2>2, TablesOfLevel, ZenonT(40)
  <2> HIDE DEF G, K
  <2>7. /\ IsFiniteSet(G(1)) /\ IsFiniteSet(K(1)) /\ Cardinality(G(1)) <= Cardinality(K(1))
        /\ IsFiniteSet(G(2)) /\ IsFiniteSet(K(2)) /\ Cardinality(G(2)) <= Cardinality(K(2))
        /\ IsFiniteSet(G(3)) /\ IsFiniteSet(K(3)) /\ Cardinality(G(3)) <= Cardinality(K(3))
    BY <2>6, SMTT(40)
  <2>8. /\ Cardinality(G(1)) \in Nat /\ Cardinality(G(2)) \in Nat /\ Cardinality(G(3)) \in Nat
        /\ Cardinality(K(1)) \in Nat /\ Cardinality(K(2)) \in Nat /\ Cardinality(K(3)) \in Nat
    BY <2>7, FS_CardinalityType
  <2>9. Cardinality(DOMAIN t.mem) <=
          1 + Cardinality(G(1)) + Cardinality(G(2)) + Cardinality(G(3))
    BY <2>3, <2>7, UnionOfThree, ZenonT(40)
  <2>10. IsFiniteSet(DOMAIN t.mem)
    <3>1. IsFiniteSet({Root})
      BY FS_Singleton
    <3>2. IsFiniteSet({Root} \cup G(1) \cup G(2) \cup G(3))
      BY <2>7, <3>1, FS_Union, Zenon
    <3>3. QED
      BY <2>3, <3>2, FS_Subset, SMTT(40)
  <2>11. Cardinality(DOMAIN t.mem) \in Nat
    BY <2>10, FS_CardinalityType, SMTT(40)
  <2>12. Cardinality(DOMAIN t.mem) <= 1 + Cardinality(K(1)) + Cardinality(K(2)) + Cardinality(K(3))
    BY <2>7, <2>8, <2>9, <2>11
  <2>13. QED
    BY <2>4, <2>5, <2>12, ZenonT(40)
<1>2. QED
  BY <1>1, AskedInvariant, PTL

=============================================================================
