----------------------------- MODULE PageTable -----------------------------
(***************************************************************************)
(* A RecursivePageTable and its callers.  map_contiguous and               *)
(* unmap_contiguous are loops that stop at the first page that fails, with *)
(* the pages before it done: a job holds the loop, and one step is one     *)
(* page.  The table is not shared, so nothing else runs during a job.      *)
(*                                                                         *)
(* asked is a history variable: the pages that map was called for.         *)
(***************************************************************************)
EXTENDS PageTableOps, FiniteSets

CONSTANTS
  Root,       \* the frame that new allocates for the level 4 table
  Pools,      \* the frames that the allocator may give to one call of map
  Froms, Tos, \* addresses that callers pass
  Flags,
  MaxPages    \* bound: pages of one map_contiguous

(* FrameAllocator (frame_allocation.rs:11) gives bases of distinct frames. *)
ASSUME PoolsAssumption ==
  /\ Root \in Nat /\ Aligned(Root)
  /\ \A pool \in Pools :
       /\ pool \in Seq(Nat)
       /\ \A i \in 1..Len(pool) : Aligned(pool[i])
       /\ \A i, j \in 1..Len(pool) : i # j => pool[i] # pool[j]

(* Addresses to map to have four indices and an offset, and no sign bits:  *)
(* a call does not run over the end of the address space.                  *)
ASSUME AddressAssumption ==
  /\ Froms \subseteq Nat /\ Tos \subseteq Nat
  /\ \A to \in Tos : PageOf(to) + MaxPages <= Fanout * Fanout * Fanout * Fanout
ASSUME FlagsAssumption == Flags \subseteq PageTableFlags
ASSUME MaxPagesAssumption == MaxPages \in Nat \ {0}

VARIABLES
  t,    \* the page table, [mem, lvl4]
  job,  \* the loop in progress, [op, from, to, flags, left]
  out,  \* how the last call ended
  asked

vars == <<t, job, out, asked>>

Idle == [op |-> "idle", from |-> 0, to |-> 0, flags |-> {}, left |-> 0]

Init ==
  /\ t = new(Root)
  /\ job = Idle
  /\ out = "Ok"
  /\ asked = {}

Halted == out = "panic"

(* What alloc may return: frames that are not page tables already.         *)
Fresh(pool) == \A i \in 1..Len(pool) : pool[i] \notin DOMAIN t.mem

map_contiguous(pages, from, to, flags) ==
  /\ ~Halted /\ job = Idle
  /\ job' = [op |-> "map", from |-> from, to |-> to, flags |-> flags, left |-> pages]
  /\ UNCHANGED <<t, out, asked>>

(* Callers only unmap pages outside the range of the recursive entry.      *)
unmap_contiguous(pages, address) ==
  /\ ~Halted /\ job = Idle
  /\ \A k \in 0..(pages - 1) : ~Reserved(address + k * PAGE_SIZE)
  /\ job' = [op |-> "unmap", from |-> 0, to |-> address, flags |-> {}, left |-> pages]
  /\ UNCHANGED <<t, out, asked>>

(* The next page, or the end of the loop at the first page that fails; a   *)
(* panic stops the machine in the middle of it.                            *)
Advance(result) ==
  /\ out' = result
  /\ job' = CASE result = "Ok" ->
                   [job EXCEPT !.from = @ + PAGE_SIZE, !.to = @ + PAGE_SIZE, !.left = @ - 1]
              [] result = "panic" -> job
              [] OTHER -> Idle

(* Mutant: the loop runs once more than there are pages.                   *)
PagesLeftOrDone == job.left >= 0

PagesLeft == job.left > 0

MapPage ==
  /\ ~Halted /\ job.op = "map" /\ PagesLeft
  /\ \E pool \in Pools :
       /\ Fresh(pool)
       /\ LET r == map(t, pool, job.from, job.to, job.flags)
          IN  t' = r.t /\ Advance(r.out)
  /\ asked' = asked \cup {PageOf(job.to)}

UnmapPage ==
  /\ job.op = "unmap" /\ PagesLeft
  /\ LET r == unmap(t, job.to)
     IN  t' = r.t /\ Advance(r.out)
  /\ UNCHANGED asked

JobReturns ==
  /\ job # Idle /\ job.left = 0
  /\ job' = Idle /\ out' = "Ok"
  /\ UNCHANGED <<t, asked>>

UpdateFlags(to, flags) ==
  /\ ~Halted /\ job = Idle
  /\ ~Reserved(to)
  /\ LET r == update_flags(t, to, flags)
     IN  t' = r.t /\ out' = r.out
  /\ UNCHANGED <<job, asked>>

Halt == Halted /\ UNCHANGED vars

Next ==
  \/ \E pages \in 0..MaxPages, from \in Froms, to \in Tos, flags \in Flags :
       map_contiguous(pages, from, to, flags)
  \/ \E pages \in 0..MaxPages, address \in Tos : unmap_contiguous(pages, address)
  \/ MapPage
  \/ UnmapPage
  \/ JobReturns
  \/ \E to \in Tos, flags \in Flags : UpdateFlags(to, flags)
  \/ Halt

Spec == Init /\ [][Next]_vars

-----------------------------------------------------------------------------
(* Every table is a full table of entries, the root is one, and a job is   *)
(* within its bound.                                                       *)
TypeOK ==
  /\ t = [mem |-> t.mem, lvl4 |-> t.lvl4]
  /\ DOMAIN t.mem \subseteq Nat /\ t.lvl4 = Root /\ Root \in DOMAIN t.mem
  /\ \A f \in DOMAIN t.mem : \A i \in Indices :
       t.mem[f][i] = Entry(t.mem[f][i].addr, t.mem[f][i].flags) /\ t.mem[f][i].addr \in Nat
  /\ job.op \in {"idle", "map", "unmap"} /\ job.left \in 0..MaxPages

(* The tables at each level below the root, the recursive entry apart.     *)
Below(tables, entries) ==
  { t.mem[x[1]][x[2]].addr : x \in {y \in (tables \cap DOMAIN t.mem) \X entries : ~is_unused(t.mem[y[1]][y[2]])} }
Level3 == Below({Root}, Indices \ {RECURSIVE_INDEX})
Level2 == Below(Level3, Indices)
Level1 == Below(Level2, Indices)

(* The slots that hold links: entries of levels 4, 3 and 2.                *)
Links ==
  { x \in (({Root} \cup Level3 \cup Level2) \cap DOMAIN t.mem) \X Indices :
      x # <<Root, RECURSIVE_INDEX>> /\ ~is_unused(t.mem[x[1]][x[2]]) }

(* map (page_table.rs:53): the tables form a tree of four levels.  Two     *)
(* links never lead to one table, no link leads back up, every link leads  *)
(* to a table and every table is linked, also after a call that failed     *)
(* with the path half built.  The recursive entry (page_table.rs:41) stays *)
(* what new made it: a writable link from the root to itself.              *)
TablesFormTree ==
  /\ \A x, y \in Links : t.mem[x[1]][x[2]].addr = t.mem[y[1]][y[2]].addr => x = y
  /\ Root \notin Level3 \cup Level2 \cup Level1
  /\ DOMAIN t.mem = {Root} \cup Level3 \cup Level2 \cup Level1
  /\ t.mem[Root][RECURSIVE_INDEX] = Entry(Root, flags_rw)

(* unmap (page_table.rs:186, "TODO: free empty page tables") gives no      *)
(* table back, yet the memory of the tables is bounded: it never exceeds   *)
(* one table for every prefix of the pages that were ever asked for, with  *)
(* whatever failures, unmappings and new mappings of them in between.      *)
TablesBounded ==
  LET pages == { p \in asked : ~Reserved(p * PAGE_SIZE) }
  IN  Cardinality(DOMAIN t.mem) <=
        1 + Cardinality({ p \div Fanout : p \in pages })
          + Cardinality({ p \div (Fanout * Fanout) : p \in pages })
          + Cardinality({ p \div (Fanout * Fanout * Fanout) : p \in pages })

(* map's assert!(entry.is_unused()) (page_table.rs:72) never fails: only a *)
(* caller that asks for a misaligned physical address makes map panic.     *)
PanicsOnlyMisaligned == Halted => ~Aligned(job.from)

(* The pages that can be mapped, and what each is mapped to.               *)
UserPages ==
  { p \in 0..(Fanout * Fanout * Fanout * Fanout - 1) : ~Reserved(p * PAGE_SIZE) }
Translations == [p \in UserPages |-> Lookup(t, p * PAGE_SIZE)]

(* map (page_table.rs:61,75,94): a page that cannot be mapped changes no   *)
(* translation, though tables built for it on the way may stay behind; and *)
(* a page that is mapped is mapped to what the caller asked.               *)
MapAllOrNothing ==
  [][job.op = "map" /\ job.left > 0 =>
       Translations' = IF out' = "Ok"
                       THEN [Translations EXCEPT ![PageOf(job.to)] = Entry(job.from, job.flags)]
                       ELSE Translations]_vars

(* The entries that the calls of map_contiguous ask for.                   *)
AskedEntries ==
  { Entry(from + k * PAGE_SIZE, flags) : from \in Froms, k \in 0..MaxPages, flags \in Flags }

(* The address space of the pages outside the range of the recursive entry. *)
Space == INSTANCE AddressSpace WITH
  Pages <- UserPages,
  Entries <- AskedEntries,
  Unmapped <- Unused,
  space <- Translations

(* The calls of map, update_flags and unmap (page_table.rs:53,107,181)     *)
(* implement it: a step changes the translation of one page or none, maps  *)
(* only a free page and keeps the frame of a page whose flags it changes.  *)
ImplementsAddressSpace == Space!Spec
=============================================================================
