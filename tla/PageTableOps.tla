---------------------------- MODULE PageTableOps ----------------------------
(***************************************************************************)
(* The operations of src/src/memory/paging/page_table.rs, as operators on  *)
(* the value of a RecursivePageTable: [mem, lvl4], where mem gives the     *)
(* contents of every table by its physical address, and lvl4 is the        *)
(* address of the root.  Addresses are byte addresses; PAGE_SIZE (4096)    *)
(* and Fanout (512 entries per table) are scaled down by the models.       *)
(*                                                                         *)
(* Operations that build tables take "pool", the frames that the frame     *)
(* allocator answers with before it fails, and return what is left of it.  *)
(***************************************************************************)
EXTENDS Integers, Sequences

CONSTANTS PAGE_SIZE, Fanout, RECURSIVE_INDEX

ASSUME PageSizeAssumption == PAGE_SIZE \in Nat \ {0}
ASSUME FanoutAssumption == Fanout \in Nat \ {0, 1}
ASSUME RecursiveIndexAssumption == RECURSIVE_INDEX \in 0..(Fanout - 1)

PageTableFlags == SUBSET {"PRESENT", "WRITABLE", "NO_EXECUTE", "GLOBAL"}

flags_r == {"PRESENT", "NO_EXECUTE"}
flags_rw == {"WRITABLE", "PRESENT", "NO_EXECUTE"}
flags_rx == {"PRESENT"}
flags_rwx == {"WRITABLE", "PRESENT"}

Indices == 0..(Fanout - 1)

(* An entry of the hardware: zero is unused, whatever wrote it.            *)
Entry(addr, flags) == [addr |-> addr, flags |-> flags]
Unused == Entry(0, {})
is_unused(e) == e = Unused

EmptyTable == [i \in Indices |-> Unused]

(* set_addr of the x86_64 crate asserts that the address is aligned, and   *)
(* so does new_page_table_level.                                           *)
Aligned(addr) == addr % PAGE_SIZE = 0

PageOf(addr) == addr \div PAGE_SIZE

(* Mutant: level 2 is indexed with the bits of level 1.                    *)
PageIndexRepeated(level, addr) ==
  LET p1 == PageOf(addr)
      p3 == p1 \div (Fanout * Fanout)
  IN  <<p1, p1, p3, p3 \div Fanout>>[level] % Fanout

get_page_index(level, addr) ==
  LET p1 == PageOf(addr)
      p2 == p1 \div Fanout
      p3 == p2 \div Fanout
      p4 == p3 \div Fanout
  IN  <<p1, p2, p3, p4>>[level] % Fanout

Reserved(addr) == get_page_index(4, addr) = RECURSIVE_INDEX

(* The root table, in a frame that is aligned: the callers see to it.      *)
new(frame) ==
  [ mem  |-> [f \in {frame} |-> [EmptyTable EXCEPT ![RECURSIVE_INDEX] = Entry(frame, flags_rw)]],
    lvl4 |-> frame ]

-----------------------------------------------------------------------------
None == -1

Child(t, table, i) ==
  IF table = None THEN None
  ELSE IF is_unused(t.mem[table][i]) THEN None
  ELSE t.mem[table][i].addr

get_page_table(t, level, to) ==
  LET l3 == Child(t, t.lvl4, get_page_index(4, to))
      l2 == Child(t, l3, get_page_index(3, to))
      l1 == Child(t, l2, get_page_index(2, to))
  IN  <<l1, l2, l3, t.lvl4>>[level]

(* The entry of the page in its level 1 table, Unused without one.         *)
Lookup(t, to) ==
  LET table == get_page_table(t, 1, to)
  IN  IF table = None THEN Unused ELSE t.mem[table][get_page_index(1, to)]

SetEntry(t, table, i, e) == [t EXCEPT !.mem[table][i] = e]

-----------------------------------------------------------------------------
(* Mutant: the allocator answers with the same frame again.                *)
FramesKept(pool) == pool

FramesAfterAlloc(pool) == Tail(pool)

(* A frame that is used as a table from now on, cleared.                   *)
new_page_table_level(mem, frame) ==
  [f \in DOMAIN mem \cup {frame} |-> IF f = frame THEN EmptyTable ELSE mem[f]]

(* One turn of the loop of map that creates the missing levels; s is       *)
(* [t, pool, table, out], where table is "current_table".                  *)
Link(s, new_level, to) ==
  LET i      == get_page_index(new_level, to)
      frame  == Head(s.pool)
      linked == SetEntry(s.t, s.table, i, Entry(frame, flags_rwx))
  IN  IF s.out # "Ok" THEN s
      ELSE IF ~is_unused(s.t.mem[s.table][i]) THEN [s EXCEPT !.out = "panic"]
      ELSE IF s.pool = <<>> THEN [s EXCEPT !.out = "TableAllocationFailed"]
      ELSE IF ~Aligned(frame) THEN [s EXCEPT !.out = "panic"]
      ELSE [ t     |-> [linked EXCEPT !.mem = new_page_table_level(@, frame)],
             pool  |-> FramesAfterAlloc(s.pool),
             table |-> frame,
             out   |-> "Ok" ]

(* The levels below "level" that lead to the page, created top down.       *)
CreateLevels(t, pool, level, to) ==
  LET s0 == [t |-> t, pool |-> pool, table |-> get_page_table(t, level, to), out |-> "Ok"]
      s4 == IF level >= 4 THEN Link(s0, 4, to) ELSE s0
      s3 == IF level >= 3 THEN Link(s4, 3, to) ELSE s4
  IN  IF level >= 2 THEN Link(s3, 2, to) ELSE s3

(* Mutant: the levels are created from the root, whatever exists.          *)
HighestLevel(t, to) == 4

LowestLevel(t, to) ==
  CHOOSE level \in 1..4 :
    /\ get_page_table(t, level, to) # None
    /\ \A l \in 1..(level - 1) : get_page_table(t, l, to) = None

(* Mutant: map does not look whether the page is mapped.                   *)
NeverMapped(e) == FALSE

already_mapped(e) == ~is_unused(e)

map(t, pool, from, to, flags) ==
  LET s == CreateLevels(t, pool, LowestLevel(t, to), to)
      i == get_page_index(1, to)
      Return(out) == [t |-> s.t, pool |-> s.pool, out |-> out]
  IN  IF Reserved(to)
      THEN [t |-> t, pool |-> pool, out |-> "AttemptedMappingToReserved"]
      ELSE IF s.out # "Ok" THEN Return(s.out)
      ELSE IF already_mapped(s.t.mem[s.table][i]) THEN Return("AlreadyMapped")
      ELSE IF ~Aligned(from) THEN Return("panic")
      ELSE [ t    |-> SetEntry(s.t, s.table, i, Entry(from, flags)),
             pool |-> s.pool,
             out  |-> "Ok" ]

(* Without a level 1 table nothing is updated and nothing is reported.     *)
update_flags(t, to, flags) ==
  LET table == get_page_table(t, 1, to)
      i     == get_page_index(1, to)
  IN  IF table = None THEN [t |-> t, out |-> "Ok"]
      ELSE IF is_unused(t.mem[table][i]) THEN [t |-> t, out |-> "NotMapped"]
      ELSE [t   |-> SetEntry(t, table, i, Entry(t.mem[table][i].addr, flags)),
            out |-> "Ok"]

translate(t, from) ==
  IF is_unused(Lookup(t, from)) THEN None
  ELSE Lookup(t, from).addr + (from % PAGE_SIZE)

(* Mutant: the entry of the level 1 table goes with the entry of the page. *)
UnmapUnlinksTable(t, address) ==
  IF is_unused(Lookup(t, address)) THEN [t |-> t, out |-> "NotMapped"]
  ELSE [t   |-> SetEntry(t, get_page_table(t, 2, address), get_page_index(2, address), Unused),
        out |-> "Ok"]

unmap(t, address) ==
  IF is_unused(Lookup(t, address)) THEN [t |-> t, out |-> "NotMapped"]
  ELSE [t   |-> SetEntry(t, get_page_table(t, 1, address), get_page_index(1, address), Unused),
        out |-> "Ok"]
=============================================================================
