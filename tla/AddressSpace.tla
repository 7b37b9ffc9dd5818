---------------------------- MODULE AddressSpace ----------------------------
(***************************************************************************)
(* What a page table promises: a partial map from pages to entries, which  *)
(* changes one page at a time.  A page is mapped only while it is free and *)
(* never inside the reserved pages (the range of the recursive entry);     *)
(* whatever else happens inside the tables is not seen here.               *)
(***************************************************************************)
CONSTANTS Pages, Entries, Flags, Unmapped

VARIABLE space   \* [Pages -> Entries]

Init == space = [p \in Pages |-> Unmapped]

OnlyChanges(p) == space' = [space EXCEPT ![p] = space'[p]]

Map(p) ==
  /\ space[p] = Unmapped
  /\ space'[p] \in Entries /\ OnlyChanges(p)

Unmap(p) ==
  /\ space[p] # Unmapped
  /\ space'[p] = Unmapped /\ OnlyChanges(p)

(* The flags of a mapped page are replaced and its frame is kept.          *)
UpdateFlags(p) ==
  /\ space[p] # Unmapped
  /\ space'[p].flags \in Flags
  /\ space'[p] = [space[p] EXCEPT !.flags = space'[p].flags] /\ OnlyChanges(p)

Next == \E p \in Pages : Map(p) \/ Unmap(p) \/ UpdateFlags(p)

Spec == Init /\ [][Next]_space
=============================================================================
