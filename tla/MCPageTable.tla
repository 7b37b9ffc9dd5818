---------------------------- MODULE MCPageTable ----------------------------
(***************************************************************************)
(* Pages of two bytes, so that page p starts at address 2p, and entry 1 as *)
(* the recursive one.  With two entries in a table pages 8..15 are         *)
(* reserved.                                                               *)
(***************************************************************************)
EXTENDS PageTable

MCRoot == 100

(* The flags of a writable page, and none: with address 0 an unused entry. *)
MCFlags == {{}, flags_rw}

(* None to three frames, as many as one map can need, of five.             *)
MCPools ==
  { <<>>, <<108>>, <<108, 110>>, <<102, 104, 106>> }
=============================================================================
