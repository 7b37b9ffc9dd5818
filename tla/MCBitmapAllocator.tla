------------------------- MODULE MCBitmapAllocator -------------------------
(* Small instances of BitmapAllocator.                                     *)
EXTENDS BitmapAllocator

(* Boot ranges with aligned and unaligned ends, within a byte and across   *)
(* bytes, up to and past the end of a bitmap of three bytes (24 positions).*)
MCSetupRanges ==
  { <<0, 24, FALSE>>, <<3, 21, FALSE>>, <<4, 7, FALSE>>, <<2, 5, TRUE>>,
    <<6, 17, TRUE>>, <<20, 26, TRUE>>, <<188, 193, TRUE>> }

(* Positions 4..11 and 20..23 stay clear.                                  *)
MCTail == { <<0, 24, FALSE>>, <<0, 4, TRUE>>, <<12, 20, TRUE>> }

(* A bitmap of 137 bytes, whose byte 1 alone holds a reserved position.    *)
MCReserved == { <<0, 1096, FALSE>>, <<8, 9, TRUE>> }
=============================================================================
