---------------------------- MODULE MCTextWriter ----------------------------
(* Glyphs of two by two pixels and tabs of three characters.               *)
EXTENDS TextWriter

(* Two cells by two, the same with pixels to spare on both sides, three by *)
(* one, and screens without a column or without a line.                    *)
MCDimensions == { <<4, 4>>, <<5, 5>>, <<7, 2>>, <<1, 4>>, <<4, 1>> }

(* "A", a line feed, a character that truncation turns into "A" with a     *)
(* line feed behind it, an unknown character after a tab.                  *)
MCStrings == { <<65>>, <<10>>, <<321, 10>>, <<9, 200>> }

(* No region, and two of different colours.                                *)
MCRamMaps == { <<>>, <<"Usable", "BadMemory">>, <<"Framebuffer", "AcpiNvs">> }
=============================================================================
