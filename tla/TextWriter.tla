----------------------------- MODULE TextWriter -----------------------------
(***************************************************************************)
(* VGAWriter (display/vga_text_writer.rs) over a LinearFramebuffer, with   *)
(* the glyph placement of display/vga_text_emulation.rs.  The buffer is    *)
(* kept pixel by pixel; a pixel is the bit of a glyph that was drawn on    *)
(* it, with the two colours.  The kernel's writer always scrolls.          *)
(*                                                                         *)
(* One step writes one character or sets a colour: pending is what is left *)
(* of the function that prints.  lines is a history variable: the last     *)
(* lines of what was printed, as a reader of the log would lay it out.     *)
(***************************************************************************)
EXTENDS Integers, Sequences

CONSTANTS
  VGA_FONT_WIDTH, VGA_FONT_HEIGHT, TAB_SIZE,
  Dimensions,    \* <<width, height>> of the framebuffers
  Strings,       \* what is printed: sequences of code points
  RamMaps,       \* what log_ram_map is given: sequences of region types
  Colors, DEFAULT_COLOR, Black, LightGreen, LightRed, LightBlue, DarkGray,
  MaxPrints      \* bound: calls of the printing functions

ASSUME FontAssumption ==
  VGA_FONT_WIDTH \in Nat \ {0} /\ VGA_FONT_HEIGHT \in Nat \ {0} /\ TAB_SIZE \in Nat
ASSUME ScreensAssumption == Dimensions \subseteq Nat \X Nat
ASSUME TextsAssumption == Strings \subseteq Seq(Nat) /\ RamMaps \subseteq Seq(STRING)

VARIABLES
  overflow_checks, \* whether the build checks arithmetic (profiles differ)
  w,               \* the writer, [dimensions, buffer, column, row, text, background, out]
  pending,         \* the steps left of the running function, as [op, arg]
  lines,
  prints

writer_vars == <<overflow_checks, w, pending, lines, prints>>

Tab == 9
Newline == 10
Space == 32

(* c as u8, then a glyph of the font or the one for unknown characters.    *)
Unknown == 128
get_char_glyph(c) == IF c % 256 > 127 THEN Unknown ELSE c % 256

Cols(v) == v.dimensions[1] \div VGA_FONT_WIDTH
Rows(v) == v.dimensions[2] \div VGA_FONT_HEIGHT

Pixel(glyph, bit, text, background) ==
  [glyph |-> glyph, bit |-> bit, text |-> text, background |-> background]
NoGlyph == -1
Blank(color) == Pixel(NoGlyph, 0, color, color)
LeftByBootLoader == Pixel(NoGlyph, 0, Black, Black)

(* Mutant: text and background are exchanged.                              *)
DrawnInverted(v, c, bit) == Pixel(get_char_glyph(c), bit, v.background, v.text)

Drawn(v, c, bit) == Pixel(get_char_glyph(c), bit, v.text, v.background)

(* The bits of the glyph fill the cell row by row; unwrap panics when the  *)
(* cell is not on the screen.                                              *)
put_char(v, c) ==
  LET width == v.dimensions[1]
      x     == v.column * VGA_FONT_WIDTH
      y     == v.row * VGA_FONT_HEIGHT
      Dx(p) == (p % width) - x
      Dy(p) == (p \div width) - y
      InCell(p) == Dx(p) \in 0..(VGA_FONT_WIDTH - 1) /\ Dy(p) \in 0..(VGA_FONT_HEIGHT - 1)
  IN  IF x + VGA_FONT_WIDTH > width \/ y + VGA_FONT_HEIGHT > v.dimensions[2]
      THEN [v EXCEPT !.out = "panic"]
      ELSE [v EXCEPT !.buffer =
              [p \in DOMAIN @ |->
                 IF InCell(p) THEN Drawn(v, c, Dy(p) * VGA_FONT_WIDTH + Dx(p)) ELSE @[p]]]

Shifted(v, size, shift, fill) ==
  [v EXCEPT !.buffer = [p \in 0..(size - 1) |-> IF p + shift \in DOMAIN @ THEN @[p + shift] ELSE fill[p]]]

Filled(v) == [p \in Nat |-> Blank(v.background)]

Size(v) == v.dimensions[1] * v.dimensions[2]

(* Mutant: the line that becomes free is not filled.                       *)
ScrollWithoutFill(v, layers) == Shifted(v, Size(v), layers * v.dimensions[1], v.buffer)

(* Mutant: the fill writes one layer too many.                             *)
ScrollFillsTooMuch(v, layers) ==
  Shifted(v, Size(v) + v.dimensions[1], layers * v.dimensions[1], Filled(v))

(* ptr::copy moves the buffer up by the layers, the rest is filled.        *)
scroll(v, layers) == Shifted(v, Size(v), layers * v.dimensions[1], Filled(v))

(* On a screen without a line the subtraction overflows: a panic, or the   *)
(* largest number.                                                         *)
new_line(v) ==
  LET u == [v EXCEPT !.column = 0]
  IN  IF Rows(v) = 0 /\ overflow_checks THEN [u EXCEPT !.out = "panic"]
      ELSE IF Rows(v) # 0 /\ u.row >= Rows(v) - 1 THEN scroll(u, VGA_FONT_HEIGHT)
      ELSE [u EXCEPT !.row = @ + 1]

(* Mutant: the line is left one character late.                            *)
WrapLate(v) == IF v.out = "Ok" /\ v.column > Cols(v) THEN new_line(v) ELSE v

Wrap(v) == IF v.out = "Ok" /\ v.column >= Cols(v) THEN new_line(v) ELSE v

write_glyph(v, c) ==
  LET u == put_char(v, c) IN IF u.out # "Ok" THEN u ELSE Wrap([u EXCEPT !.column = @ + 1])

-----------------------------------------------------------------------------
(* The log as a list of lines, each a list of glyphs with their colours,   *)
(* cut to what a screen holds: the reference for the writer.  What fits    *)
(* nowhere is not logged: the writer panics on it.                         *)
HasRoom == Cols(w) > 0 /\ Rows(w) > 0

LastLines(ls) == IF Len(ls) > Rows(w) THEN Tail(ls) ELSE ls

LogLine(ls) == LastLines(Append(ls, <<>>))

LogGlyph(ls, c) ==
  LET g     == [glyph |-> get_char_glyph(c), text |-> w.text, background |-> w.background]
      grown == Append(ls[Len(ls)], g)
      kept  == [ls EXCEPT ![Len(ls)] = grown]
  IN  IF Len(grown) = Cols(w) THEN LogLine(kept) ELSE kept

-----------------------------------------------------------------------------
(* The writer's last text was that of a panic, or it panicked itself.      *)
Halted == w.out # "Ok"

WriterInit ==
  /\ overflow_checks \in BOOLEAN
  /\ \E d \in Dimensions :
       w = [ dimensions |-> d, buffer |-> [p \in 0..(d[1] * d[2] - 1) |-> LeftByBootLoader],
             column |-> 0, row |-> 0, text |-> DEFAULT_COLOR, background |-> Black, out |-> "Ok" ]
  /\ pending = <<>>
  /\ lines = << <<>> >>
  /\ prints = 0

Do(op, arg) == [op |-> op, arg |-> arg]

write_string(s) == [i \in 1..Len(s) |-> Do("char", s[i])]

set_color(color) == << Do("color", color) >>

-----------------------------------------------------------------------------
Call(steps) ==
  /\ pending = <<>> /\ ~Halted /\ prints < MaxPrints
  /\ pending' = steps /\ prints' = prints + 1
  /\ UNCHANGED <<overflow_checks, w, lines>>

_kprint(s) == Call(write_string(s))

(* The colour that was set before is not restored: the default is.         *)
_kprint_color(s, color) == Call(set_color(color) \o write_string(s) \o set_color(DEFAULT_COLOR))

(* A heading, and then the regions.  A glyph stands for each text.         *)
log_ram_map(types) ==
  Call(write_string(<<66, Newline>>) \o [i \in 1..Len(types) |-> Do("region", types[i])])

(* panic_handler with the writer: red from here on, the message, and the   *)
(* processor halts.                                                        *)
PanicWrites(s) ==
  Call(set_color(LightRed) \o write_string(s) \o write_string(<<Newline>>) \o << Do("halt", 0) >>)

kwriter_set_color(color) ==
  /\ pending = <<>> /\ ~Halted
  /\ w' = [w EXCEPT !.text = color] /\ UNCHANGED <<overflow_checks, pending, lines, prints>>

kwriter_set_bg(color) ==
  /\ pending = <<>> /\ ~Halted
  /\ w' = [w EXCEPT !.background = color] /\ UNCHANGED <<overflow_checks, pending, lines, prints>>

-----------------------------------------------------------------------------
Doing(op) ==
  /\ ~Halted /\ pending # <<>> /\ Head(pending).op = op
  /\ UNCHANGED <<overflow_checks, prints>>

WriteGlyph ==
  /\ Doing("char") /\ Head(pending).arg \notin {Tab, Newline}
  /\ w' = write_glyph(w, Head(pending).arg)
  /\ lines' = IF HasRoom THEN LogGlyph(lines, Head(pending).arg) ELSE lines
  /\ pending' = Tail(pending)

WriteNewline ==
  /\ Doing("char") /\ Head(pending).arg = Newline
  /\ w' = Wrap(new_line(w))
  /\ lines' = IF HasRoom THEN LogLine(lines) ELSE lines
  /\ pending' = Tail(pending)

(* write_char calls itself for the spaces, and looks at the column again.  *)
WriteTab ==
  /\ Doing("char") /\ Head(pending).arg = Tab
  /\ pending' = write_string([i \in 1..TAB_SIZE |-> Space]) \o << Do("wrap", 0) >> \o Tail(pending)
  /\ UNCHANGED <<w, lines>>

EndTab ==
  /\ Doing("wrap")
  /\ w' = Wrap(w) /\ pending' = Tail(pending) /\ UNCHANGED lines

SetText ==
  /\ Doing("color")
  /\ w' = [w EXCEPT !.text = Head(pending).arg] /\ pending' = Tail(pending) /\ UNCHANGED lines

region_color(type) ==
  CASE type = "Usable"                   -> LightGreen
    [] type \in {"Reserved", "BadMemory"} -> LightRed
    [] type = "Framebuffer"              -> LightBlue
    [] OTHER                             -> DarkGray

(* The range in the colour of the writer, the type in a colour of its own, *)
(* after which the default is set.                                         *)
LogRegion ==
  /\ Doing("region")
  /\ pending' = write_string(<<91>>) \o set_color(region_color(Head(pending).arg))
               \o write_string(<<84, Newline>>) \o set_color(DEFAULT_COLOR) \o Tail(pending)
  /\ UNCHANGED <<w, lines>>

HaltAfterPanic ==
  /\ Doing("halt")
  /\ w' = [w EXCEPT !.out = "halt"] /\ pending' = Tail(pending) /\ UNCHANGED lines

Halt == Halted /\ UNCHANGED writer_vars

WriterNext ==
  \/ \E s \in Strings : _kprint(s) \/ \E color \in Colors : _kprint_color(s, color)
  \/ \E color \in Colors : kwriter_set_color(color) \/ kwriter_set_bg(color)
  \/ \E types \in RamMaps : log_ram_map(types)
  \/ \E s \in Strings : PanicWrites(s)
  \/ WriteGlyph \/ WriteNewline \/ WriteTab \/ EndTab \/ SetText \/ LogRegion \/ HaltAfterPanic
  \/ Halt

WriterSpec == WriterInit /\ [][WriterNext]_writer_vars

-----------------------------------------------------------------------------
TextColors == Colors \cup {DEFAULT_COLOR, LightGreen, LightRed, LightBlue, DarkGray}

(* The buffer has the pixels of the screen, and the colours are colours.   *)
WriterTypeOK ==
  /\ DOMAIN w.buffer = 0..(Size(w) - 1)
  /\ w.column \in Nat /\ w.row \in Nat
  /\ w.text \in TextColors /\ w.background \in Colors \cup {Black}
  /\ w.out \in {"Ok", "panic", "halt"}

PixelAt(column, row, bit) ==
  w.buffer[ (row * VGA_FONT_HEIGHT + bit \div VGA_FONT_WIDTH) * w.dimensions[1]
            + column * VGA_FONT_WIDTH + (bit % VGA_FONT_WIDTH) ]

Bits == 0..(VGA_FONT_WIDTH * VGA_FONT_HEIGHT - 1)

(* write_char, new_line and scroll (vga_text_writer.rs:41,72,              *)
(* linear_framebuffer.rs:82): whatever was printed, in whatever colours,   *)
(* the screen shows the last lines of it, each glyph whole and in its      *)
(* place, also on a screen that is no multiple of the font; and so with    *)
(* the message of a panic (lib.rs:82), before the processor halts.         *)
TextVisible ==
  w.out # "panic" => \A r \in 1..Len(lines) : \A c \in 1..Len(lines[r]) : \A b \in Bits :
    LET g == lines[r][c] IN PixelAt(c - 1, r - 1, b) = Pixel(g.glyph, b, g.text, g.background)

(* scroll (linear_framebuffer.rs:91): nothing of a line that was scrolled  *)
(* away stays on the screen.  Beyond the end of a line and below the last  *)
(* one there is background, or what the boot loader left.                  *)
NoGhostText ==
  w.out # "panic" /\ HasRoom =>
    \A r \in 1..Rows(w) : \A c \in 1..Cols(w) : \A b \in Bits :
      (r \in 1..Len(lines) /\ c \in 1..Len(lines[r])) \/ PixelAt(c - 1, r - 1, b).glyph = NoGlyph

(* put_char's unwrap (vga_text_emulation.rs:491) and the subtraction of    *)
(* new_line (vga_text_writer.rs:74) panic only where the screen is smaller *)
(* than one glyph: printing is safe for the panic handler.                 *)
PanicsOnlyWithoutRoom == w.out = "panic" => Cols(w) = 0 \/ Rows(w) = 0
=============================================================================
