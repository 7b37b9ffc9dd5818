--------------------------- MODULE KernelConsole ---------------------------
(***************************************************************************)
(* kernel_main and panic_handler (lib.rs) with the two locked outputs they *)
(* write to: KWRITER, the screen (display/vga_text_writer.rs), and         *)
(* SERIAL1, the serial port (serial.rs).                                   *)
(*                                                                         *)
(* There is one processor.  A panic or an exception leaves what is running *)
(* for good: no handler returns, and locks that are held then stay held.   *)
(* So the state has what is left to do of the running function only.       *)
(***************************************************************************)
EXTENDS Integers, Sequences

CONSTANT MaxFaults   \* bound: exceptions and non-maskable interrupts

ASSUME MaxFaultsAssumption == MaxFaults \in Nat

VARIABLES
  todo,      \* what is left of the running function, a sequence of steps
  inside,    \* whether it holds the lock of its first step
  handling,  \* whether it is panic_handler
  once,      \* whether KWRITER was initialized
  level,     \* PANIC_LEVEL
  gdt,       \* whether the segments and the task state of the kernel are loaded
  idt,       \* None, or the code segment that the gates of the kernel name
  held,      \* the locks that are held
  reported,  \* where the last panic has been written
  faults,    \* exceptions so far
  room,      \* whether a glyph fits on the screen
  struck     \* the locks that were held when panic_handler last started

vars == <<todo, inside, handling, once, level, gdt, idt, held, reported, faults, room, struck>>

Locks == {"screen", "serial"}

None == "none"
Kernels == "kernel"
BootLoaders == "boot loader"

(* Mutant: the panic level is raised before the writer exists.             *)
MainRaisesFirst ==
  << "raise", "expect", "call_once", "expect", "screen", "gdt", "screen", "idt", "screen",
     "expect", "screen", "expect", "serial", "screen", "serial", "halt" >>

(* Mutant: the interrupt descriptors come before the segments.             *)
MainIdtFirst ==
  << "expect", "call_once", "raise", "expect", "screen", "idt", "screen", "gdt", "screen",
     "expect", "screen", "expect", "serial", "screen", "serial", "halt" >>

(* kernel_main: init_kwriter (three expects, call_once, the panic level),  *)
(* the boot loader's name, the two descriptor tables and their messages,   *)
(* init_memory with its RAM map, its panics and errors and its messages.   *)
kernel_main ==
  << "expect", "call_once", "raise", "expect", "screen", "gdt", "screen", "idt", "screen",
     "expect", "screen", "expect", "serial", "screen", "serial", "halt" >>

(* Mutant: the screen comes before the serial port.                        *)
HandlerScreenFirst(lvl) ==
  CASE lvl = 0 -> <<"serial", "halt">>
    [] lvl = 1 -> <<"screen", "serial", "halt">>
    [] OTHER   -> <<"halt">>

(* Mutant: the screen is left out.                                         *)
HandlerSerialOnly(lvl) == IF lvl \in {0, 1} THEN <<"serial", "halt">> ELSE <<"halt">>

panic_handler(lvl) ==
  CASE lvl = 0 -> <<"serial", "halt">>
    [] lvl = 1 -> <<"serial", "screen", "halt">>
    [] OTHER   -> <<"halt">>

Init ==
  /\ todo = kernel_main /\ inside = FALSE
  /\ handling = FALSE /\ once = FALSE /\ level = 0
  /\ gdt = FALSE /\ idt = None
  /\ held = {} /\ reported = {} /\ faults = 0 /\ struck = {}
  /\ room \in BOOLEAN

Panic ==
  /\ todo' = panic_handler(level)
  /\ inside' = FALSE /\ handling' = TRUE /\ struck' = held /\ reported' = {}
  /\ UNCHANGED <<once, level, gdt, idt, held, room>>

Step(op) == Head(todo) = op /\ todo' = Tail(todo)

(* An expect, or an unwrap, or an error of init_memory: one may fail.      *)
ExpectHolds ==
  /\ Step("expect")
  /\ UNCHANGED <<inside, handling, once, level, gdt, idt, held, reported, faults, room, struck>>

ExpectFails == Head(todo) = "expect" /\ Panic /\ UNCHANGED faults

CallOnce ==
  /\ Step("call_once") /\ once' = TRUE
  /\ UNCHANGED <<inside, handling, level, gdt, idt, held, reported, faults, room, struck>>

(* Mutant: the level is raised by two.                                     *)
RaiseLevelByTwo ==
  /\ Step("raise") /\ level' = (level + 2) % 256
  /\ UNCHANGED <<inside, handling, once, gdt, idt, held, reported, faults, room, struck>>

RaiseLevel ==
  /\ Step("raise") /\ level' = (level + 1) % 256
  /\ UNCHANGED <<inside, handling, once, gdt, idt, held, reported, faults, room, struck>>

(* Segment of the code that runs: CS.                                      *)
CodeSegment == IF gdt THEN Kernels ELSE BootLoaders

(* init_gdt: a stack for double faults in the task state segment, segments *)
(* of the kernel instead of the boot loader's, CS and the task register.   *)
LoadGdt ==
  /\ Step("gdt") /\ gdt' = TRUE
  /\ UNCHANGED <<inside, handling, once, level, idt, held, reported, faults, room, struck>>

(* The gates are made when the table is first used, with the code segment  *)
(* of that moment.                                                         *)
LoadIdt ==
  /\ Step("idt") /\ idt' = CodeSegment
  /\ UNCHANGED <<inside, handling, once, level, gdt, held, reported, faults, room, struck>>

(* lock() of either output.                                                *)
Lock ==
  /\ Head(todo) \in Locks \ held /\ ~inside
  /\ inside' = TRUE /\ held' = held \cup {Head(todo)}
  /\ UNCHANGED <<todo, handling, once, level, gdt, idt, reported, faults, room, struck>>

(* Mutant: the guard of the lock is not dropped.                           *)
WriteKeepsLock ==
  /\ inside /\ (Head(todo) = "screen" => room)
  /\ Step(Head(todo))
  /\ inside' = FALSE
  /\ reported' = IF handling THEN reported \cup {Head(todo)} ELSE reported
  /\ UNCHANGED <<handling, once, level, gdt, idt, held, faults, room, struck>>

(* The text is written and the guard dropped.                              *)
WriteAndUnlock ==
  /\ inside /\ (Head(todo) = "screen" => room)
  /\ Step(Head(todo))
  /\ inside' = FALSE /\ held' = held \ {Head(todo)}
  /\ reported' = IF handling THEN reported \cup {Head(todo)} ELSE reported
  /\ UNCHANGED <<handling, once, level, gdt, idt, faults, room, struck>>

(* Where no glyph fits, put_char panics with the lock of the writer held,  *)
(* and so does the handler of a panic.                                     *)
WritePanics == inside /\ Head(todo) = "screen" /\ ~room /\ Panic /\ UNCHANGED faults

(* spin::Mutex waits without end.                                          *)
Spins == Head(todo) \in held /\ ~inside

Spin == Spins /\ UNCHANGED vars

(* All exceptions have gates but the machine check, which arrives as the   *)
(* missing segment that its empty gate is.  A double fault changes to the  *)
(* stack in the task state segment.                                        *)
Exceptions == {"with a gate", "machine check", "double fault"}

(* Whether the processor finds the handler: its gate names a code segment  *)
(* that is loaded, and its stack exists.                                   *)
Delivered(e) == idt = CodeSegment /\ (e = "double fault" => gdt)

(* Every handler panics.  without_interrupts masks no exception and no     *)
(* non-maskable interrupt; where there is no handler, the machine resets.  *)
Fault(e) ==
  /\ faults < MaxFaults /\ Head(todo) # "reset"
  /\ faults' = faults + 1
  /\ \/ Delivered(e) /\ Panic
     \/ /\ ~Delivered(e) /\ todo' = <<"reset">> /\ inside' = FALSE /\ handling' = FALSE
        /\ UNCHANGED <<once, level, gdt, idt, held, reported, room, struck>>

Stopped == Head(todo) \in {"halt", "reset"}

Stop == Stopped /\ UNCHANGED vars

Run ==
  \/ ExpectHolds \/ ExpectFails \/ CallOnce \/ RaiseLevel \/ LoadGdt \/ LoadIdt
  \/ Lock \/ WriteAndUnlock \/ WritePanics

Next == Run \/ Spin \/ (\E e \in Exceptions : Fault(e)) \/ Stop

(* The processor goes on: nothing but a fault takes it away from a         *)
(* function.  Faults are never required to happen.                         *)
Spec == Init /\ [][Next]_vars /\ WF_vars(Run)

-----------------------------------------------------------------------------
(* There is always a next step, and only two panic levels are reached: the *)
(* last arm of panic_handler is "not reachable" (lib.rs:84).               *)
TypeOK ==
  /\ Len(todo) > 0 /\ inside \in BOOLEAN /\ handling \in BOOLEAN
  /\ once \in BOOLEAN /\ level \in 0..1 /\ room \in BOOLEAN
  /\ gdt \in BOOLEAN /\ idt \in {None, Kernels, BootLoaders}
  /\ held \subseteq Locks /\ reported \subseteq Locks /\ struck \subseteq Locks
  /\ faults \in 0..MaxFaults

(* init_kwriter (vga_text_writer.rs:114,122) and KWRITER.get_unchecked     *)
(* (lib.rs:80): whatever panics and whenever, the handler reads the writer *)
(* only after it was initialized, and so does everything that prints: the  *)
(* expect of _kprint (vga_text_writer.rs:132) never fails.                 *)
WriterReady == Head(todo) = "screen" => once

(* The locks are taken one at a time and given back: kernel_main itself    *)
(* never waits for a lock; only a handler does, and only for one that the  *)
(* function it interrupted left held.                                      *)
MainNeverWaits == Spins => handling /\ Head(todo) \in struck

(* panic_handler (lib.rs:79): a handler that waits for the screen for ever *)
(* has written that same panic to the serial port first.                   *)
HungPanicWasReported == handling /\ Spins /\ Head(todo) = "screen" => "serial" \in reported

(* "Exceptions are now enabled" (lib.rs:55): from load_idt on no exception *)
(* resets the machine, not even a double fault: the gates name a segment   *)
(* of the table that is loaded, and the stack of the double fault is       *)
(* there.                                                                  *)
ExceptionsAreHandled == idt # None => Head(todo) # "reset"

(* panic_handler (lib.rs:75): a panic that finds the locks free is written *)
(* to the serial port, and to the screen once the level allows it, and the *)
(* processor halts; unless another exception strikes first, or the screen  *)
(* has no room for a glyph.                                                *)
PanicIsReported ==
  \A n \in 0..MaxFaults :
    (handling /\ room /\ struck = {} /\ faults = n)
      ~> \/ /\ Head(todo) = "halt" /\ "serial" \in reported
            /\ level = 1 => "screen" \in reported
         \/ faults > n

(* "Allow the panic handler to use kwriter to output whatever it needs     *)
(* directly to the screen" (vga_text_writer.rs:122): from level 1 on, and  *)
(* with the handlers of the kernel in place, every panic reaches a screen  *)
(* that has room for it.                                                   *)
PanicReachesScreen == (handling /\ level = 1 /\ idt # None /\ room) ~> "screen" \in reported
=============================================================================
