--------------------------- MODULE ConsoleProofs ---------------------------
(***************************************************************************)
(* The safety properties of KernelConsole for every number of exceptions,  *)
(* striking anywhere, and those of TextWriter for every size of the        *)
(* screen, the font and the tabs, and every text.                          *)
(***************************************************************************)
EXTENDS KernelConsole, TextWriter, TLAPS

(* What is left of kernel_main from its k-th step on.                      *)
Rest(k) == [i \in 1..(17 - k) |-> kernel_main[i + k - 1]]

(* Where in kernel_main the steps are that change what others depend on.   *)
LEMMA MainSteps ==
  ASSUME NEW k \in 1..16
  PROVE  /\ kernel_main[k] = "call_once" <=> k = 2
         /\ kernel_main[k] = "raise" <=> k = 3
         /\ kernel_main[k] = "gdt" <=> k = 6
         /\ kernel_main[k] = "idt" <=> k = 8
         /\ kernel_main[k] = "halt" <=> k = 16
         /\ kernel_main[k] = "screen" => k > 4
         /\ kernel_main[k] # "reset"
<1>1. k = 1 \/ k = 2 \/ k = 3 \/ k = 4 \/ k = 5 \/ k = 6 \/ k = 7 \/ k = 8
      \/ k = 9 \/ k = 10 \/ k = 11 \/ k = 12 \/ k = 13 \/ k = 14 \/ k = 15 \/ k = 16
  OBVIOUS
<1>2. QED
  BY <1>1 DEF kernel_main

Steps == { kernel_main[i] : i \in 1..16 }

(* The rest of kernel_main as a sequence.                                  *)
LEMMA RestSteps ==
  ASSUME NEW k \in 1..16
  PROVE  /\ Rest(k) \in Seq(Steps)
         /\ Len(Rest(k)) = 17 - k
         /\ Head(Rest(k)) = kernel_main[k]
         /\ k < 16 => Tail(Rest(k)) = Rest(k + 1)
<1>1. 17 - k \in Nat /\ 17 - k > 0
  OBVIOUS
<1>2. Rest(k) \in Seq(Steps) /\ Len(Rest(k)) = 17 - k
  BY <1>1 DEF Rest, Steps
<1>3. Head(Rest(k)) = kernel_main[k]
  BY <1>1, <1>2 DEF Rest
<1>4. k < 16 => Tail(Rest(k)) = Rest(k + 1)
  BY <1>1, <1>2 DEF Rest
<1>5. QED
  BY <1>2, <1>3, <1>4

LEMMA RestNext ==
  ASSUME NEW k \in 1..15
  PROVE  Tail(Rest(k)) = Rest(k + 1) /\ Len(Rest(k + 1)) > 0
<1>1. k \in 1..16 /\ k < 16 /\ k + 1 \in 1..16 /\ 17 - (k + 1) > 0
  OBVIOUS
<1>2. QED
  BY <1>1, RestSteps, Zenon

(* The handlers at the two levels, step by step.                           *)
LEMMA HandlerSteps ==
  /\ panic_handler(0) = <<"serial", "halt">>
  /\ panic_handler(1) = <<"serial", "screen", "halt">>
  /\ Tail(<<"serial", "halt">>) = <<"halt">> /\ Tail(<<"screen", "halt">>) = <<"halt">>
  /\ Tail(<<"serial", "screen", "halt">>) = <<"screen", "halt">>
  /\ Head(<<"serial", "screen", "halt">>) = "serial" /\ Head(<<"halt">>) = "halt"
  /\ Len(<<"screen", "halt">>) > 0 /\ Len(<<"halt">>) > 0
  BY DEF panic_handler

(* kernel_main from its first step on is kernel_main.                      *)
LEMMA RestFirst == kernel_main = Rest(1)
  BY DEF Rest, kernel_main

(* Until a handler takes over, kernel_main has done its steps before the   *)
(* k-th, and holds the lock of that one or none.                           *)
InMain(k) ==
  /\ todo = Rest(k) /\ ~handling
  /\ once <=> k > 2
  /\ level = IF k > 3 THEN 1 ELSE 0
  /\ gdt <=> k > 6
  /\ idt = IF k > 8 THEN Kernels ELSE None
  /\ inside => kernel_main[k] \in Locks
  /\ held = IF inside THEN {kernel_main[k]} ELSE {}

(* A handler holds the locks that it found held, which stay so, and that   *)
(* of its own first step; it comes to the screen after the serial port.    *)
InHandler ==
  /\ handling
  /\ todo \in { panic_handler(0), panic_handler(1), <<"screen", "halt">>, <<"halt">> }
  /\ todo = panic_handler(0) => level = 0
  /\ todo \in { panic_handler(1), <<"screen", "halt">> } => level = 1
  /\ todo = <<"screen", "halt">> => "serial" \in reported
  /\ inside => Head(todo) \in Locks \ struck
  /\ held = struck \cup (IF inside THEN {Head(todo)} ELSE {})
  /\ level = 1 => once
  /\ idt \in {None, Kernels} /\ (idt = Kernels => gdt)

InReset == ~handling /\ todo = <<"reset">> /\ ~inside /\ idt = None

(* The inductive invariant.                                                *)
ConsoleInv == TypeOK /\ (InReset \/ InHandler \/ \E k \in 1..16 : InMain(k))

LEMMA ConsoleInvInit == Init => ConsoleInv
<1> SUFFICES ASSUME Init PROVE ConsoleInv
  OBVIOUS
<1>1. Len(todo) > 0
  BY RestFirst, RestSteps DEF Init
<1>2. TypeOK
  <2>1. level \in 0..1 /\ faults \in 0..MaxFaults
    BY MaxFaultsAssumption DEF Init
  <2>2. held \subseteq Locks /\ reported \subseteq Locks /\ struck \subseteq Locks
    BY DEF Init
  <2>3. QED
    BY <1>1, <2>1, <2>2, Zenon DEF Init, TypeOK
<1>3. InMain(1)
  BY RestFirst DEF Init, InMain
<1>4. QED
  BY <1>2, <1>3 DEF ConsoleInv

(* The invariant tells the properties.                                     *)
LEMMA ConsoleInvImplies ==
  ConsoleInv => WriterReady /\ MainNeverWaits /\ HungPanicWasReported /\ ExceptionsAreHandled
<1> SUFFICES ASSUME ConsoleInv
             PROVE  WriterReady /\ MainNeverWaits /\ HungPanicWasReported /\ ExceptionsAreHandled
  OBVIOUS
<1> USE DEF WriterReady, MainNeverWaits, HungPanicWasReported, ExceptionsAreHandled, Spins
<1>1. CASE InReset
  <2>1. Head(todo) = "reset" /\ Head(todo) \notin held
    BY <1>1 DEF InReset, ConsoleInv, TypeOK, Locks
  <2>2. QED
    BY <1>1, <2>1 DEF InReset
<1>2. CASE InHandler
  <2>1. /\ Head(todo) = "screen" => todo = <<"screen", "halt">>
        /\ Head(todo) # "reset"
    BY <1>2 DEF InHandler, panic_handler
  <2>2. ~inside => held = struck
    BY <1>2 DEF InHandler
  <2>3. QED
    BY <1>2, <2>1, <2>2 DEF InHandler
<1>3. ASSUME NEW k \in 1..16, InMain(k)
      PROVE  WriterReady /\ MainNeverWaits /\ HungPanicWasReported /\ ExceptionsAreHandled
  <2>1. Head(todo) = kernel_main[k]
    BY <1>3, RestSteps, Zenon DEF InMain
  <2>2. QED
    BY <1>3, <2>1, MainSteps DEF InMain
<1>4. QED
  BY <1>1, <1>2, <1>3 DEF ConsoleInv


-----------------------------------------------------------------------------
(* Where kernel_main or a handler stands knows enough for a panic.         *)
LEMMA PanicEnters ==
  ASSUME ConsoleInv, ~InReset, Panic, faults' \in 0..MaxFaults
  PROVE  ConsoleInv'
<1>1. (level = 1 => once) /\ idt \in {None, Kernels} /\ (idt = Kernels => gdt)
  <2>1. CASE InHandler
    BY <2>1 DEF InHandler
  <2>2. ASSUME NEW k \in 1..16, InMain(k)
        PROVE  (level = 1 => once) /\ idt \in {None, Kernels} /\ (idt = Kernels => gdt)
    BY <2>2 DEF InMain, None, Kernels
  <2>3. QED
    BY <2>1, <2>2 DEF ConsoleInv
<1>2. level = 0 \/ level = 1
  BY DEF ConsoleInv, TypeOK
<1>3. todo' = panic_handler(level) /\ Len(todo') > 0
  BY <1>2 DEF Panic, panic_handler
<1>4. panic_handler(0) = <<"serial", "halt">> /\ panic_handler(1) = <<"serial", "screen", "halt">>
  BY DEF panic_handler
<1>5. /\ inside' = FALSE /\ handling' = TRUE /\ struck' = held /\ reported' = {}
      /\ once' = once /\ level' = level /\ gdt' = gdt /\ idt' = idt /\ held' = held /\ room' = room
  BY DEF Panic
<1>6. TypeOK'
  BY <1>3, <1>5, Zenon DEF ConsoleInv, TypeOK
<1>7. InHandler'
  <2>1. panic_handler(0) # panic_handler(1) /\ todo' # <<"screen", "halt">>
    BY <1>2, <1>3, <1>4
  <2>2. held' = struck' \cup {}
    BY <1>5
  <2>3. QED
    BY <1>1, <1>2, <1>3, <1>5, <2>1, <2>2 DEF InHandler
<1>8. QED
  BY <1>6, <1>7 DEF ConsoleInv

(* Only kernel_main has steps that are neither a print nor the end.        *)
LEMMA OnlyMain ==
  ASSUME ConsoleInv, Head(todo) \in {"expect", "call_once", "raise", "gdt", "idt"}
  PROVE  \E k \in 1..15 : InMain(k) /\ Head(todo) = kernel_main[k] /\ ~inside
<1>1. ~InReset
  BY DEF InReset
<1>2. ~InHandler
  BY DEF InHandler, panic_handler
<1>3. PICK k \in 1..16 : InMain(k)
  BY <1>1, <1>2 DEF ConsoleInv
<1>4. Head(todo) = kernel_main[k]
  BY <1>3, RestSteps, Zenon DEF InMain
<1>5. k # 16 /\ kernel_main[k] \notin Locks
  BY <1>4, MainSteps DEF Locks
<1>6. QED
  BY <1>3, <1>4, <1>5 DEF InMain

(* A step of kernel_main that is neither a print nor the end.              *)
LEMMA MainAdvances ==
  ASSUME ConsoleInv, ExpectHolds \/ CallOnce \/ RaiseLevel \/ LoadGdt \/ LoadIdt
  PROVE  ConsoleInv'
<1>1. PICK k \in 1..15 : InMain(k) /\ Head(todo) = kernel_main[k] /\ ~inside
  BY OnlyMain DEF ExpectHolds, CallOnce, RaiseLevel, LoadGdt, LoadIdt, Step
<1>2. todo' = Rest(k + 1) /\ Len(todo') > 0
  <2>1. todo' = Tail(Rest(k))
    BY <1>1 DEF InMain, ExpectHolds, CallOnce, RaiseLevel, LoadGdt, LoadIdt, Step
  <2>2. QED
    BY <2>1, RestNext, Zenon
<1>3. /\ kernel_main[k] = "call_once" <=> k = 2
      /\ kernel_main[k] = "raise" <=> k = 3
      /\ kernel_main[k] = "gdt" <=> k = 6
      /\ kernel_main[k] = "idt" <=> k = 8
  BY MainSteps
<1>4. /\ inside' = inside /\ handling' = handling /\ held' = held
      /\ reported' = reported /\ faults' = faults /\ room' = room /\ struck' = struck
  BY DEF ExpectHolds, CallOnce, RaiseLevel, LoadGdt, LoadIdt
<1>5. once' <=> k + 1 > 2
  BY <1>1, <1>3 DEF InMain, ExpectHolds, CallOnce, RaiseLevel, LoadGdt, LoadIdt, Step
<1>6. level' = IF k + 1 > 3 THEN 1 ELSE 0
  BY <1>1, <1>3 DEF InMain, ExpectHolds, CallOnce, RaiseLevel, LoadGdt, LoadIdt, Step
<1>7. gdt' <=> k + 1 > 6
  BY <1>1, <1>3 DEF InMain, ExpectHolds, CallOnce, RaiseLevel, LoadGdt, LoadIdt, Step
<1>8. idt' = IF k + 1 > 8 THEN Kernels ELSE None
  BY <1>1, <1>3 DEF InMain, ExpectHolds, CallOnce, RaiseLevel, LoadGdt, LoadIdt, Step, CodeSegment
<1>9. once' \in BOOLEAN /\ gdt' \in BOOLEAN
  BY Zenon DEF ExpectHolds, CallOnce, RaiseLevel, LoadGdt, LoadIdt, ConsoleInv, TypeOK
<1>10. TypeOK'
  BY <1>2, <1>4, <1>6, <1>8, <1>9 DEF ConsoleInv, TypeOK
<1>11. InMain(k + 1)'
  <2>1. ~inside /\ ~handling /\ held = {}
    BY <1>1 DEF InMain
  <2>2. QED
    BY <1>2, <1>4, <1>5, <1>6, <1>7, <1>8, <2>1 DEF InMain
<1>12. QED
  BY <1>10, <1>11 DEF ConsoleInv

(* Taking a lock that is free.                                             *)
LEMMA LockKeeps ==
  ASSUME ConsoleInv, Lock
  PROVE  ConsoleInv'
<1>1. /\ Head(todo) \in Locks /\ Head(todo) \notin held /\ ~inside
      /\ inside' = TRUE /\ held' = held \cup {Head(todo)} /\ todo' = todo
      /\ handling' = handling /\ once' = once /\ level' = level /\ gdt' = gdt /\ idt' = idt
      /\ reported' = reported /\ faults' = faults /\ room' = room /\ struck' = struck
  BY DEF Lock
<1>2. TypeOK'
  BY <1>1 DEF ConsoleInv, TypeOK
<1>3. CASE InReset
  BY <1>1, <1>3 DEF InReset, Locks
<1>4. CASE InHandler
  <2>1. InHandler'
    BY <1>1, <1>4 DEF InHandler
  <2>2. QED
    BY <1>2, <2>1 DEF ConsoleInv
<1>5. ASSUME NEW k \in 1..16, InMain(k)
      PROVE  ConsoleInv'
  <2>1. Head(todo) = kernel_main[k]
    BY <1>5, RestSteps, Zenon DEF InMain
  <2>2. InMain(k)'
    BY <1>1, <1>5, <2>1 DEF InMain
  <2>3. QED
    BY <1>2, <2>2 DEF ConsoleInv
<1>6. QED
  BY <1>3, <1>4, <1>5 DEF ConsoleInv

(* Writing and giving the lock back.                                       *)
LEMMA UnlockKeeps ==
  ASSUME ConsoleInv, WriteAndUnlock
  PROVE  ConsoleInv'
<1>1. /\ inside /\ todo' = Tail(todo) /\ inside' = FALSE /\ held' = held \ {Head(todo)}
      /\ reported' = IF handling THEN reported \cup {Head(todo)} ELSE reported
      /\ handling' = handling /\ once' = once /\ level' = level /\ gdt' = gdt /\ idt' = idt
      /\ faults' = faults /\ room' = room /\ struck' = struck
  BY DEF WriteAndUnlock, Step
<1>2. CASE InReset
  BY <1>1, <1>2 DEF InReset
<1>3. CASE InHandler
  <2>1. Head(todo) \in Locks \ struck /\ held = struck \cup {Head(todo)}
    BY <1>1, <1>3 DEF InHandler
  <2>2. \/ /\ todo = panic_handler(1) /\ Head(todo) = "serial" /\ level = 1
           /\ todo' = <<"screen", "halt">>
        \/ todo' = <<"halt">>
    <3>1. todo # <<"halt">>
      BY <2>1, HandlerSteps DEF Locks
    <3>2. todo \in { panic_handler(0), panic_handler(1), <<"screen", "halt">> }
      BY <1>3, <3>1 DEF InHandler
    <3>3. todo = panic_handler(1) => level = 1
      BY <1>3 DEF InHandler
    <3>4. QED
      BY <1>1, <3>2, <3>3, HandlerSteps, Zenon
  <2>3. TypeOK'
    <3>1. Len(todo') > 0
      BY <2>2, HandlerSteps
    <3>2. held' \subseteq Locks /\ reported' \subseteq Locks
      BY <1>1, <2>1 DEF ConsoleInv, TypeOK
    <3>3. QED
      BY <1>1, <3>1, <3>2, Zenon DEF ConsoleInv, TypeOK
  <2>4. held' = struck'
    BY <1>1, <2>1
  <2>5. todo' = <<"screen", "halt">> => "serial" \in reported' /\ level' = 1
    BY <1>1, <1>3, <2>2 DEF InHandler
  <2>6. todo' # panic_handler(0) /\ todo' # panic_handler(1)
    BY <2>2 DEF panic_handler
  <2>7. InHandler'
    BY <1>1, <1>3, <2>2, <2>4, <2>5, <2>6 DEF InHandler
  <2>8. QED
    BY <2>3, <2>7 DEF ConsoleInv
<1>4. ASSUME NEW k \in 1..16, InMain(k)
      PROVE  ConsoleInv'
  <2>1. Head(todo) = kernel_main[k] /\ kernel_main[k] \in Locks
    BY <1>1, <1>4, RestSteps, Zenon DEF InMain
  <2>2. k # 16 /\ k # 2 /\ k # 3 /\ k # 6 /\ k # 8
    BY <2>1, MainSteps DEF Locks
  <2>3. todo' = Rest(k + 1) /\ Len(todo') > 0
    <3>1. k \in 1..15 /\ todo' = Tail(Rest(k))
      BY <1>1, <1>4, <2>2 DEF InMain
    <3>2. QED
      BY <3>1, RestNext, Zenon
  <2>4. reported' = reported /\ held' = {}
    BY <1>1, <1>4, <2>1 DEF InMain
  <2>5. TypeOK'
    BY <1>1, <2>3, <2>4, Zenon DEF ConsoleInv, TypeOK
  <2>6. InMain(k + 1)'
    <3>1. (once' <=> k + 1 > 2) /\ (gdt' <=> k + 1 > 6)
      BY <1>1, <1>4, <2>2 DEF InMain
    <3>2. /\ level' = IF k + 1 > 3 THEN 1 ELSE 0
          /\ idt' = IF k + 1 > 8 THEN Kernels ELSE None
      BY <1>1, <1>4, <2>2 DEF InMain
    <3>3. ~handling' /\ ~inside'
      BY <1>1, <1>4 DEF InMain
    <3>4. QED
      BY <2>3, <2>4, <3>1, <3>2, <3>3 DEF InMain
  <2>7. k + 1 \in 1..16
    BY <2>2
  <2>8. QED
    BY <2>5, <2>6, <2>7 DEF ConsoleInv
<1>5. QED
  BY <1>2, <1>3, <1>4 DEF ConsoleInv

(* An exception: its handler panics, or there is none yet and the machine  *)
(* resets.                                                                 *)
LEMMA FaultKeeps ==
  ASSUME ConsoleInv, NEW e \in Exceptions, Fault(e)
  PROVE  ConsoleInv'
<1>1. faults' \in 0..MaxFaults
  BY MaxFaultsAssumption DEF Fault, ConsoleInv, TypeOK
<1>2. ~InReset
  BY DEF InReset, Fault
<1>3. CASE Delivered(e) /\ Panic
  BY <1>1, <1>2, <1>3, PanicEnters
<1>4. CASE /\ ~Delivered(e) /\ todo' = <<"reset">> /\ inside' = FALSE /\ handling' = FALSE
           /\ UNCHANGED <<once, level, gdt, idt, held, reported, room, struck>>
  <2>1. idt \in {None, Kernels} /\ (idt = Kernels => gdt)
    <3>1. CASE InHandler
      BY <3>1 DEF InHandler
    <3>2. ASSUME NEW k \in 1..16, InMain(k)
          PROVE  idt \in {None, Kernels} /\ (idt = Kernels => gdt)
      BY <3>2 DEF InMain, None, Kernels
    <3>3. QED
      BY <1>2, <3>1, <3>2 DEF ConsoleInv
  <2>2. idt = None
    BY <1>4, <2>1, Zenon DEF Delivered, CodeSegment
  <2>3. InReset'
    BY <1>4, <2>2 DEF InReset
  <2>4. TypeOK'
    <3>1. Len(todo') > 0
      BY <1>4
    <3>2. QED
      BY <1>1, <1>4, <3>1, Zenon DEF ConsoleInv, TypeOK
  <2>5. QED
    BY <2>3, <2>4 DEF ConsoleInv
<1>5. QED
  BY <1>3, <1>4, Zenon DEF Fault

LEMMA ConsoleInvStep == ConsoleInv /\ [Next]_vars => ConsoleInv'
<1> SUFFICES ASSUME ConsoleInv, [Next]_vars PROVE ConsoleInv'
  OBVIOUS
<1>1. CASE ExpectHolds \/ CallOnce \/ RaiseLevel \/ LoadGdt \/ LoadIdt
  BY <1>1, MainAdvances
<1>2. CASE ExpectFails \/ WritePanics
  <2>1. Panic /\ faults' \in 0..MaxFaults
    BY <1>2 DEF ExpectFails, WritePanics, ConsoleInv, TypeOK
  <2>2. ~InReset
    BY <1>2 DEF ExpectFails, WritePanics, InReset
  <2>3. QED
    BY <2>1, <2>2, PanicEnters
<1>3. CASE Lock
  BY <1>3, LockKeeps
<1>4. CASE WriteAndUnlock
  BY <1>4, UnlockKeeps
<1>5. CASE \E e \in Exceptions : Fault(e)
  BY <1>5, FaultKeeps
<1>6. CASE UNCHANGED vars
  <2>1. TypeOK' /\ (InReset => InReset') /\ (InHandler => InHandler')
    BY <1>6 DEF vars, ConsoleInv, TypeOK, InReset, InHandler
  <2>2. ASSUME NEW k \in 1..16, InMain(k)
        PROVE  InMain(k)'
    BY <1>6, <2>2 DEF vars, InMain
  <2>3. QED
    BY <2>1, <2>2 DEF ConsoleInv
<1>7. QED
  BY <1>1, <1>2, <1>3, <1>4, <1>5, <1>6 DEF Next, Run, Spin, Stop

LEMMA ConsoleInvariant == Spec => []ConsoleInv
  BY ConsoleInvInit, ConsoleInvStep, PTL DEF Spec

-----------------------------------------------------------------------------
(* Whatever the number of exceptions, the running function has a next step *)
(* (kernel_main and panic_handler end in a halt, lib.rs:65,87) and the     *)
(* panic level stays below the arm of panic_handler that is "not           *)
(* reachable" (lib.rs:84).                                                 *)
THEOREM ConsoleTypeCorrect == Spec => []TypeOK
<1>1. ConsoleInv => TypeOK
  BY DEF ConsoleInv
<1>2. QED
  BY <1>1, ConsoleInvariant, PTL

(* KWRITER.get_unchecked in panic_handler (lib.rs:80) and the expect of    *)
(* _kprint: the writer is initialized whenever it is used, however many    *)
(* panics and exceptions come and whenever they do.                        *)
THEOREM WriterIsReady == Spec => []WriterReady
  BY ConsoleInvImplies, ConsoleInvariant, PTL

(* lock() of KWRITER and of SERIAL1: kernel_main never waits for a lock; a *)
(* handler waits only for one that what it interrupted had taken.          *)
THEOREM MainNeverBlocks == Spec => []MainNeverWaits
  BY ConsoleInvImplies, ConsoleInvariant, PTL

(* panic_handler (lib.rs:79): a handler that hangs on the screen has       *)
(* written its panic to the serial port.                                   *)
THEOREM HungPanicReported == Spec => []HungPanicWasReported
  BY ConsoleInvImplies, ConsoleInvariant, PTL

(* "Exceptions are now enabled" (lib.rs:55): once the interrupt            *)
(* descriptors are loaded no number of exceptions resets the machine.      *)
THEOREM ExceptionsStayHandled == Spec => []ExceptionsAreHandled
  BY ConsoleInvImplies, ConsoleInvariant, PTL


-----------------------------------------------------------------------------
(* Rows, columns and the pixels of a cell.                                 *)
LEMMA DivMod ==
  ASSUME NEW m \in Nat \ {0}, NEW n \in Nat
  PROVE  /\ n \div m \in Nat /\ n % m \in 0..(m - 1) /\ n = (n \div m) * m + (n % m)
         /\ \A k \in Nat : n \div m = k <=> n - k * m \in 0..(m - 1)
<1>1. PICK q \in Nat, r \in 0..(m - 1) : n = q * m + r /\ n \div m = q /\ n % m = r
  OBVIOUS
<1>2. ASSUME NEW k \in Nat, n - k * m \in 0..(m - 1) PROVE k = q
  <2>1. CASE k < q
    <3>1. PICK d \in Nat : q = k + 1 + d
      BY <2>1
    <3>2. q * m = k * m + m + d * m /\ d * m \in Nat /\ k * m \in Nat
      BY <3>1
    <3>3. QED
      BY <1>1, <1>2, <3>2
  <2>2. CASE k > q
    <3>1. PICK d \in Nat : k = q + 1 + d
      BY <2>2
    <3>2. k * m = q * m + m + d * m /\ d * m \in Nat /\ q * m \in Nat
      BY <3>1
    <3>3. QED
      BY <1>1, <1>2, <3>2
  <2>3. QED
    BY <2>1, <2>2
<1>3. n - q * m = r
  <2>1. q * m \in Nat
    OBVIOUS
  <2>2. QED
    BY <1>1, <2>1
<1>4. \A k \in Nat : q = k <=> n - k * m \in 0..(m - 1)
  BY <1>2, <1>3
<1>5. \A k \in Nat : n \div m = k <=> n - k * m \in 0..(m - 1)
  BY <1>1, <1>4, Zenon
<1>6. n \div m \in Nat /\ n % m \in 0..(m - 1) /\ n = (n \div m) * m + (n % m)
  <2>1. n \div m = q /\ n % m = r
    BY <1>1, Zenon
  <2>2. n = (n \div m) * m + (n % m)
    BY <1>1, <2>1, Zenon
  <2>3. QED
    BY <2>1, <2>2, Zenon
<1>7. QED
  BY <1>5, <1>6, Zenon

LEMMA DivModIs ==
  ASSUME NEW m \in Nat \ {0}, NEW q \in Nat, NEW r \in 0..(m - 1), NEW n, n = q * m + r
  PROVE  n \in Nat /\ n \div m = q /\ n % m = r
<1>1. q * m \in Nat
  OBVIOUS
<1>2. n \in Nat /\ n - q * m = r
  BY <1>1
<1>3. n \div m = q
  BY <1>2, DivMod
<1>4. n = q * m + (n % m) /\ n % m \in 0..(m - 1)
  <2>1. n % m \in 0..(m - 1) /\ n = (n \div m) * m + (n % m)
    BY <1>2, DivMod, Zenon
  <2>2. QED
    BY <1>3, <2>1, Zenon
<1>5. QED
  BY <1>1, <1>2, <1>3, <1>4

(* The next line is one further down.                                      *)
LEMMA DivModNext ==
  ASSUME NEW m \in Nat \ {0}, NEW n \in Nat
  PROVE  (n + m) \div m = n \div m + 1 /\ (n + m) % m = n % m
<1>1. PICK q \in Nat, r \in 0..(m - 1) : n = q * m + r /\ n \div m = q /\ n % m = r
  BY DivMod
<1>2. n + m = (q + 1) * m + r /\ q + 1 \in Nat
  BY <1>1
<1>3. (n + m) \div m = q + 1 /\ (n + m) % m = r
  <2>1. PICK k \in Nat, s \in Nat : k = q + 1 /\ s = n + m
    OBVIOUS
  <2>2. s = k * m + r
    BY <1>2, <2>1, Zenon
  <2>3. s \div m = k /\ s % m = r
    BY <2>2, DivModIs, Zenon
  <2>4. QED
    BY <2>1, <2>3, Zenon
<1>4. QED
  BY <1>1, <1>3, Zenon

(* Products in order.                                                      *)
LEMMA ProductOrder ==
  ASSUME NEW a \in Nat, NEW b \in Nat, NEW m \in Nat, a <= b
  PROVE  a * m \in Nat /\ b * m \in Nat /\ a * m <= b * m
<1>1. PICK d \in Nat : b = a + d
  <2>1. b - a \in Nat /\ b = a + (b - a)
    OBVIOUS
  <2>2. QED
    BY <2>1
<1>2. b * m = a * m + d * m /\ d * m \in Nat /\ a * m \in Nat
  BY <1>1
<1>3. QED
  BY <1>2

(* The place of a pixel in the buffer.                                     *)
LEMMA PlaceIs ==
  ASSUME NEW width \in Nat, NEW height \in Nat, NEW x \in 0..(width - 1), NEW y \in Nat,
         NEW p, p = y * width + x
  PROVE  /\ p \in Nat /\ p % width = x /\ p \div width = y
         /\ p \in 0..(width * height - 1) <=> y < height
<1>1. width \in Nat \ {0}
  OBVIOUS
<1>2. p \in Nat /\ p % width = x /\ p \div width = y
  BY <1>1, DivModIs
<1>3. ASSUME y < height PROVE p < width * height
  <2>1. (y + 1) * width <= height * width /\ (y + 1) * width \in Nat /\ height * width \in Nat
    BY <1>3, ProductOrder
  <2>2. (y + 1) * width = y * width + width /\ height * width = width * height /\ y * width \in Nat
    OBVIOUS
  <2>3. QED
    BY <2>1, <2>2
<1>4. ASSUME height <= y PROVE p >= width * height
  <2>1. height * width <= y * width /\ height * width \in Nat /\ y * width \in Nat
    BY <1>4, ProductOrder
  <2>2. height * width = width * height
    OBVIOUS
  <2>3. QED
    BY <2>1, <2>2
<1>5. width * height \in Nat
  OBVIOUS
<1>6. QED
  BY <1>2, <1>3, <1>4, <1>5


-----------------------------------------------------------------------------
(* What a pixel shows of the lines of a log: its bit of the glyph in its   *)
(* cell, or nothing where the log has none.                                *)
PixelShows(pix, ls, c, r, bit) ==
  IF r + 1 \in 1..Len(ls) /\ c + 1 \in 1..Len(ls[r + 1])
  THEN pix = Pixel(ls[r + 1][c + 1].glyph, bit, ls[r + 1][c + 1].text, ls[r + 1][c + 1].background)
  ELSE pix.glyph = NoGlyph

BitOf(x, y) == (y % VGA_FONT_HEIGHT) * VGA_FONT_WIDTH + (x % VGA_FONT_WIDTH)

Shows(v, ls) ==
  \A x \in 0..(v.dimensions[1] - 1), y \in 0..(v.dimensions[2] - 1) :
    PixelShows(v.buffer[y * v.dimensions[1] + x], ls,
               x \div VGA_FONT_WIDTH, y \div VGA_FONT_HEIGHT, BitOf(x, y))

Backgrounds == Colors \cup {Black}

Writer(dimensions, buffer, column, row, text, background, out) ==
  [ dimensions |-> dimensions, buffer |-> buffer, column |-> column, row |-> row,
    text |-> text, background |-> background, out |-> out ]

(* A writer whose buffer is the screen.                                    *)
IsWriter(v) ==
  /\ v = Writer(v.dimensions, v.buffer, v.column, v.row, v.text, v.background, v.out)
  /\ v.dimensions[1] \in Nat /\ v.dimensions[2] \in Nat
  /\ v.buffer = [p \in 0..(Size(v) - 1) |-> v.buffer[p]]
  /\ v.column \in Nat /\ v.row \in Nat
  /\ v.text \in TextColors /\ v.background \in Backgrounds
  /\ v.out \in {"Ok", "panic", "halt"}

Glyphs == [glyph : 0..Unknown, text : TextColors, background : Backgrounds]

(* The log ends where the writer is, and the screen shows it.              *)
Logged(v, ls) ==
  /\ ls \in Seq(Seq(Glyphs))
  /\ Len(ls) = v.row + 1 /\ v.row < Rows(v)
  /\ Len(ls[Len(ls)]) = v.column /\ v.column < Cols(v)
  /\ \A r \in 1..Len(ls) : Len(ls[r]) <= Cols(v)
  /\ Shows(v, ls)

Pieces ==
  [op : {"char"}, arg : Nat] \cup [op : {"color"}, arg : TextColors]
    \cup [op : {"region"}, arg : STRING] \cup [op : {"wrap", "halt"}, arg : {0}]

(* The invariant: on a screen with room for a glyph the writer does not    *)
(* panic and shows the log; without room there is no log.                  *)
WriterInv ==
  /\ IsWriter(w) /\ pending \in Seq(Pieces)
  /\ w.out = "panic" => ~HasRoom
  /\ IF HasRoom THEN Logged(w, lines) ELSE lines = << <<>> >>


-----------------------------------------------------------------------------
(* The log with a glyph more on its last line, and with a line more, of    *)
(* which the first `cut' lines are left out.                               *)
Grown(k, ls, g) ==
  /\ k \in Seq(Seq(Glyphs)) /\ Len(k) = Len(ls)
  /\ \A r \in 1..Len(ls) : r # Len(ls) => k[r] = ls[r]
  /\ Len(k[Len(ls)]) = Len(ls[Len(ls)]) + 1
  /\ \A c \in 1..Len(ls[Len(ls)]) : k[Len(ls)][c] = ls[Len(ls)][c]
  /\ k[Len(ls)][Len(ls[Len(ls)]) + 1] = g

OneLineMore(k, ls, cut) ==
  /\ k \in Seq(Seq(Glyphs)) /\ Len(k) = Len(ls) + 1 - cut
  /\ \A r \in 1..Len(k) : r # Len(k) => k[r] = ls[r + cut]
  /\ k[Len(k)] = <<>>

LEMMA GlyphMore ==
  ASSUME NEW ls \in Seq(Seq(Glyphs)), Len(ls) > 0, NEW g \in Glyphs
  PROVE  Grown([ls EXCEPT ![Len(ls)] = Append(ls[Len(ls)], g)], ls, g)
<1> DEFINE s == ls[Len(ls)]
<1>1. PICK n \in Nat : n = Len(ls) /\ n \in 1..Len(ls)
  OBVIOUS
<1>2. s \in Seq(Glyphs)
  BY <1>1
<1>3. /\ Append(s, g) \in Seq(Glyphs) /\ Len(Append(s, g)) = Len(s) + 1 /\ Append(s, g)[Len(s) + 1] = g
      /\ \A c \in 1..Len(s) : Append(s, g)[c] = s[c]
  BY <1>2
<1> HIDE DEF s
<1>4. PICK t \in Seq(Glyphs) : t = Append(s, g)
  BY <1>3
<1>5. [ls EXCEPT ![n] = t] \in Seq(Seq(Glyphs)) /\ Len([ls EXCEPT ![n] = t]) = Len(ls)
  BY <1>1
<1>6. [ls EXCEPT ![n] = t][n] = t /\ \A r \in 1..Len(ls) : r # n => [ls EXCEPT ![n] = t][r] = ls[r]
  BY <1>1
<1>7. Grown([ls EXCEPT ![n] = t], ls, g)
  <2>1. PICK k : k = [ls EXCEPT ![n] = t]
    OBVIOUS
  <2>2. k \in Seq(Seq(Glyphs)) /\ Len(k) = Len(ls) /\ k[n] = t /\ \A r \in 1..Len(ls) : r # n => k[r] = ls[r]
    BY <1>5, <1>6, <2>1, Zenon
  <2>3. Grown(k, ls, g)
    BY <1>1, <1>3, <1>4, <2>2, Zenon DEF Grown, s
  <2>4. QED
    BY <2>1, <2>3, Zenon
<1>8. QED
  BY <1>1, <1>4, <1>7, Zenon DEF s

LEMMA LineMore ==
  ASSUME NEW ls \in Seq(Seq(Glyphs)), Len(ls) > 0
  PROVE  OneLineMore(Append(ls, <<>>), ls, 0) /\ OneLineMore(Tail(Append(ls, <<>>)), ls, 1)
<1>0. <<>> \in Seq(Glyphs)
  OBVIOUS
<1>1. PICK e \in Seq(Glyphs) : e = <<>>
  BY <1>0, Zenon
<1>2. PICK k : k = Append(ls, e)
  OBVIOUS
<1>3. /\ k \in Seq(Seq(Glyphs)) /\ Len(k) = Len(ls) + 1 /\ k[Len(ls) + 1] = e
      /\ \A r \in 1..Len(ls) : k[r] = ls[r]
  BY <1>2
<1>4. OneLineMore(k, ls, 0)
  <2>1. k[Len(k)] = e /\ Len(k) = Len(ls) + 1 - 0
    BY <1>3
  <2>2. ASSUME NEW r \in 1..Len(k), r # Len(k) PROVE k[r] = ls[r + 0]
    <3>1. r \in 1..Len(ls) /\ r + 0 = r
      BY <1>3, <2>2
    <3>2. QED
      BY <1>3, <3>1, Zenon
  <2>3. QED
    BY <1>1, <1>3, <2>1, <2>2, Zenon DEF OneLineMore
<1>5. PICK j : j = Tail(k)
  OBVIOUS
<1>6. j \in Seq(Seq(Glyphs)) /\ Len(j) = Len(ls) /\ \A r \in 1..Len(ls) : j[r] = k[r + 1]
  BY <1>3, <1>5
<1>7. OneLineMore(j, ls, 1)
  <2>1. j[Len(j)] = e /\ Len(j) = Len(ls) + 1 - 1
    <3>1. Len(ls) \in 1..Len(ls) /\ Len(ls) = Len(ls) + 1 - 1
      OBVIOUS
    <3>2. QED
      BY <1>3, <1>6, <3>1, Zenon
  <2>2. ASSUME NEW r \in 1..Len(j), r # Len(j) PROVE j[r] = ls[r + 1]
    <3>1. r \in 1..Len(ls) /\ r + 1 \in 1..Len(ls)
      BY <1>6, <2>2
    <3>2. QED
      BY <1>3, <1>6, <3>1, Zenon
  <2>3. QED
    BY <1>1, <1>6, <2>1, <2>2, Zenon DEF OneLineMore
<1>8. QED
  BY <1>1, <1>2, <1>4, <1>5, <1>7, Zenon


-----------------------------------------------------------------------------
(* What a pixel shows of the longer log.                                   *)
LEMMA PixelDrawn ==
  ASSUME NEW k, NEW ls \in Seq(Seq(Glyphs)), Len(ls) > 0, NEW g, Grown(k, ls, g),
         NEW c \in Nat, NEW r \in Nat, NEW bit,
         r + 1 = Len(ls), c = Len(ls[Len(ls)])
  PROVE  PixelShows(Pixel(g.glyph, bit, g.text, g.background), k, c, r, bit)
<1>1. r + 1 \in 1..Len(k) /\ c + 1 \in 1..Len(k[r + 1])
  BY DEF Grown
<1>2. k[r + 1][c + 1] = g
  BY Zenon DEF Grown
<1>3. QED
  BY <1>1, <1>2, Zenon DEF PixelShows

LEMMA PixelKept ==
  ASSUME NEW k, NEW ls \in Seq(Seq(Glyphs)), Len(ls) > 0, NEW g, Grown(k, ls, g),
         NEW c \in Nat, NEW r \in Nat, NEW bit, NEW pix, PixelShows(pix, ls, c, r, bit),
         ~(r + 1 = Len(ls) /\ c = Len(ls[Len(ls)]))
  PROVE  PixelShows(pix, k, c, r, bit)
<1>1. CASE r + 1 # Len(ls)
  <2>1. r + 1 \in 1..Len(ls) => k[r + 1] = ls[r + 1]
    BY <1>1, Zenon DEF Grown
  <2>2. Len(k) = Len(ls)
    BY Zenon DEF Grown
  <2>3. QED
    BY <2>1, <2>2, Zenon DEF PixelShows
<1>2. CASE r + 1 = Len(ls)
  <2>1. PICK n \in Nat : n = Len(ls[Len(ls)])
    <3>1. Len(ls) \in 1..Len(ls)
      OBVIOUS
    <3>2. ls[Len(ls)] \in Seq(Glyphs)
      BY <3>1
    <3>3. QED
      BY <3>2
  <2>2. c # n
    BY <1>2, <2>1, Zenon
  <2>3. Len(k[r + 1]) = n + 1 /\ Len(ls[r + 1]) = n /\ Len(k) = Len(ls)
    BY <1>2, <2>1, Zenon DEF Grown
  <2>4. c + 1 \in 1..(n + 1) <=> c + 1 \in 1..n
    BY <2>2
  <2>5. c + 1 \in 1..n => k[r + 1][c + 1] = ls[r + 1][c + 1]
    BY <1>2, <2>1, Zenon DEF Grown
  <2>6. QED
    BY <2>3, <2>4, <2>5, Zenon DEF PixelShows
<1>3. QED
  BY <1>1, <1>2, Zenon

LEMMA PixelStays ==
  ASSUME NEW k, NEW ls \in Seq(Seq(Glyphs)), Len(ls) > 0, NEW cut \in {0, 1}, OneLineMore(k, ls, cut),
         NEW c \in Nat, NEW r \in Nat, NEW bit, NEW pix, PixelShows(pix, ls, c, r + cut, bit)
  PROVE  PixelShows(pix, k, c, r, bit)
<1>0. k \in Seq(Seq(Glyphs)) /\ Len(k) = Len(ls) + 1 - cut /\ k[Len(k)] = <<>>
  BY Zenon DEF OneLineMore
<1>m. Len(k) \in Nat /\ Len(ls) \in Nat
  BY <1>0
<1>n. PICK m \in Nat, n \in Nat : m = Len(k) /\ n = Len(ls) /\ m = n + 1 - cut
  BY <1>0, <1>m, Zenon
<1>1. CASE r + 1 \in 1..m /\ r + 1 # m
  <2>1. k[r + 1] = ls[(r + 1) + cut]
    BY <1>1, <1>n, Zenon DEF OneLineMore
  <2>2. (r + 1) + cut = (r + cut) + 1 /\ (r + cut) + 1 \in 1..n
    BY <1>1, <1>n
  <2>3. QED
    BY <1>1, <1>n, <2>1, <2>2, Zenon DEF PixelShows
<1>2. CASE ~(r + 1 \in 1..m /\ r + 1 # m)
  <2>1. (r + cut) + 1 \notin 1..n
    BY <1>2, <1>n
  <2>2. pix.glyph = NoGlyph
    BY <1>n, <2>1, Zenon DEF PixelShows
  <2>3. r + 1 \notin 1..Len(k) \/ r + 1 = Len(k)
    BY <1>2, <1>n, Zenon
  <2>4. c + 1 \notin 1..Len(<<>>)
    OBVIOUS
  <2>5. QED
    BY <1>0, <2>2, <2>3, <2>4, Zenon DEF PixelShows
<1>3. QED
  BY <1>1, <1>2, Zenon

LEMMA PixelBlank ==
  ASSUME NEW k, NEW ls, NEW cut, OneLineMore(k, ls, cut),
         NEW c \in Nat, NEW r \in Nat, NEW bit, NEW pix, pix.glyph = NoGlyph, r + 1 >= Len(k)
  PROVE  PixelShows(pix, k, c, r, bit)
<1>0. k \in Seq(Seq(Glyphs)) /\ k[Len(k)] = <<>>
  BY Zenon DEF OneLineMore
<1>1. Len(k) \in Nat
  BY <1>0
<1>2. r + 1 \notin 1..Len(k) \/ r + 1 = Len(k)
  BY <1>1
<1>3. c + 1 \notin 1..Len(<<>>)
  OBVIOUS
<1>4. QED
  BY <1>0, <1>2, <1>3, Zenon DEF PixelShows


-----------------------------------------------------------------------------
(* The writer's fields, set one at a time.                                 *)
SetsField(v) ==
  /\ \A x : [v EXCEPT !.buffer = x] = Writer(v.dimensions, x, v.column, v.row, v.text, v.background, v.out)
  /\ \A x : [v EXCEPT !.column = x] = Writer(v.dimensions, v.buffer, x, v.row, v.text, v.background, v.out)
  /\ \A x : [v EXCEPT !.row = x] = Writer(v.dimensions, v.buffer, v.column, x, v.text, v.background, v.out)
  /\ \A x : [v EXCEPT !.text = x] = Writer(v.dimensions, v.buffer, v.column, v.row, x, v.background, v.out)
  /\ \A x : [v EXCEPT !.background = x] = Writer(v.dimensions, v.buffer, v.column, v.row, v.text, x, v.out)
  /\ \A x : [v EXCEPT !.out = x] = Writer(v.dimensions, v.buffer, v.column, v.row, v.text, v.background, x)

LEMMA WriterSets ==
  ASSUME NEW v, IsWriter(v)
  PROVE  SetsField(v)
<1>1. v = Writer(v.dimensions, v.buffer, v.column, v.row, v.text, v.background, v.out)
  BY Zenon DEF IsWriter
<1>2. \A x : [v EXCEPT !.buffer = x] = Writer(v.dimensions, x, v.column, v.row, v.text, v.background, v.out)
  BY <1>1 DEF Writer
<1>3. \A x : [v EXCEPT !.column = x] = Writer(v.dimensions, v.buffer, x, v.row, v.text, v.background, v.out)
  BY <1>1 DEF Writer
<1>4. \A x : [v EXCEPT !.row = x] = Writer(v.dimensions, v.buffer, v.column, x, v.text, v.background, v.out)
  BY <1>1 DEF Writer
<1>5. \A x : [v EXCEPT !.text = x] = Writer(v.dimensions, v.buffer, v.column, v.row, x, v.background, v.out)
  BY <1>1 DEF Writer
<1>6. \A x : [v EXCEPT !.background = x] = Writer(v.dimensions, v.buffer, v.column, v.row, v.text, x, v.out)
  BY <1>1 DEF Writer
<1>7. \A x : [v EXCEPT !.out = x] = Writer(v.dimensions, v.buffer, v.column, v.row, v.text, v.background, x)
  BY <1>1 DEF Writer
<1>8. QED
  BY <1>2, <1>3, <1>4, <1>5, <1>6, <1>7, Zenon DEF SetsField

(* A writer is one again when its fields are as they should be.            *)
FieldsOK(d, b, c, r, t, g, o) ==
  /\ d[1] \in Nat /\ d[2] \in Nat /\ b = [p \in 0..(d[1] * d[2] - 1) |-> b[p]]
  /\ c \in Nat /\ r \in Nat /\ t \in TextColors /\ g \in Backgrounds /\ o \in {"Ok", "panic", "halt"}

LEMMA WriterOf ==
  \A d, b, c, r, t, g, o : FieldsOK(d, b, c, r, t, g, o) => IsWriter(Writer(d, b, c, r, t, g, o))
<1>0. SUFFICES ASSUME NEW d, NEW b, NEW c, NEW r, NEW t, NEW g, NEW o, FieldsOK(d, b, c, r, t, g, o)
               PROVE  IsWriter(Writer(d, b, c, r, t, g, o))
  BY Zenon
<1>1. PICK v : v = Writer(d, b, c, r, t, g, o)
  OBVIOUS
<1>2. /\ v.dimensions = d /\ v.buffer = b /\ v.column = c /\ v.row = r
      /\ v.text = t /\ v.background = g /\ v.out = o
  BY <1>1 DEF Writer
<1>3. IsWriter(v)
  BY <1>0, <1>1, <1>2, Zenon DEF IsWriter, Size, FieldsOK
<1>4. QED
  BY <1>1, <1>3, Zenon

-----------------------------------------------------------------------------
(* put_char on a cell of the screen: it does not panic, and the pixels of  *)
(* the cell are drawn.                                                     *)
InCell(v, p) ==
  /\ (p % v.dimensions[1]) - v.column * VGA_FONT_WIDTH \in 0..(VGA_FONT_WIDTH - 1)
  /\ (p \div v.dimensions[1]) - v.row * VGA_FONT_HEIGHT \in 0..(VGA_FONT_HEIGHT - 1)

BitAt(v, p) ==
  ((p \div v.dimensions[1]) - v.row * VGA_FONT_HEIGHT) * VGA_FONT_WIDTH
    + ((p % v.dimensions[1]) - v.column * VGA_FONT_WIDTH)

Stamped(v, c) ==
  [p \in DOMAIN v.buffer |-> IF InCell(v, p) THEN Drawn(v, c, BitAt(v, p)) ELSE v.buffer[p]]

(* The cell of a column is on the screen when the column is.               *)
LEMMA CellFits ==
  ASSUME NEW m \in Nat \ {0}, NEW n \in Nat, NEW k \in Nat
  PROVE  k < n \div m <=> ~(k * m + m > n)
<1>1. PICK q \in Nat, r \in 0..(m - 1) : n = q * m + r /\ n \div m = q
  <2>1. n \div m \in Nat /\ n % m \in 0..(m - 1) /\ n = (n \div m) * m + (n % m)
    BY DivMod, Zenon
  <2>2. QED
    BY <2>1, Zenon
<1>2. CASE k < q
  <2>1. (k + 1) * m <= q * m /\ (k + 1) * m = k * m + m /\ k * m \in Nat /\ q * m \in Nat
    BY <1>2, ProductOrder
  <2>2. QED
    BY <1>1, <1>2, <2>1
<1>3. CASE ~(k < q)
  <2>1. q * m <= k * m /\ k * m \in Nat /\ q * m \in Nat
    BY <1>3, ProductOrder
  <2>2. QED
    BY <1>1, <1>3, <2>1
<1>4. QED
  BY <1>2, <1>3, Zenon

LEMMA PutCharIs ==
  ASSUME NEW v, IsWriter(v), NEW c
  PROVE  put_char(v, c) = IF v.column < Cols(v) /\ v.row < Rows(v)
                          THEN [v EXCEPT !.buffer = Stamped(v, c)]
                          ELSE [v EXCEPT !.out = "panic"]
<1>0. v.dimensions[1] \in Nat /\ v.dimensions[2] \in Nat /\ v.column \in Nat /\ v.row \in Nat
  BY Zenon DEF IsWriter
<1>1. v.column < Cols(v) <=> ~(v.column * VGA_FONT_WIDTH + VGA_FONT_WIDTH > v.dimensions[1])
  BY <1>0, CellFits, FontAssumption, Zenon DEF Cols
<1>2. v.row < Rows(v) <=> ~(v.row * VGA_FONT_HEIGHT + VGA_FONT_HEIGHT > v.dimensions[2])
  BY <1>0, CellFits, FontAssumption, Zenon DEF Rows
<1>4. CASE v.column < Cols(v) /\ v.row < Rows(v)
  <2>1. put_char(v, c) = [v EXCEPT !.buffer = [p \in DOMAIN v.buffer |->
            IF InCell(v, p) THEN Drawn(v, c, BitAt(v, p)) ELSE v.buffer[p]]]
    BY <1>1, <1>2, <1>4, Zenon DEF put_char, InCell, BitAt
  <2>2. QED
    BY <1>4, <2>1, Zenon DEF Stamped
<1>5. CASE ~(v.column < Cols(v) /\ v.row < Rows(v))
  BY <1>1, <1>2, <1>5, Zenon DEF put_char
<1>6. QED
  BY <1>4, <1>5, Zenon


(* The cell a pixel is in, and its bit there.                              *)
LEMMA PixelCell ==
  ASSUME NEW v, IsWriter(v),
         NEW x \in 0..(v.dimensions[1] - 1), NEW y \in 0..(v.dimensions[2] - 1),
         NEW p, p = y * v.dimensions[1] + x
  PROVE  /\ p \in DOMAIN v.buffer
         /\ InCell(v, p) <=> x \div VGA_FONT_WIDTH = v.column /\ y \div VGA_FONT_HEIGHT = v.row
         /\ InCell(v, p) => BitAt(v, p) = BitOf(x, y)
<1>0. /\ v.dimensions[1] \in Nat /\ v.dimensions[2] \in Nat /\ v.column \in Nat /\ v.row \in Nat
      /\ DOMAIN v.buffer = 0..(v.dimensions[1] * v.dimensions[2] - 1)
  BY Zenon DEF IsWriter, Size
<1>1. PICK width \in Nat, height \in Nat : width = v.dimensions[1] /\ height = v.dimensions[2]
  BY <1>0, Zenon
<1>2. x \in Nat /\ y \in Nat /\ y < height /\ x \in 0..(width - 1) /\ p = y * width + x
  BY <1>1
<1>3. p % width = x /\ p \div width = y /\ (p \in 0..(width * height - 1) <=> y < height)
  BY <1>2, PlaceIs
<1>4. p \in DOMAIN v.buffer
  BY <1>0, <1>1, <1>2, <1>3, Zenon
<1>5. /\ x \div VGA_FONT_WIDTH = v.column <=> x - v.column * VGA_FONT_WIDTH \in 0..(VGA_FONT_WIDTH - 1)
      /\ x = (x \div VGA_FONT_WIDTH) * VGA_FONT_WIDTH + (x % VGA_FONT_WIDTH)
      /\ x % VGA_FONT_WIDTH \in 0..(VGA_FONT_WIDTH - 1)
  BY <1>0, <1>2, DivMod, FontAssumption, Zenon
<1>6. /\ y \div VGA_FONT_HEIGHT = v.row <=> y - v.row * VGA_FONT_HEIGHT \in 0..(VGA_FONT_HEIGHT - 1)
      /\ y = (y \div VGA_FONT_HEIGHT) * VGA_FONT_HEIGHT + (y % VGA_FONT_HEIGHT)
      /\ y % VGA_FONT_HEIGHT \in 0..(VGA_FONT_HEIGHT - 1)
  BY <1>0, <1>2, DivMod, FontAssumption, Zenon
<1>7. InCell(v, p) <=> x \div VGA_FONT_WIDTH = v.column /\ y \div VGA_FONT_HEIGHT = v.row
  BY <1>1, <1>3, <1>5, <1>6, Zenon DEF InCell
<1>8. ASSUME InCell(v, p) PROVE BitAt(v, p) = BitOf(x, y)
  <2>1. PICK a \in Nat, b \in Nat : a = v.column * VGA_FONT_WIDTH /\ b = v.row * VGA_FONT_HEIGHT
    <3>1. v.column * VGA_FONT_WIDTH \in Nat /\ v.row * VGA_FONT_HEIGHT \in Nat
      <4>1. \A m, n \in Nat : m * n \in Nat
        OBVIOUS
      <4>2. QED
        BY <1>0, <4>1, FontAssumption, Zenon
    <3>2. QED
      BY <3>1, Zenon
  <2>2. PICK i \in Nat, j \in Nat : i = x % VGA_FONT_WIDTH /\ j = y % VGA_FONT_HEIGHT
    BY <1>5, <1>6, FontAssumption
  <2>3. x = a + i /\ y = b + j
    BY <1>5, <1>6, <1>7, <1>8, <2>1, <2>2, Zenon
  <2>4. x - a = i /\ y - b = j
    BY <2>3
  <2>5. BitAt(v, p) = (y - b) * VGA_FONT_WIDTH + (x - a)
    BY <1>1, <1>3, <2>1, Zenon DEF BitAt
  <2>6. QED
    BY <2>2, <2>4, <2>5, Zenon DEF BitOf
<1>9. QED
  BY <1>4, <1>7, <1>8, Zenon

LEMMA GlyphShown ==
  ASSUME NEW v, IsWriter(v), NEW c \in Nat, NEW ls, Logged(v, ls), NEW g,
         g = [glyph |-> get_char_glyph(c), text |-> v.text, background |-> v.background],
         NEW k, Grown(k, ls, g),
         NEW u, u.dimensions = v.dimensions, u.buffer = Stamped(v, c)
  PROVE  Shows(u, k)
<1>0. /\ v.dimensions[1] \in Nat /\ v.dimensions[2] \in Nat /\ v.column \in Nat /\ v.row \in Nat
      /\ ls \in Seq(Seq(Glyphs)) /\ Len(ls) = v.row + 1 /\ Len(ls[Len(ls)]) = v.column /\ Shows(v, ls)
  BY Zenon DEF IsWriter, Logged
<1>1. SUFFICES ASSUME NEW x \in 0..(v.dimensions[1] - 1), NEW y \in 0..(v.dimensions[2] - 1)
               PROVE  PixelShows(u.buffer[y * v.dimensions[1] + x], k,
                                 x \div VGA_FONT_WIDTH, y \div VGA_FONT_HEIGHT, BitOf(x, y))
  BY Zenon DEF Shows
<1>2. PICK p : p = y * v.dimensions[1] + x
  OBVIOUS
<1>3. PICK i \in Nat, j \in Nat : i = x \div VGA_FONT_WIDTH /\ j = y \div VGA_FONT_HEIGHT
  <2>1. x \in Nat /\ y \in Nat
    BY <1>0
  <2>2. x \div VGA_FONT_WIDTH \in Nat /\ y \div VGA_FONT_HEIGHT \in Nat
    BY <2>1, DivMod, FontAssumption, Zenon
  <2>3. QED
    BY <2>2, Zenon
<1>4. PixelShows(v.buffer[p], ls, i, j, BitOf(x, y))
  BY <1>0, <1>2, <1>3, Zenon DEF Shows
<1>5. /\ p \in DOMAIN v.buffer
      /\ InCell(v, p) <=> i = v.column /\ j = v.row
      /\ InCell(v, p) => BitAt(v, p) = BitOf(x, y)
  BY <1>2, <1>3, PixelCell, Zenon
<1>6. u.buffer[p] = IF InCell(v, p) THEN Drawn(v, c, BitAt(v, p)) ELSE v.buffer[p]
  BY <1>5, Zenon DEF Stamped
<1>7. Len(ls) > 0 /\ (j + 1 = Len(ls) <=> j = v.row)
  <2>1. PICK n \in Nat : n = v.row
    BY <1>0, Zenon
  <2>2. n + 1 > 0 /\ (j + 1 = n + 1 <=> j = n)
    OBVIOUS
  <2>3. QED
    BY <1>0, <2>1, <2>2, Zenon
<1>8. CASE InCell(v, p)
  <2>1. g.glyph = get_char_glyph(c) /\ g.text = v.text /\ g.background = v.background
    OBVIOUS
  <2>2. u.buffer[p] = Pixel(g.glyph, BitOf(x, y), g.text, g.background)
    BY <1>5, <1>6, <1>8, <2>1, Zenon DEF Drawn
  <2>3. PixelShows(Pixel(g.glyph, BitOf(x, y), g.text, g.background), k, i, j, BitOf(x, y))
    BY <1>0, <1>5, <1>7, <1>8, PixelDrawn, Zenon
  <2>4. QED
    BY <1>2, <1>3, <2>2, <2>3, Zenon
<1>9. CASE ~InCell(v, p)
  <2>1. ~(j + 1 = Len(ls) /\ i = Len(ls[Len(ls)]))
    BY <1>0, <1>5, <1>7, <1>9, Zenon
  <2>2. PixelShows(v.buffer[p], k, i, j, BitOf(x, y))
    BY <1>0, <1>4, <1>7, <2>1, PixelKept, Zenon
  <2>3. QED
    BY <1>2, <1>3, <1>6, <1>9, <2>2, Zenon
<1>10. QED
  BY <1>8, <1>9, Zenon


-----------------------------------------------------------------------------
(* scroll: every line moves up, and the pixels of the last one are blank.  *)
Moved(v) ==
  [p \in 0..(Size(v) - 1) |->
     IF p + VGA_FONT_HEIGHT * v.dimensions[1] \in DOMAIN v.buffer
     THEN v.buffer[p + VGA_FONT_HEIGHT * v.dimensions[1]] ELSE Blank(v.background)]

LEMMA ScrollIs ==
  ASSUME NEW v, IsWriter(v)
  PROVE  scroll(v, VGA_FONT_HEIGHT) = [v EXCEPT !.buffer = Moved(v)]
<1>1. PICK s, n : s = VGA_FONT_HEIGHT * v.dimensions[1] /\ n = Size(v)
  OBVIOUS
<1>2. \A p \in 0..(n - 1) : Filled(v)[p] = Blank(v.background)
  <2>1. n \in Nat
    <3>1. \A i, j \in Nat : i * j \in Nat
      OBVIOUS
    <3>2. QED
      BY <1>1, <3>1, Zenon DEF IsWriter, Size
  <2>2. 0..(n - 1) \subseteq Nat
    BY <2>1
  <2>3. QED
    BY <2>2, Zenon DEF Filled
<1>3. Moved(v) = [p \in 0..(n - 1) |-> IF p + s \in DOMAIN v.buffer THEN v.buffer[p + s] ELSE Filled(v)[p]]
  BY <1>1, <1>2, Zenon DEF Moved
<1>4. QED
  BY <1>1, <1>3, Zenon DEF scroll, Shifted

(* The last lines of the pixels have no line of text below them.           *)
LEMMA LastRow ==
  ASSUME NEW m \in Nat \ {0}, NEW height \in Nat, NEW y \in Nat, ~(y + m < height)
  PROVE  y \div m + 1 >= height \div m
<1>1. PICK q \in Nat, r \in 0..(m - 1) : y = q * m + r /\ y \div m = q
  <2>1. y \div m \in Nat /\ y % m \in 0..(m - 1) /\ y = (y \div m) * m + (y % m)
    BY DivMod, Zenon
  <2>2. QED
    BY <2>1, Zenon
<1>2. PICK a \in Nat, b \in 0..(m - 1) : height = a * m + b /\ height \div m = a
  <2>1. height \div m \in Nat /\ height % m \in 0..(m - 1) /\ height = (height \div m) * m + (height % m)
    BY DivMod, Zenon
  <2>2. QED
    BY <2>1, Zenon
<1>3. SUFFICES ASSUME q + 2 <= a PROVE FALSE
  BY <1>1, <1>2
<1>4. (q + 2) * m <= a * m /\ (q + 2) * m = q * m + m + m /\ q * m \in Nat /\ a * m \in Nat
  BY <1>3, ProductOrder
<1>5. QED
  BY <1>1, <1>2, <1>4

LEMMA ScrollShows ==
  ASSUME NEW v, IsWriter(v), NEW ls \in Seq(Seq(Glyphs)), Len(ls) = Rows(v), Len(ls) > 0,
         Shows(v, ls), NEW k, OneLineMore(k, ls, 1),
         NEW u, u.dimensions = v.dimensions, u.buffer = Moved(v)
  PROVE  Shows(u, k)
<1>0. /\ v.dimensions[1] \in Nat /\ v.dimensions[2] \in Nat
      /\ DOMAIN v.buffer = 0..(v.dimensions[1] * v.dimensions[2] - 1)
  BY Zenon DEF IsWriter, Size
<1>1. PICK width \in Nat, height \in Nat : width = v.dimensions[1] /\ height = v.dimensions[2]
  BY <1>0, Zenon
<1>2. SUFFICES ASSUME NEW x \in 0..(width - 1), NEW y \in 0..(height - 1)
               PROVE  PixelShows(u.buffer[y * width + x], k,
                                 x \div VGA_FONT_WIDTH, y \div VGA_FONT_HEIGHT, BitOf(x, y))
  BY <1>1, Zenon DEF Shows
<1>z. PICK z \in Nat : z = y + VGA_FONT_HEIGHT
  BY FontAssumption
<1>p. PICK p : p = y * width + x
  OBVIOUS
<1>q. PICK q : q = p + VGA_FONT_HEIGHT * width
  OBVIOUS
<1>3. p = y * width + x /\ z = y + VGA_FONT_HEIGHT /\ q = p + VGA_FONT_HEIGHT * width
  BY <1>z, <1>p, <1>q, Zenon
<1>4. q = z * width + x
  <2>1. PICK h \in Nat : h = VGA_FONT_HEIGHT
    BY FontAssumption
  <2>2. (y + h) * width = y * width + h * width /\ y * width \in Nat /\ h * width \in Nat
    OBVIOUS
  <2>3. q = (y * width + x) + h * width /\ z = y + h
    BY <1>3, <2>1, Zenon
  <2>4. QED
    BY <2>2, <2>3
<1>5. p \in 0..(width * height - 1) /\ (q \in 0..(width * height - 1) <=> z < height)
  <2>1. y \in Nat /\ y < height
    OBVIOUS
  <2>2. p \in 0..(width * height - 1) <=> y < height
    BY <1>3, <2>1, PlaceIs
  <2>3. q \in 0..(width * height - 1) <=> z < height
    BY <1>4, PlaceIs
  <2>4. QED
    BY <2>1, <2>2, <2>3, Zenon
<1>6. u.buffer[p] = IF z < height THEN v.buffer[q] ELSE Blank(v.background)
  BY <1>0, <1>1, <1>3, <1>5, Zenon DEF Moved, Size
<1>7. PICK i \in Nat, j \in Nat : i = x \div VGA_FONT_WIDTH /\ j = y \div VGA_FONT_HEIGHT
  <2>1. x \in Nat /\ y \in Nat
    OBVIOUS
  <2>2. x \div VGA_FONT_WIDTH \in Nat /\ y \div VGA_FONT_HEIGHT \in Nat
    BY <2>1, DivMod, FontAssumption, Zenon
  <2>3. QED
    BY <2>2, Zenon
<1>8. CASE z < height
  <2>1. z \div VGA_FONT_HEIGHT = j + 1 /\ z % VGA_FONT_HEIGHT = y % VGA_FONT_HEIGHT
    <3>1. y \in Nat
      OBVIOUS
    <3>2. QED
      BY <1>3, <1>7, <3>1, DivModNext, FontAssumption, Zenon
  <2>2. z \in 0..(height - 1)
    BY <1>8
  <2>3. PixelShows(v.buffer[q], ls, i, z \div VGA_FONT_HEIGHT, BitOf(x, z))
    BY <1>1, <1>4, <1>7, <2>2, Zenon DEF Shows
  <2>4. PixelShows(v.buffer[q], ls, i, j + 1, BitOf(x, y))
    BY <2>1, <2>3, Zenon DEF BitOf
  <2>5. PixelShows(v.buffer[q], k, i, j, BitOf(x, y))
    BY <2>4, PixelStays, Zenon
  <2>6. QED
    BY <1>3, <1>6, <1>7, <1>8, <2>5, Zenon
<1>9. CASE ~(z < height)
  <2>1. j + 1 >= Rows(v)
    <3>1. y \in Nat
      OBVIOUS
    <3>2. QED
      BY <1>1, <1>3, <1>7, <1>9, <3>1, LastRow, FontAssumption, Zenon DEF Rows
  <2>2. Len(k) = Rows(v)
    <3>1. Len(k) = Len(ls) + 1 - 1
      BY Zenon DEF OneLineMore
    <3>2. Len(ls) \in Nat
      OBVIOUS
    <3>3. Len(ls) + 1 - 1 = Len(ls)
      BY <3>2
    <3>4. QED
      BY <3>1, <3>3, Zenon
  <2>3. Blank(v.background).glyph = NoGlyph
    BY DEF Blank, Pixel
  <2>4. PixelShows(Blank(v.background), k, i, j, BitOf(x, y))
    BY <2>1, <2>2, <2>3, PixelBlank, Zenon
  <2>5. QED
    BY <1>3, <1>6, <1>7, <1>9, <2>4, Zenon
<1>10. QED
  BY <1>8, <1>9, Zenon


-----------------------------------------------------------------------------
(* A step of the writer: the screen is the same one, and only a screen     *)
(* without room makes it panic.                                            *)
After(u, v) ==
  /\ IsWriter(u) /\ u.dimensions = v.dimensions
  /\ u.out = "panic" => v.out = "panic" \/ Cols(v) = 0 \/ Rows(v) = 0

(* The writer with one field set is a writer.                              *)
LEMMA WriterStays ==
  ASSUME NEW v, IsWriter(v)
  PROVE  /\ \A x \in Nat : IsWriter([v EXCEPT !.column = x]) /\ IsWriter([v EXCEPT !.row = x])
         /\ \A x \in TextColors : IsWriter([v EXCEPT !.text = x])
         /\ \A x \in Backgrounds : IsWriter([v EXCEPT !.background = x])
         /\ \A x \in {"Ok", "panic", "halt"} : IsWriter([v EXCEPT !.out = x])
         /\ \A x : x = [p \in 0..(Size(v) - 1) |-> x[p]] => IsWriter([v EXCEPT !.buffer = x])
<1>0. /\ v.dimensions[1] \in Nat /\ v.dimensions[2] \in Nat
      /\ v.buffer = [p \in 0..(v.dimensions[1] * v.dimensions[2] - 1) |-> v.buffer[p]]
      /\ v.column \in Nat /\ v.row \in Nat
      /\ v.text \in TextColors /\ v.background \in Backgrounds
      /\ v.out \in {"Ok", "panic", "halt"}
  BY Zenon DEF IsWriter, Size
<1>1. SetsField(v)
  BY WriterSets, Zenon
<1>2. ASSUME NEW x \in Nat PROVE IsWriter([v EXCEPT !.column = x])
  <2>1. FieldsOK(v.dimensions, v.buffer, x, v.row, v.text, v.background, v.out)
    BY <1>0, Zenon DEF FieldsOK
  <2>2. [v EXCEPT !.column = x] = Writer(v.dimensions, v.buffer, x, v.row, v.text, v.background, v.out)
    BY <1>1, Zenon DEF SetsField
  <2>3. IsWriter(Writer(v.dimensions, v.buffer, x, v.row, v.text, v.background, v.out))
    BY <2>1, WriterOf, Zenon
  <2>4. QED
    BY <2>2, <2>3, Zenon
<1>3. ASSUME NEW x \in Nat PROVE IsWriter([v EXCEPT !.row = x])
  <2>1. FieldsOK(v.dimensions, v.buffer, v.column, x, v.text, v.background, v.out)
    BY <1>0, Zenon DEF FieldsOK
  <2>2. [v EXCEPT !.row = x] = Writer(v.dimensions, v.buffer, v.column, x, v.text, v.background, v.out)
    BY <1>1, Zenon DEF SetsField
  <2>3. IsWriter(Writer(v.dimensions, v.buffer, v.column, x, v.text, v.background, v.out))
    BY <2>1, WriterOf, Zenon
  <2>4. QED
    BY <2>2, <2>3, Zenon
<1>4. ASSUME NEW x \in TextColors PROVE IsWriter([v EXCEPT !.text = x])
  <2>1. FieldsOK(v.dimensions, v.buffer, v.column, v.row, x, v.background, v.out)
    BY <1>0, Zenon DEF FieldsOK
  <2>2. [v EXCEPT !.text = x] = Writer(v.dimensions, v.buffer, v.column, v.row, x, v.background, v.out)
    BY <1>1, Zenon DEF SetsField
  <2>3. IsWriter(Writer(v.dimensions, v.buffer, v.column, v.row, x, v.background, v.out))
    BY <2>1, WriterOf, Zenon
  <2>4. QED
    BY <2>2, <2>3, Zenon
<1>5. ASSUME NEW x \in Backgrounds PROVE IsWriter([v EXCEPT !.background = x])
  <2>1. FieldsOK(v.dimensions, v.buffer, v.column, v.row, v.text, x, v.out)
    BY <1>0, Zenon DEF FieldsOK
  <2>2. [v EXCEPT !.background = x] = Writer(v.dimensions, v.buffer, v.column, v.row, v.text, x, v.out)
    BY <1>1, Zenon DEF SetsField
  <2>3. IsWriter(Writer(v.dimensions, v.buffer, v.column, v.row, v.text, x, v.out))
    BY <2>1, WriterOf, Zenon
  <2>4. QED
    BY <2>2, <2>3, Zenon
<1>6. ASSUME NEW x \in {"Ok", "panic", "halt"} PROVE IsWriter([v EXCEPT !.out = x])
  <2>1. FieldsOK(v.dimensions, v.buffer, v.column, v.row, v.text, v.background, x)
    BY <1>0, Zenon DEF FieldsOK
  <2>2. [v EXCEPT !.out = x] = Writer(v.dimensions, v.buffer, v.column, v.row, v.text, v.background, x)
    BY <1>1, Zenon DEF SetsField
  <2>3. IsWriter(Writer(v.dimensions, v.buffer, v.column, v.row, v.text, v.background, x))
    BY <2>1, WriterOf, Zenon
  <2>4. QED
    BY <2>2, <2>3, Zenon
<1>7. ASSUME NEW x, x = [p \in 0..(Size(v) - 1) |-> x[p]] PROVE IsWriter([v EXCEPT !.buffer = x])
  <2>1. FieldsOK(v.dimensions, x, v.column, v.row, v.text, v.background, v.out)
    BY <1>0, <1>7, Zenon DEF FieldsOK, Size
  <2>2. [v EXCEPT !.buffer = x] = Writer(v.dimensions, x, v.column, v.row, v.text, v.background, v.out)
    BY <1>1, Zenon DEF SetsField
  <2>3. IsWriter(Writer(v.dimensions, x, v.column, v.row, v.text, v.background, v.out))
    BY <2>1, WriterOf, Zenon
  <2>4. QED
    BY <2>2, <2>3, Zenon
<1>8. QED
  BY <1>2, <1>3, <1>4, <1>5, <1>6, <1>7, Zenon

LEMMA BufferStays ==
  ASSUME NEW v, IsWriter(v), NEW x, x = [p \in 0..(Size(v) - 1) |-> x[p]]
  PROVE  IsWriter([v EXCEPT !.buffer = x])
BY WriterStays, Zenon

(* The fields of a writer one field of which was set.                      *)
Fields(u, d, b, c, r, t, g, o) ==
  /\ u.dimensions = d /\ u.buffer = b /\ u.column = c /\ u.row = r
  /\ u.text = t /\ u.background = g /\ u.out = o

LEMMA WriterReads ==
  ASSUME NEW v, IsWriter(v), NEW x
  PROVE  /\ Fields([v EXCEPT !.buffer = x], v.dimensions, x, v.column, v.row, v.text, v.background, v.out)
         /\ Fields([v EXCEPT !.column = x], v.dimensions, v.buffer, x, v.row, v.text, v.background, v.out)
         /\ Fields([v EXCEPT !.row = x], v.dimensions, v.buffer, v.column, x, v.text, v.background, v.out)
         /\ Fields([v EXCEPT !.text = x], v.dimensions, v.buffer, v.column, v.row, x, v.background, v.out)
         /\ Fields([v EXCEPT !.background = x], v.dimensions, v.buffer, v.column, v.row, v.text, x, v.out)
         /\ Fields([v EXCEPT !.out = x], v.dimensions, v.buffer, v.column, v.row, v.text, v.background, x)
<1>1. v = Writer(v.dimensions, v.buffer, v.column, v.row, v.text, v.background, v.out)
  BY Zenon DEF IsWriter
<1>2. Fields([v EXCEPT !.buffer = x], v.dimensions, x, v.column, v.row, v.text, v.background, v.out)
  BY <1>1 DEF Writer, Fields
<1>3. Fields([v EXCEPT !.column = x], v.dimensions, v.buffer, x, v.row, v.text, v.background, v.out)
  BY <1>1 DEF Writer, Fields
<1>4. Fields([v EXCEPT !.row = x], v.dimensions, v.buffer, v.column, x, v.text, v.background, v.out)
  BY <1>1 DEF Writer, Fields
<1>5. Fields([v EXCEPT !.text = x], v.dimensions, v.buffer, v.column, v.row, x, v.background, v.out)
  BY <1>1 DEF Writer, Fields
<1>6. Fields([v EXCEPT !.background = x], v.dimensions, v.buffer, v.column, v.row, v.text, x, v.out)
  BY <1>1 DEF Writer, Fields
<1>7. Fields([v EXCEPT !.out = x], v.dimensions, v.buffer, v.column, v.row, v.text, v.background, x)
  BY <1>1 DEF Writer, Fields
<1>8. QED
  BY <1>2, <1>3, <1>4, <1>5, <1>6, <1>7, Zenon

LEMMA BufferReads ==
  ASSUME NEW v, IsWriter(v), NEW x
  PROVE  Fields([v EXCEPT !.buffer = x], v.dimensions, x, v.column, v.row, v.text, v.background, v.out)
BY WriterReads, Zenon


(* new_line leaves a writer: at the start of the next line, or of the last *)
(* one when there is no next.                                              *)
LEMMA NewLineIs ==
  ASSUME NEW v, IsWriter(v), NEW u, u = new_line(v)
  PROVE  /\ After(u, v)
         /\ Rows(v) # 0 /\ v.row < Rows(v) - 1 =>
              Fields(u, v.dimensions, v.buffer, 0, v.row + 1, v.text, v.background, v.out)
         /\ Rows(v) # 0 /\ ~(v.row < Rows(v) - 1) =>
              Fields(u, v.dimensions, Moved(v), 0, v.row, v.text, v.background, v.out)
<1>0. PICK a : a = [v EXCEPT !.column = 0]
  OBVIOUS
<1>1. IsWriter(a) /\ Fields(a, v.dimensions, v.buffer, 0, v.row, v.text, v.background, v.out)
  BY <1>0, WriterStays, WriterReads, Zenon
<1>2. v.row \in Nat /\ Rows(v) \in Nat
  <2>1. v.row \in Nat /\ v.dimensions[2] \in Nat
    BY Zenon DEF IsWriter
  <2>2. QED
    BY <2>1, DivMod, FontAssumption, Zenon DEF Rows
<1>3. a.row = v.row /\ a.dimensions = v.dimensions /\ a.out = v.out
  BY <1>1, Zenon DEF Fields
<1>n. a.row >= Rows(v) - 1 <=> ~(v.row < Rows(v) - 1)
  <2>1. PICK m \in Nat, n \in Nat : m = v.row /\ n = Rows(v)
    BY <1>2, Zenon
  <2>2. m >= n - 1 <=> ~(m < n - 1)
    OBVIOUS
  <2>3. QED
    BY <1>3, <2>1, <2>2, Zenon
<1>4. CASE Rows(v) = 0 /\ overflow_checks
  <2>1. u = [a EXCEPT !.out = "panic"]
    BY <1>0, <1>4, Zenon DEF new_line
  <2>2. IsWriter(u) /\ Fields(u, a.dimensions, a.buffer, a.column, a.row, a.text, a.background, "panic")
    BY <1>1, <2>1, WriterStays, WriterReads, Zenon
  <2>3. QED
    BY <1>3, <1>4, <2>2, Zenon DEF After, Fields
<1>5. CASE Rows(v) # 0 /\ a.row >= Rows(v) - 1
  <2>1. u = scroll(a, VGA_FONT_HEIGHT)
    BY <1>0, <1>5, Zenon DEF new_line
  <2>2. u = [a EXCEPT !.buffer = Moved(a)]
    BY <1>1, <2>1, ScrollIs, Zenon
  <2>3. Moved(a) = [p \in 0..(Size(a) - 1) |-> Moved(a)[p]] /\ Moved(a) = Moved(v)
    BY <1>1, Zenon DEF Moved, Size, Fields
  <2>4. IsWriter(u) /\ Fields(u, a.dimensions, Moved(a), a.column, a.row, a.text, a.background, a.out)
    <3>1. PICK b : b = Moved(a)
      OBVIOUS
    <3>2. b = [p \in 0..(Size(a) - 1) |-> b[p]] /\ u = [a EXCEPT !.buffer = b]
      BY <2>2, <2>3, <3>1, Zenon
    <3>3. IsWriter(u)
      <4>1. IsWriter([a EXCEPT !.buffer = b])
        BY <1>1, <3>2, BufferStays, Zenon
      <4>2. QED
        BY <3>2, <4>1, Zenon
    <3>4. Fields(u, a.dimensions, b, a.column, a.row, a.text, a.background, a.out)
      <4>1. Fields([a EXCEPT !.buffer = b], a.dimensions, b, a.column, a.row, a.text, a.background, a.out)
        BY <1>1, BufferReads, Zenon
      <4>2. QED
        BY <3>2, <4>1, Zenon
    <3>5. QED
      BY <3>1, <3>3, <3>4, Zenon
  <2>5. Fields(u, v.dimensions, Moved(v), 0, v.row, v.text, v.background, v.out)
    BY <1>1, <2>3, <2>4, Zenon DEF Fields
  <2>6. ~(v.row < Rows(v) - 1)
    BY <1>5, <1>n, Zenon
  <2>7. After(u, v)
    BY <2>4, <2>5, Zenon DEF After, Fields
  <2>8. QED
    BY <2>5, <2>6, <2>7, Zenon
<1>6. CASE ~(Rows(v) = 0 /\ overflow_checks) /\ ~(Rows(v) # 0 /\ a.row >= Rows(v) - 1)
  <2>1. u = [a EXCEPT !.row = a.row + 1]
    BY <1>0, <1>6, Zenon DEF new_line
  <2>2. a.row + 1 \in Nat
    BY <1>2, <1>3
  <2>3. IsWriter(u) /\ Fields(u, a.dimensions, a.buffer, a.column, a.row + 1, a.text, a.background, a.out)
    <3>1. PICK n \in Nat : n = a.row + 1
      BY <2>2, Zenon
    <3>2. u = [a EXCEPT !.row = n]
      BY <2>1, <3>1, Zenon
    <3>3. IsWriter(u)
      <4>1. IsWriter([a EXCEPT !.row = n])
        BY <1>1, <3>1, <3>2, WriterStays, Zenon
      <4>2. QED
        BY <3>2, <4>1, Zenon
    <3>4. Fields(u, a.dimensions, a.buffer, a.column, n, a.text, a.background, a.out)
      BY <1>1, <3>2, WriterReads, Zenon
    <3>5. QED
      BY <3>1, <3>3, <3>4, Zenon
  <2>4. Fields(u, v.dimensions, v.buffer, 0, v.row + 1, v.text, v.background, v.out)
    BY <1>1, <2>3, Zenon DEF Fields
  <2>5. Rows(v) # 0 => v.row < Rows(v) - 1
    BY <1>6, <1>n, Zenon
  <2>6. After(u, v)
    BY <2>3, <2>4, Zenon DEF After, Fields
  <2>7. QED
    BY <2>4, <2>5, <2>6, Zenon
<1>7. QED
  BY <1>4, <1>5, <1>6, Zenon


NarrowLog(ls, m) == Len(ls[Len(ls)]) = 0 /\ \A r \in 1..Len(ls) : Len(ls[r]) <= m

LEMMA MoreFits ==
  ASSUME NEW ls \in Seq(Seq(Glyphs)), Len(ls) > 0, NEW cut \in {0, 1}, NEW k, OneLineMore(k, ls, cut),
         NEW m \in Nat, \A r \in 1..Len(ls) : Len(ls[r]) <= m
  PROVE  NarrowLog(k, m)
<1>0. k \in Seq(Seq(Glyphs)) /\ Len(k) = Len(ls) + 1 - cut /\ k[Len(k)] = <<>>
  BY Zenon DEF OneLineMore
<1>1. Len(k) \in Nat /\ Len(ls) \in Nat
  BY <1>0
<1>2. PICK a \in Nat, b \in Nat : a = Len(k) /\ b = Len(ls) /\ a = b + 1 - cut
  BY <1>0, <1>1, Zenon
<1>3. Len(<<>>) = 0 /\ 0 <= m
  OBVIOUS
<1>4. ASSUME NEW r \in 1..a, r # a PROVE Len(k[r]) <= m
  <2>1. r + cut \in 1..b
    BY <1>2, <1>4
  <2>2. k[r] = ls[r + cut]
    BY <1>2, <1>4, Zenon DEF OneLineMore
  <2>3. QED
    BY <1>2, <2>1, <2>2, Zenon
<1>5. QED
  BY <1>0, <1>2, <1>3, <1>4, Zenon DEF NarrowLog

(* What is shown depends on the screen alone.                              *)
LEMMA SameShows ==
  ASSUME NEW u, NEW v, u.dimensions = v.dimensions, u.buffer = v.buffer, NEW ls, Shows(v, ls)
  PROVE  Shows(u, ls)
BY DEF Shows

(* The screen shows a log with an empty line more as it is.                *)
LEMMA ShowsMore ==
  ASSUME NEW v, IsWriter(v), NEW ls \in Seq(Seq(Glyphs)), Len(ls) > 0, Shows(v, ls),
         NEW k, OneLineMore(k, ls, 0)
  PROVE  Shows(v, k)
<1>1. v.dimensions[1] \in Nat /\ v.dimensions[2] \in Nat
  BY Zenon DEF IsWriter
<1>2. SUFFICES ASSUME NEW x \in 0..(v.dimensions[1] - 1), NEW y \in 0..(v.dimensions[2] - 1)
               PROVE  PixelShows(v.buffer[y * v.dimensions[1] + x], k,
                                 x \div VGA_FONT_WIDTH, y \div VGA_FONT_HEIGHT, BitOf(x, y))
  BY Zenon DEF Shows
<1>3. x \in Nat /\ y \in Nat
  BY <1>1
<1>4. x \div VGA_FONT_WIDTH \in Nat /\ y \div VGA_FONT_HEIGHT \in Nat
  BY <1>3, DivMod, FontAssumption, Zenon
<1>5. PICK i \in Nat, j \in Nat : i = x \div VGA_FONT_WIDTH /\ j = y \div VGA_FONT_HEIGHT
  BY <1>4, Zenon
<1>6. PICK pix : pix = v.buffer[y * v.dimensions[1] + x]
  OBVIOUS
<1>7. PixelShows(pix, ls, i, j + 0, BitOf(x, y))
  <2>1. j + 0 = j
    OBVIOUS
  <2>2. QED
    BY <1>5, <1>6, <2>1, Zenon DEF Shows
<1>8. 0 \in {0, 1}
  OBVIOUS
<1>9. PixelShows(pix, k, i, j, BitOf(x, y))
  BY <1>7, <1>8, PixelStays, Zenon
<1>10. QED
  BY <1>5, <1>6, <1>9, Zenon

(* new_line and the log: the screen shows the log with a line more.        *)
LEMMA LineShown ==
  ASSUME NEW v, IsWriter(v), v.dimensions = w.dimensions, NEW ls \in Seq(Seq(Glyphs)),
         Len(ls) = v.row + 1, v.row < Rows(v), 0 < Cols(v), Cols(v) \in Nat,
         \A r \in 1..Len(ls) : Len(ls[r]) <= Cols(v),
         Shows(v, ls), NEW u, u = new_line(v)
  PROVE  Logged(u, LogLine(ls))
<1>0. v.row \in Nat /\ Rows(v) \in Nat /\ Rows(v) = Rows(w)
  <2>1. v.row \in Nat /\ v.dimensions[2] \in Nat
    BY Zenon DEF IsWriter
  <2>2. QED
    BY <2>1, DivMod, FontAssumption, Zenon DEF Rows
<1>1. PICK row \in Nat, n \in Nat : row = v.row /\ n = Rows(v)
  BY <1>0, Zenon
<1>2. Len(ls) = row + 1 /\ row < n /\ n # 0 /\ Len(ls) > 0
  BY <1>1
<1>3. PICK k : k = LogLine(ls)
  OBVIOUS
<1>4. Len(Append(ls, <<>>)) = row + 2
  <2>1. <<>> \in Seq(Glyphs)
    OBVIOUS
  <2>2. PICK e \in Seq(Glyphs) : e = <<>>
    BY <2>1, Zenon
  <2>3. Len(Append(ls, e)) = Len(ls) + 1
    OBVIOUS
  <2>4. Len(ls) + 1 = row + 2
    BY <1>2
  <2>5. QED
    BY <2>2, <2>3, <2>4, Zenon
<1>5. ASSUME NEW cut \in {0, 1}, OneLineMore(k, ls, cut), u.row = row + 1 - cut, u.row < n, u.column = 0,
             u.dimensions = v.dimensions, Shows(u, k)
      PROVE  Logged(u, k)
  <2>1. k \in Seq(Seq(Glyphs)) /\ Len(k) = Len(ls) + 1 - cut
    BY <1>5, Zenon DEF OneLineMore
  <2>2. Len(k[Len(k)]) = 0 /\ \A r \in 1..Len(k) : Len(k[r]) <= Cols(v)
    <3>1. PICK m \in Nat : m = Cols(v)
      OBVIOUS
    <3>2. \A r \in 1..Len(ls) : Len(ls[r]) <= m
      BY <3>1, Zenon
    <3>3. NarrowLog(k, m)
      BY <1>2, <1>5, <3>2, MoreFits, Zenon
    <3>4. QED
      BY <3>1, <3>3, Zenon DEF NarrowLog
  <2>3. Len(k) = u.row + 1
    <3>1. (row + 1) + 1 - cut = (row + 1 - cut) + 1
      OBVIOUS
    <3>2. QED
      BY <1>2, <1>5, <2>1, <3>1, Zenon
  <2>4. Cols(u) = Cols(v) /\ Rows(u) = n
    BY <1>1, <1>5, Zenon DEF Cols, Rows
  <2>5. QED
    BY <1>5, <2>1, <2>2, <2>3, <2>4, Zenon DEF Logged

<1>6. CASE row < n - 1
  <2>1. ~(row + 2 > n)
    BY <1>6
  <2>2. k = Append(ls, <<>>)
    BY <1>0, <1>1, <1>3, <1>4, <2>1, Zenon DEF LogLine, LastLines
  <2>3. OneLineMore(k, ls, 0)
    BY <1>2, <2>2, LineMore, Zenon
  <2>4. Fields(u, v.dimensions, v.buffer, 0, v.row + 1, v.text, v.background, v.out)
    BY <1>1, <1>2, <1>6, NewLineIs, Zenon
  <2>5. u.dimensions = v.dimensions /\ u.buffer = v.buffer /\ u.column = 0 /\ u.row = row + 1
    BY <1>1, <2>4, Zenon DEF Fields
  <2>6. u.row = row + 1 - 0 /\ u.row < n
    BY <1>6, <2>5
  <2>7. Shows(u, k)
    <3>1. Shows(v, k)
      BY <1>2, <2>3, ShowsMore, Zenon
    <3>2. QED
      BY <2>5, <3>1, SameShows, Zenon
  <2>8. Logged(u, k)
    BY <1>5, <2>3, <2>5, <2>6, <2>7, Zenon
  <2>9. QED
    BY <1>3, <2>8, Zenon
<1>7. CASE ~(row < n - 1)
  <2>1. row + 2 > n /\ row + 1 = n
    BY <1>2, <1>7
  <2>2. k = Tail(Append(ls, <<>>))
    BY <1>0, <1>1, <1>3, <1>4, <2>1, Zenon DEF LogLine, LastLines
  <2>3. OneLineMore(k, ls, 1)
    BY <1>2, <2>2, LineMore, Zenon
  <2>4. Fields(u, v.dimensions, Moved(v), 0, v.row, v.text, v.background, v.out)
    BY <1>1, <1>2, <1>7, NewLineIs, Zenon
  <2>5. u.dimensions = v.dimensions /\ u.buffer = Moved(v) /\ u.column = 0 /\ u.row = row
    BY <1>1, <2>4, Zenon DEF Fields
  <2>6. u.row = row + 1 - 1 /\ u.row < n
    BY <1>2, <2>5
  <2>7. Len(ls) = Rows(v)
    BY <1>1, <1>2, <2>1, Zenon
  <2>8. Shows(u, k)
    BY <1>2, <2>3, <2>5, <2>7, ScrollShows, Zenon
  <2>9. Logged(u, k)
    BY <1>5, <2>3, <2>5, <2>6, <2>8, Zenon
  <2>10. QED
    BY <1>3, <2>9, Zenon
<1>8. QED
  BY <1>6, <1>7, Zenon


-----------------------------------------------------------------------------
(* The writer's functions on a screen with room.                           *)
LEMMA RoomIs ==
  ASSUME NEW v, IsWriter(v)
  PROVE  Cols(v) \in Nat /\ Rows(v) \in Nat
<1>1. v.dimensions[1] \in Nat /\ v.dimensions[2] \in Nat
  BY Zenon DEF IsWriter
<1>2. QED
  BY <1>1, DivMod, FontAssumption, Zenon DEF Cols, Rows

LEMMA GlyphIs ==
  ASSUME NEW c \in Nat, NEW text \in TextColors, NEW background \in Backgrounds
  PROVE  [glyph |-> get_char_glyph(c), text |-> text, background |-> background] \in Glyphs
<1>1. get_char_glyph(c) \in 0..Unknown
  BY DEF get_char_glyph, Unknown
<1>2. QED
  BY <1>1, Zenon DEF Glyphs

(* Drawing the glyph, before the column moves on.                          *)
LEMMA PutCharShown ==
  ASSUME NEW v, IsWriter(v), NEW c \in Nat, NEW ls, Logged(v, ls), NEW g,
         g = [glyph |-> get_char_glyph(c), text |-> v.text, background |-> v.background],
         NEW k, Grown(k, ls, g), NEW u, u = put_char(v, c)
  PROVE  /\ IsWriter(u) /\ Shows(u, k)
         /\ Fields(u, v.dimensions, Stamped(v, c), v.column, v.row, v.text, v.background, v.out)
<1>1. v.column < Cols(v) /\ v.row < Rows(v)
  BY Zenon DEF Logged
<1>2. u = [v EXCEPT !.buffer = Stamped(v, c)]
  BY <1>1, PutCharIs, Zenon
<1>3. PICK b : b = Stamped(v, c)
  OBVIOUS
<1>4. b = [p \in 0..(Size(v) - 1) |-> b[p]]
  <2>1. DOMAIN v.buffer = 0..(Size(v) - 1)
    BY Zenon DEF IsWriter
  <2>2. QED
    BY <1>3, <2>1, Zenon DEF Stamped
<1>5. IsWriter(u)
  <2>1. IsWriter([v EXCEPT !.buffer = b])
    BY <1>4, BufferStays, Zenon
  <2>2. QED
    BY <1>2, <1>3, <2>1, Zenon
<1>6. Fields(u, v.dimensions, Stamped(v, c), v.column, v.row, v.text, v.background, v.out)
  BY <1>2, WriterReads, Zenon
<1>7. u.dimensions = v.dimensions /\ u.buffer = Stamped(v, c)
  BY <1>6, Zenon DEF Fields
<1>8. Shows(u, k)
  BY <1>7, GlyphShown, Zenon
<1>9. QED
  BY <1>5, <1>6, <1>8, Zenon

(* The lines stay as narrow as the screen.                                 *)
LEMMA GrownFits ==
  ASSUME NEW ls \in Seq(Seq(Glyphs)), Len(ls) > 0, NEW g, NEW k, Grown(k, ls, g),
         NEW m \in Nat, \A r \in 1..Len(ls) : Len(ls[r]) <= m, Len(ls[Len(ls)]) < m
  PROVE  \A r \in 1..Len(k) : Len(k[r]) <= m
<1>1. Len(ls[Len(ls)]) \in Nat
  <2>1. Len(ls) \in 1..Len(ls)
    OBVIOUS
  <2>2. ls[Len(ls)] \in Seq(Glyphs)
    BY <2>1
  <2>3. QED
    BY <2>2
<1>2. Len(ls[Len(ls)]) + 1 <= m
  BY <1>1
<1>3. /\ Len(k) = Len(ls) /\ Len(k[Len(ls)]) = Len(ls[Len(ls)]) + 1
      /\ \A r \in 1..Len(ls) : r # Len(ls) => k[r] = ls[r]
  BY Zenon DEF Grown
<1>4. QED
  BY <1>2, <1>3, Zenon

LEMMA AfterIs ==
  ASSUME NEW v, IsWriter(v)
  PROVE  /\ \A c \in Nat : ~(0 < Cols(v) /\ 0 < Rows(v)) => After(write_glyph(v, c), v)
         /\ After(Wrap(v), v) /\ After(Wrap(new_line(v)), v)
<1>1. After(v, v)
  BY Zenon DEF After
<1>2. After(new_line(v), v)
  BY NewLineIs, Zenon
<1>3. After(Wrap(v), v)
  BY <1>1, <1>2, Zenon DEF Wrap
<1>4. After(Wrap(new_line(v)), v)
  <2>1. PICK a : a = new_line(v)
    OBVIOUS
  <2>2. IsWriter(a) /\ a.dimensions = v.dimensions /\ Cols(a) = Cols(v) /\ Rows(a) = Rows(v)
    BY <1>2, <2>1, Zenon DEF After, Cols, Rows
  <2>3. After(new_line(a), a)
    BY <2>2, NewLineIs, Zenon
  <2>4. After(new_line(a), v)
    BY <1>2, <2>1, <2>2, <2>3, Zenon DEF After
  <2>5. QED
    BY <1>2, <2>1, <2>4, Zenon DEF Wrap
<1>5. ASSUME NEW c \in Nat, ~(0 < Cols(v) /\ 0 < Rows(v)) PROVE After(write_glyph(v, c), v)
  <2>1. v.column \in Nat /\ v.row \in Nat /\ Cols(v) \in Nat /\ Rows(v) \in Nat
    BY RoomIs, Zenon DEF IsWriter
  <2>2. (Cols(v) = 0 \/ Rows(v) = 0) /\ ~(v.column < Cols(v) /\ v.row < Rows(v))
    <3>1. PICK a \in Nat, b \in Nat, m \in Nat, n \in Nat :
            a = v.column /\ b = v.row /\ m = Cols(v) /\ n = Rows(v)
      BY <2>1, Zenon
    <3>2. ~(0 < m /\ 0 < n) => (m = 0 \/ n = 0) /\ ~(a < m /\ b < n)
      OBVIOUS
    <3>3. QED
      BY <1>5, <3>1, <3>2, Zenon
  <2>3. put_char(v, c) = [v EXCEPT !.out = "panic"]
    BY <2>2, PutCharIs, Zenon
  <2>4. PICK a : a = [v EXCEPT !.out = "panic"]
    OBVIOUS
  <2>5. IsWriter(a)
    <3>1. IsWriter([v EXCEPT !.out = "panic"])
      BY WriterStays, Zenon
    <3>2. QED
      BY <2>4, <3>1, Zenon
  <2>6. a.dimensions = v.dimensions /\ a.out = "panic"
    <3>1. Fields([v EXCEPT !.out = "panic"],
                 v.dimensions, v.buffer, v.column, v.row, v.text, v.background, "panic")
      BY WriterReads, Zenon
    <3>2. QED
      BY <2>4, <3>1, Zenon DEF Fields
  <2>7. write_glyph(v, c) = a
    BY <2>3, <2>4, <2>6, Zenon DEF write_glyph
  <2>8. QED
    BY <2>2, <2>5, <2>6, <2>7, Zenon DEF After
<1>6. QED
  BY <1>3, <1>4, <1>5, Zenon


(* write_char's last arm and the log: the glyph is shown, and at the end   *)
(* of the line the next one is begun.                                      *)
LEMMA WriteGlyphShown ==
  ASSUME IsWriter(w), w.out = "Ok", NEW c \in Nat, NEW ls, Logged(w, ls), ls = lines,
         NEW u, u = write_glyph(w, c)
  PROVE  After(u, w) /\ Logged(u, LogGlyph(lines, c))
<1>0. /\ ls \in Seq(Seq(Glyphs)) /\ Len(ls) = w.row + 1 /\ w.row < Rows(w)
      /\ Len(ls[Len(ls)]) = w.column /\ w.column < Cols(w)
      /\ \A r \in 1..Len(ls) : Len(ls[r]) <= Cols(w)
      /\ w.column \in Nat /\ w.row \in Nat /\ w.text \in TextColors /\ w.background \in Backgrounds
  BY Zenon DEF IsWriter, Logged
<1>1. PICK column \in Nat, row \in Nat, m \in Nat, n \in Nat :
        column = w.column /\ row = w.row /\ m = Cols(w) /\ n = Rows(w)
  BY <1>0, RoomIs, Zenon
<1>2. row < n /\ column < m /\ column + 1 \in Nat /\ row + 1 > 0 /\ 0 < m
  BY <1>0, <1>1
<1>3. PICK g : g = [glyph |-> get_char_glyph(c), text |-> w.text, background |-> w.background]
  OBVIOUS
<1>4. g \in Glyphs
  BY <1>0, <1>3, GlyphIs, Zenon
<1>5. PICK k : k = [ls EXCEPT ![Len(ls)] = Append(ls[Len(ls)], g)]
  OBVIOUS
<1>6. Len(ls) > 0
  BY <1>0, <1>1, <1>2, Zenon
<1>7. Grown(k, ls, g)
  <2>1. Grown([ls EXCEPT ![Len(ls)] = Append(ls[Len(ls)], g)], ls, g)
    BY <1>0, <1>4, <1>6, GlyphMore, Zenon
  <2>2. QED
    BY <1>5, <2>1, Zenon
<1>8. PICK a : a = put_char(w, c)
  OBVIOUS
<1>9. /\ IsWriter(a) /\ Shows(a, k)
      /\ Fields(a, w.dimensions, Stamped(w, c), w.column, w.row, w.text, w.background, w.out)
  BY <1>3, <1>7, <1>8, PutCharShown, Zenon
<1>10. PICK b : b = [a EXCEPT !.column = column + 1]
  OBVIOUS
<1>11. IsWriter(b) /\ Fields(b, a.dimensions, a.buffer, column + 1, a.row, a.text, a.background, a.out)
  <2>1. IsWriter([a EXCEPT !.column = column + 1])
    BY <1>2, <1>9, WriterStays, Zenon
  <2>2. Fields([a EXCEPT !.column = column + 1],
               a.dimensions, a.buffer, column + 1, a.row, a.text, a.background, a.out)
    BY <1>9, WriterReads, Zenon
  <2>3. QED
    BY <1>10, <2>1, <2>2, Zenon
<1>12. /\ b.dimensions = w.dimensions /\ b.column = column + 1 /\ b.row = row /\ b.out = "Ok"
       /\ b.dimensions = a.dimensions /\ b.buffer = a.buffer /\ a.out = "Ok" /\ a.column = column
  BY <1>1, <1>9, <1>11, Zenon DEF Fields
<1>13. u = Wrap(b)
  BY <1>8, <1>10, <1>12, Zenon DEF write_glyph
<1>14. Shows(b, k) /\ Cols(b) = m /\ Rows(b) = n
  <2>1. Shows(b, k)
    BY <1>9, <1>12, SameShows, Zenon
  <2>2. QED
    BY <1>1, <1>12, <2>1, Zenon DEF Cols, Rows
<1>15. /\ k \in Seq(Seq(Glyphs)) /\ Len(k) = row + 1 /\ Len(k[Len(k)]) = column + 1
       /\ Len(Append(ls[Len(ls)], g)) = column + 1
  <2>1. k \in Seq(Seq(Glyphs)) /\ Len(k) = Len(ls) /\ Len(k[Len(k)]) = column + 1
    BY <1>0, <1>1, <1>7, Zenon DEF Grown
  <2>2. Len(ls) \in DOMAIN ls
    BY <1>0, <1>6
  <2>3. k[Len(ls)] = Append(ls[Len(ls)], g)
    BY <1>0, <1>5, <2>2
  <2>4. QED
    BY <1>0, <1>1, <2>1, <2>3, Zenon
<1>16. \A r \in 1..Len(k) : Len(k[r]) <= m
  <2>1. (\A r \in 1..Len(ls) : Len(ls[r]) <= m) /\ Len(ls[Len(ls)]) < m
    BY <1>0, <1>1, Zenon
  <2>2. QED
    BY <1>0, <1>6, <1>7, <2>1, GrownFits, Zenon
<1>17. LogGlyph(lines, c) = IF column + 1 = m THEN LogLine(k) ELSE k
  BY <1>1, <1>3, <1>5, <1>15, Zenon DEF LogGlyph
<1>18. CASE column + 1 = m
  <2>1. column + 1 >= m
    BY <1>18
  <2>2. u = new_line(b)
    BY <1>12, <1>13, <1>14, <2>1, Zenon DEF Wrap
  <2>3. Logged(u, LogLine(k))
    BY <1>2, <1>11, <1>12, <1>14, <1>15, <1>16, <2>2, LineShown, Zenon
  <2>4. After(u, b)
    BY <1>11, <2>2, NewLineIs, Zenon
  <2>5. After(u, w)
    BY <1>1, <1>12, <1>14, <2>4, Zenon DEF After
  <2>6. QED
    BY <1>17, <1>18, <2>3, <2>5, Zenon
<1>19. CASE column + 1 # m
  <2>1. ~(column + 1 >= m) /\ column + 1 < m
    BY <1>2, <1>19
  <2>2. u = b
    BY <1>12, <1>13, <1>14, <2>1, Zenon DEF Wrap
  <2>3. Logged(b, k)
    BY <1>2, <1>12, <1>14, <1>15, <1>16, <2>1, Zenon DEF Logged
  <2>4. After(b, w)
    BY <1>11, <1>12, Zenon DEF After
  <2>5. QED
    BY <1>17, <1>19, <2>2, <2>3, <2>4, Zenon
<1>20. QED
  BY <1>18, <1>19, Zenon


(* A line feed, and the log.                                               *)
LEMMA NewlineShown ==
  ASSUME IsWriter(w), NEW ls, Logged(w, ls), ls = lines, NEW u, u = Wrap(new_line(w))
  PROVE  Logged(u, LogLine(lines))
<1>0. /\ ls \in Seq(Seq(Glyphs)) /\ Len(ls) = w.row + 1 /\ w.row < Rows(w)
      /\ w.column < Cols(w) /\ Shows(w, ls)
      /\ \A r \in 1..Len(ls) : Len(ls[r]) <= Cols(w)
      /\ w.column \in Nat /\ w.row \in Nat
  BY Zenon DEF IsWriter, Logged
<1>1. Cols(w) \in Nat /\ 0 < Cols(w)
  <2>1. PICK m \in Nat, n \in Nat : m = Cols(w) /\ n = w.column
    BY <1>0, RoomIs, Zenon
  <2>2. n < m => 0 < m
    OBVIOUS
  <2>3. QED
    BY <1>0, <2>1, <2>2, Zenon
<1>2. PICK a : a = new_line(w)
  OBVIOUS
<1>3. Logged(a, LogLine(ls))
  BY <1>0, <1>1, <1>2, LineShown, Zenon
<1>4. a.column < Cols(a)
  BY <1>3, Zenon DEF Logged
<1>5. a.column \in Nat /\ Cols(a) \in Nat
  <2>1. IsWriter(a)
    BY <1>2, NewLineIs, Zenon DEF After
  <2>2. QED
    BY <2>1, RoomIs, Zenon DEF IsWriter
<1>6. ~(a.column >= Cols(a))
  BY <1>4, <1>5
<1>7. u = a
  BY <1>2, <1>6, Zenon DEF Wrap
<1>8. QED
  BY <1>3, <1>7, Zenon

(* After a tab the column is looked at again: it is on the line.           *)
LEMMA NoWrap ==
  ASSUME NEW v, IsWriter(v), NEW ls, Logged(v, ls)
  PROVE  Wrap(v) = v
<1>1. PICK m \in Nat, n \in Nat : m = Cols(v) /\ n = v.column
  BY RoomIs, Zenon DEF IsWriter
<1>2. n < m => ~(n >= m)
  OBVIOUS
<1>3. QED
  BY <1>1, <1>2, Zenon DEF Wrap, Logged

-----------------------------------------------------------------------------
(* The steps of the functions that print.                                  *)
LEMMA StringSteps ==
  ASSUME NEW s \in Seq(Nat)
  PROVE  write_string(s) \in Seq(Pieces)
<1>1. \A n \in Nat : Do("char", n) \in Pieces
  BY DEF Do, Pieces
<1>2. \A i \in 1..Len(s) : s[i] \in Nat
  OBVIOUS
<1>3. \A i \in 1..Len(s) : Do("char", s[i]) \in Pieces
  BY <1>1, <1>2, Zenon
<1>4. PICK n \in Nat : n = Len(s)
  OBVIOUS
<1>5. [i \in 1..n |-> Do("char", s[i])] \in Seq(Pieces)
  BY <1>3, <1>4
<1>6. QED
  BY <1>4, <1>5, Zenon DEF write_string

LEMMA ColorSteps ==
  ASSUME NEW color \in TextColors
  PROVE  set_color(color) \in Seq(Pieces)
<1>1. Do("color", color) \in Pieces
  BY DEF Do, Pieces
<1>2. QED
  BY <1>1 DEF set_color

LEMMA JoinSteps ==
  ASSUME NEW a \in Seq(Pieces), NEW b \in Seq(Pieces)
  PROVE  a \o b \in Seq(Pieces)
OBVIOUS


LEMMA StepsLeft ==
  ASSUME pending \in Seq(Pieces), pending # <<>>
  PROVE  /\ Tail(pending) \in Seq(Pieces)
         /\ Head(pending).op = "char" => Head(pending).arg \in Nat
         /\ Head(pending).op = "color" => Head(pending).arg \in TextColors
<1>1. Tail(pending) \in Seq(Pieces) /\ Head(pending) \in Pieces
  OBVIOUS
<1>2. PICK s \in Pieces : s = Head(pending)
  BY <1>1, Zenon
<1>3. s.op = "char" => s.arg \in Nat
  BY DEF Pieces
<1>4. s.op = "color" => s.arg \in TextColors
  BY DEF Pieces
<1>5. QED
  BY <1>1, <1>2, <1>3, <1>4, Zenon

(* The invariant after a step of the writer.                               *)
LEMMA WriterKept ==
  ASSUME WriterInv, After(w', w), pending' \in Seq(Pieces),
         HasRoom => Logged(w', lines'), ~HasRoom => lines' = lines
  PROVE  WriterInv'
<1>1. IsWriter(w') /\ w'.dimensions = w.dimensions
  BY Zenon DEF After
<1>2. HasRoom' <=> HasRoom
  BY <1>1, Zenon DEF HasRoom, Cols, Rows
<1>3. ~(0 > 0)
  OBVIOUS
<1>4. w'.out = "panic" => ~HasRoom
  BY <1>3, Zenon DEF After, HasRoom, WriterInv
<1>5. HasRoom => Logged(w', lines')
  OBVIOUS
<1>6. ~HasRoom => lines' = << <<>> >>
  BY Zenon DEF WriterInv
<1>7. QED
  BY <1>1, <1>2, <1>4, <1>5, <1>6, Zenon DEF WriterInv

(* What is logged depends on the screen and the place of the writer.       *)
LEMMA LoggedSame ==
  ASSUME NEW u, NEW v, u.dimensions = v.dimensions, u.buffer = v.buffer,
         u.column = v.column, u.row = v.row, NEW ls, Logged(v, ls)
  PROVE  Logged(u, ls)
<1>1. Shows(u, ls)
  <2>1. Shows(v, ls)
    BY Zenon DEF Logged
  <2>2. QED
    BY <2>1, SameShows, Zenon
<1>2. Cols(u) = Cols(v) /\ Rows(u) = Rows(v)
  BY Zenon DEF Cols, Rows
<1>3. QED
  BY <1>1, <1>2, Zenon DEF Logged

(* A colour is set, or the processor halts: the screen stays.              *)
LEMMA FieldKept ==
  ASSUME WriterInv, lines' = lines, pending' \in Seq(Pieces), IsWriter(w'),
         w'.dimensions = w.dimensions, w'.buffer = w.buffer, w'.column = w.column, w'.row = w.row,
         w'.out # "panic"
  PROVE  WriterInv'
<1>1. After(w', w)
  BY Zenon DEF After
<1>2. HasRoom => Logged(w', lines')
  BY LoggedSame, Zenon DEF WriterInv
<1>3. QED
  BY <1>1, <1>2, WriterKept, Zenon

LEMMA CallKept ==
  ASSUME WriterInv, NEW s \in Seq(Pieces), Call(s)
  PROVE  WriterInv'
<1>1. w' = w /\ lines' = lines /\ pending' = s /\ w.out # "panic"
  BY Zenon DEF Call, Halted
<1>2. IsWriter(w)
  BY Zenon DEF WriterInv
<1>3. QED
  BY <1>1, <1>2, FieldKept, Zenon


-----------------------------------------------------------------------------
(* The invariant holds at the start and is kept by every step.             *)
LEMMA WriterStarts == WriterInit => WriterInv
<1>0. SUFFICES ASSUME WriterInit PROVE WriterInv
  BY Zenon
<1>1. PICK d \in Dimensions :
        w = [ dimensions |-> d, buffer |-> [p \in 0..(d[1] * d[2] - 1) |-> LeftByBootLoader],
              column |-> 0, row |-> 0, text |-> DEFAULT_COLOR, background |-> Black, out |-> "Ok" ]
  BY <1>0, Zenon DEF WriterInit
<1>2. d[1] \in Nat /\ d[2] \in Nat
  BY ScreensAssumption
<1>3. PICK b : b = [p \in 0..(d[1] * d[2] - 1) |-> LeftByBootLoader]
  OBVIOUS
<1>4. w = Writer(d, b, 0, 0, DEFAULT_COLOR, Black, "Ok")
  BY <1>1, <1>3, Zenon DEF Writer
<1>5. IsWriter(w)
  <2>1. b = [p \in 0..(d[1] * d[2] - 1) |-> b[p]]
    BY <1>3, Zenon
  <2>2. 0 \in Nat /\ DEFAULT_COLOR \in TextColors /\ Black \in Backgrounds
    BY DEF TextColors, Backgrounds
  <2>3. FieldsOK(d, b, 0, 0, DEFAULT_COLOR, Black, "Ok")
    BY <1>2, <2>1, <2>2, Zenon DEF FieldsOK
  <2>4. QED
    BY <1>4, <2>3, WriterOf, Zenon
<1>6. w.dimensions = d /\ w.buffer = b /\ w.column = 0 /\ w.row = 0 /\ w.out = "Ok"
  BY <1>4 DEF Writer
<1>7. lines = << <<>> >> /\ pending = <<>>
  BY <1>0, Zenon DEF WriterInit
<1>8. pending \in Seq(Pieces)
  BY <1>7
<1>9. ASSUME HasRoom PROVE Logged(w, lines)
  <2>1. PICK e \in Seq(Glyphs) : e = <<>>
    <3>1. <<>> \in Seq(Glyphs)
      OBVIOUS
    <3>2. QED
      BY <3>1, Zenon
  <2>2. lines = <<e>> /\ Len(e) = 0
    BY <1>7, <2>1
  <2>3. lines \in Seq(Seq(Glyphs)) /\ Len(lines) = 1 /\ lines[1] = e
    BY <2>2
  <2>4. Cols(w) \in Nat /\ Rows(w) \in Nat
    BY <1>5, RoomIs, Zenon
  <2>5. 0 < Cols(w) /\ 0 < Rows(w)
    BY <1>9, <2>4 DEF HasRoom
  <2>6. \A r \in 1..1 : r = 1
    OBVIOUS
  <2>7. \A r \in 1..Len(lines) : Len(lines[r]) <= Cols(w)
    <3>1. 0 <= Cols(w)
      BY <2>4
    <3>2. QED
      BY <2>2, <2>3, <2>6, <3>1, Zenon
  <2>8. Shows(w, lines)
    <3>1. SUFFICES ASSUME NEW x \in 0..(d[1] - 1), NEW y \in 0..(d[2] - 1)
                   PROVE  PixelShows(b[y * d[1] + x], lines,
                                     x \div VGA_FONT_WIDTH, y \div VGA_FONT_HEIGHT, BitOf(x, y))
      BY <1>6, Zenon DEF Shows
    <3>2. PICK width \in Nat, height \in Nat, i \in Nat :
            width = d[1] /\ height = d[2] /\ i = x \div VGA_FONT_WIDTH
      <4>1. x \in Nat
        BY <1>2
      <4>2. x \div VGA_FONT_WIDTH \in Nat
        BY <4>1, DivMod, FontAssumption, Zenon
      <4>3. QED
        BY <1>2, <4>2, Zenon
    <3>3. y * width + x \in 0..(width * height - 1)
      <4>1. y \in Nat /\ y < height /\ x \in 0..(width - 1)
        BY <3>2
      <4>2. QED
        BY <4>1, PlaceIs
    <3>4. b[y * width + x] = LeftByBootLoader
      BY <1>3, <3>2, <3>3, Zenon
    <3>5. LeftByBootLoader.glyph = NoGlyph
      BY DEF LeftByBootLoader, Pixel
    <3>6. i + 1 \notin 1..0
      OBVIOUS
    <3>7. QED
      BY <2>2, <2>3, <2>6, <3>2, <3>4, <3>5, <3>6, Zenon DEF PixelShows
  <2>9. 1 = 0 + 1
    OBVIOUS
  <2>10. QED
    BY <1>6, <2>2, <2>3, <2>5, <2>7, <2>8, <2>9, Zenon DEF Logged
<1>10. QED
  <2>1. w.out # "panic"
    BY <1>6
  <2>2. QED
    BY <1>5, <1>7, <1>8, <1>9, <2>1, Zenon DEF WriterInv


LEMMA WriterSteps == WriterInv /\ [WriterNext]_writer_vars => WriterInv'
<1>0. SUFFICES ASSUME WriterInv, [WriterNext]_writer_vars PROVE WriterInv'
  BY Zenon
<1>1. IsWriter(w) /\ pending \in Seq(Pieces)
  BY <1>0, Zenon DEF WriterInv
<1>2. HasRoom => Logged(w, lines)
  BY <1>0, Zenon DEF WriterInv
<1>3. ASSUME NEW s \in Strings, _kprint(s) PROVE WriterInv'
  <2>1. write_string(s) \in Seq(Pieces)
    BY StringSteps, TextsAssumption, Zenon
  <2>2. QED
    BY <1>0, <1>3, <2>1, CallKept, Zenon DEF _kprint
<1>4. ASSUME NEW s \in Strings, NEW color \in Colors, _kprint_color(s, color) PROVE WriterInv'
  <2>1. write_string(s) \in Seq(Pieces)
    BY StringSteps, TextsAssumption, Zenon
  <2>2. color \in TextColors /\ DEFAULT_COLOR \in TextColors
    BY DEF TextColors
  <2>3. set_color(color) \in Seq(Pieces) /\ set_color(DEFAULT_COLOR) \in Seq(Pieces)
    BY <2>2, ColorSteps, Zenon
  <2>4. set_color(color) \o write_string(s) \in Seq(Pieces)
    BY <2>1, <2>3, JoinSteps, Zenon
  <2>5. set_color(color) \o write_string(s) \o set_color(DEFAULT_COLOR) \in Seq(Pieces)
    BY <2>3, <2>4, JoinSteps, Zenon
  <2>6. QED
    BY <1>0, <1>4, <2>5, CallKept, Zenon DEF _kprint_color
<1>5. ASSUME NEW types \in RamMaps, log_ram_map(types) PROVE WriterInv'
  <2>1. <<66, Newline>> \in Seq(Nat) /\ types \in Seq(STRING)
    BY TextsAssumption DEF Newline
  <2>2. write_string(<<66, Newline>>) \in Seq(Pieces)
    BY <2>1, StringSteps, Zenon
  <2>3. \A t \in STRING : Do("region", t) \in Pieces
    BY DEF Do, Pieces
  <2>4. \A i \in 1..Len(types) : Do("region", types[i]) \in Pieces
    <3>1. \A i \in 1..Len(types) : types[i] \in STRING
      BY <2>1
    <3>2. QED
      BY <2>3, <3>1, Zenon
  <2>5. PICK n \in Nat : n = Len(types)
    BY <2>1
  <2>6. [i \in 1..n |-> Do("region", types[i])] \in Seq(Pieces)
    BY <2>4, <2>5
  <2>7. write_string(<<66, Newline>>) \o [i \in 1..Len(types) |-> Do("region", types[i])] \in Seq(Pieces)
    BY <2>2, <2>5, <2>6, JoinSteps, Zenon
  <2>8. QED
    BY <1>0, <1>5, <2>7, CallKept, Zenon DEF log_ram_map
<1>6. ASSUME NEW s \in Strings, PanicWrites(s) PROVE WriterInv'
  <2>1. write_string(s) \in Seq(Pieces)
    BY StringSteps, TextsAssumption, Zenon
  <2>2. <<Newline>> \in Seq(Nat)
    BY DEF Newline
  <2>3. write_string(<<Newline>>) \in Seq(Pieces)
    BY <2>2, StringSteps, Zenon
  <2>4. LightRed \in TextColors
    BY DEF TextColors
  <2>5. set_color(LightRed) \in Seq(Pieces)
    BY <2>4, ColorSteps, Zenon
  <2>6. << Do("halt", 0) >> \in Seq(Pieces)
    <3>1. Do("halt", 0) \in Pieces
      BY DEF Do, Pieces
    <3>2. QED
      BY <3>1
  <2>7. set_color(LightRed) \o write_string(s) \in Seq(Pieces)
    BY <2>1, <2>5, JoinSteps, Zenon
  <2>8. set_color(LightRed) \o write_string(s) \o write_string(<<Newline>>) \in Seq(Pieces)
    BY <2>3, <2>7, JoinSteps, Zenon
  <2>9. set_color(LightRed) \o write_string(s) \o write_string(<<Newline>>) \o << Do("halt", 0) >> \in Seq(Pieces)
    BY <2>6, <2>8, JoinSteps, Zenon
  <2>10. QED
    BY <1>0, <1>6, <2>9, CallKept, Zenon DEF PanicWrites
<1>7. ASSUME NEW color \in Colors, kwriter_set_color(color) PROVE WriterInv'
  <2>1. w' = [w EXCEPT !.text = color] /\ lines' = lines /\ pending' = pending /\ w.out = "Ok"
    BY <1>7, Zenon DEF kwriter_set_color, Halted
  <2>2. color \in TextColors
    BY DEF TextColors
  <2>3. IsWriter([w EXCEPT !.text = color])
    BY <1>1, <2>2, WriterStays, Zenon
  <2>4. Fields([w EXCEPT !.text = color],
               w.dimensions, w.buffer, w.column, w.row, color, w.background, w.out)
    BY <1>1, WriterReads, Zenon
  <2>5. w'.out # "panic"
    BY <2>1, <2>4 DEF Fields
  <2>6. QED
    BY <1>0, <1>1, <2>1, <2>3, <2>4, <2>5, FieldKept, Zenon DEF Fields
<1>8. ASSUME NEW color \in Colors, kwriter_set_bg(color) PROVE WriterInv'
  <2>1. w' = [w EXCEPT !.background = color] /\ lines' = lines /\ pending' = pending /\ w.out = "Ok"
    BY <1>8, Zenon DEF kwriter_set_bg, Halted
  <2>2. color \in Backgrounds
    BY DEF Backgrounds
  <2>3. IsWriter([w EXCEPT !.background = color])
    BY <1>1, <2>2, WriterStays, Zenon
  <2>4. Fields([w EXCEPT !.background = color],
               w.dimensions, w.buffer, w.column, w.row, w.text, color, w.out)
    BY <1>1, WriterReads, Zenon
  <2>5. w'.out # "panic"
    BY <2>1, <2>4 DEF Fields
  <2>6. QED
    BY <1>0, <1>1, <2>1, <2>3, <2>4, <2>5, FieldKept, Zenon DEF Fields
<1>9. ASSUME NEW op, Doing(op)
      PROVE  /\ Tail(pending) \in Seq(Pieces) /\ w.out = "Ok" /\ Head(pending).op = op
             /\ Head(pending).op = "char" => Head(pending).arg \in Nat
             /\ Head(pending).op = "color" => Head(pending).arg \in TextColors
  <2>1. pending # <<>> /\ w.out = "Ok" /\ Head(pending).op = op
    BY <1>9, Zenon DEF Doing, Halted
  <2>2. QED
    BY <1>1, <2>1, StepsLeft, Zenon
<1>10. CASE WriteGlyph
  <2>1. PICK c : c = Head(pending).arg
    OBVIOUS
  <2>2. c \in Nat /\ w.out = "Ok" /\ Tail(pending) \in Seq(Pieces)
    BY <1>9, <1>10, <2>1, Zenon DEF WriteGlyph
  <2>3. /\ w' = write_glyph(w, c) /\ pending' = Tail(pending)
        /\ lines' = IF HasRoom THEN LogGlyph(lines, c) ELSE lines
    BY <1>10, <2>1, Zenon DEF WriteGlyph
  <2>4. CASE HasRoom
    <3>1. After(w', w) /\ Logged(w', LogGlyph(lines, c))
      BY <1>1, <1>2, <2>2, <2>3, <2>4, WriteGlyphShown, Zenon
    <3>2. QED
      BY <1>0, <2>2, <2>3, <2>4, <3>1, WriterKept, Zenon
  <2>5. CASE ~HasRoom
    <3>1. ~(0 < Cols(w) /\ 0 < Rows(w))
      <4>1. PICK m \in Nat, n \in Nat : m = Cols(w) /\ n = Rows(w)
        BY <1>1, RoomIs, Zenon
      <4>2. (0 < m /\ 0 < n) => (m > 0 /\ n > 0)
        OBVIOUS
      <4>3. QED
        BY <2>5, <4>1, <4>2, Zenon DEF HasRoom
    <3>2. After(w', w)
      BY <1>1, <2>2, <2>3, <3>1, AfterIs, Zenon
    <3>3. QED
      BY <1>0, <2>2, <2>3, <2>5, <3>2, WriterKept, Zenon
  <2>6. QED
    BY <2>4, <2>5, Zenon
<1>11. CASE WriteNewline
  <2>1. w.out = "Ok" /\ Tail(pending) \in Seq(Pieces)
    BY <1>9, <1>11, Zenon DEF WriteNewline
  <2>2. /\ w' = Wrap(new_line(w)) /\ pending' = Tail(pending)
        /\ lines' = IF HasRoom THEN LogLine(lines) ELSE lines
    BY <1>11, Zenon DEF WriteNewline
  <2>3. After(w', w)
    BY <1>1, <2>2, AfterIs, Zenon
  <2>4. HasRoom => Logged(w', LogLine(lines))
    BY <1>1, <1>2, <2>2, NewlineShown, Zenon
  <2>5. QED
    BY <1>0, <2>1, <2>2, <2>3, <2>4, WriterKept, Zenon

<1>12. CASE WriteTab
  <2>1. w.out = "Ok" /\ Tail(pending) \in Seq(Pieces)
    BY <1>9, <1>12, Zenon DEF WriteTab
  <2>2. /\ pending' = write_string([i \in 1..TAB_SIZE |-> Space]) \o << Do("wrap", 0) >> \o Tail(pending)
        /\ w' = w /\ lines' = lines
    BY <1>12, Zenon DEF WriteTab
  <2>3. [i \in 1..TAB_SIZE |-> Space] \in Seq(Nat)
    BY FontAssumption DEF Space
  <2>4. write_string([i \in 1..TAB_SIZE |-> Space]) \in Seq(Pieces)
    BY <2>3, StringSteps, Zenon
  <2>5. << Do("wrap", 0) >> \in Seq(Pieces)
    <3>1. Do("wrap", 0) \in Pieces
      BY DEF Do, Pieces
    <3>2. QED
      BY <3>1
  <2>6. pending' \in Seq(Pieces)
    BY <2>1, <2>2, <2>4, <2>5, JoinSteps, Zenon
  <2>7. w'.out # "panic"
    BY <2>1, <2>2
  <2>8. QED
    BY <1>0, <1>1, <2>2, <2>6, <2>7, FieldKept, Zenon
<1>13. CASE EndTab
  <2>1. w.out = "Ok" /\ Tail(pending) \in Seq(Pieces)
    BY <1>9, <1>13, Zenon DEF EndTab
  <2>2. w' = Wrap(w) /\ pending' = Tail(pending) /\ lines' = lines
    BY <1>13, Zenon DEF EndTab
  <2>3. After(w', w)
    BY <1>1, <2>2, AfterIs, Zenon
  <2>4. HasRoom => Logged(w', lines)
    BY <1>1, <1>2, <2>2, NoWrap, Zenon
  <2>5. QED
    BY <1>0, <2>1, <2>2, <2>3, <2>4, WriterKept, Zenon
<1>14. CASE SetText
  <2>1. PICK color : color = Head(pending).arg
    OBVIOUS
  <2>2. color \in TextColors /\ w.out = "Ok" /\ Tail(pending) \in Seq(Pieces)
    BY <1>9, <1>14, <2>1, Zenon DEF SetText
  <2>3. w' = [w EXCEPT !.text = color] /\ pending' = Tail(pending) /\ lines' = lines
    BY <1>14, <2>1, Zenon DEF SetText
  <2>4. IsWriter([w EXCEPT !.text = color])
    BY <1>1, <2>2, WriterStays, Zenon
  <2>5. Fields([w EXCEPT !.text = color],
               w.dimensions, w.buffer, w.column, w.row, color, w.background, w.out)
    BY <1>1, WriterReads, Zenon
  <2>6. w'.out # "panic"
    BY <2>2, <2>3, <2>5 DEF Fields
  <2>7. QED
    BY <1>0, <2>2, <2>3, <2>4, <2>5, <2>6, FieldKept, Zenon DEF Fields
<1>15. CASE LogRegion
  <2>1. w.out = "Ok" /\ Tail(pending) \in Seq(Pieces)
    BY <1>9, <1>15, Zenon DEF LogRegion
  <2>2. PICK color : color = region_color(Head(pending).arg)
    OBVIOUS
  <2>3. /\ pending' = write_string(<<91>>) \o set_color(color)
                     \o write_string(<<84, Newline>>) \o set_color(DEFAULT_COLOR) \o Tail(pending)
        /\ w' = w /\ lines' = lines
    BY <1>15, <2>2, Zenon DEF LogRegion
  <2>4. color \in TextColors /\ DEFAULT_COLOR \in TextColors
    BY <2>2 DEF TextColors, region_color
  <2>5. <<91>> \in Seq(Nat) /\ <<84, Newline>> \in Seq(Nat)
    BY DEF Newline
  <2>6. write_string(<<91>>) \in Seq(Pieces) /\ write_string(<<84, Newline>>) \in Seq(Pieces)
    BY <2>5, StringSteps, Zenon
  <2>7. set_color(color) \in Seq(Pieces) /\ set_color(DEFAULT_COLOR) \in Seq(Pieces)
    BY <2>4, ColorSteps, Zenon
  <2>8. write_string(<<91>>) \o set_color(color) \in Seq(Pieces)
    BY <2>6, <2>7, JoinSteps, Zenon
  <2>9. write_string(<<91>>) \o set_color(color) \o write_string(<<84, Newline>>) \in Seq(Pieces)
    BY <2>6, <2>8, JoinSteps, Zenon
  <2>10. write_string(<<91>>) \o set_color(color) \o write_string(<<84, Newline>>)
           \o set_color(DEFAULT_COLOR) \in Seq(Pieces)
    BY <2>7, <2>9, JoinSteps, Zenon
  <2>11. pending' \in Seq(Pieces)
    BY <2>1, <2>3, <2>10, JoinSteps, Zenon
  <2>12. w'.out # "panic"
    BY <2>1, <2>3
  <2>13. QED
    BY <1>0, <1>1, <2>3, <2>11, <2>12, FieldKept, Zenon
<1>16. CASE HaltAfterPanic
  <2>1. Tail(pending) \in Seq(Pieces)
    BY <1>9, <1>16, Zenon DEF HaltAfterPanic
  <2>2. w' = [w EXCEPT !.out = "halt"] /\ pending' = Tail(pending) /\ lines' = lines
    BY <1>16, Zenon DEF HaltAfterPanic
  <2>3. IsWriter([w EXCEPT !.out = "halt"])
    BY <1>1, WriterStays, Zenon
  <2>4. Fields([w EXCEPT !.out = "halt"],
               w.dimensions, w.buffer, w.column, w.row, w.text, w.background, "halt")
    BY <1>1, WriterReads, Zenon
  <2>5. w'.out # "panic"
    BY <2>2, <2>4 DEF Fields
  <2>6. QED
    BY <1>0, <2>1, <2>2, <2>3, <2>4, <2>5, FieldKept, Zenon DEF Fields
<1>17. CASE UNCHANGED writer_vars
  <2>1. w' = w /\ lines' = lines /\ pending' = pending
    BY <1>17, Zenon DEF writer_vars
  <2>2. QED
    BY <1>0, <2>1, Zenon DEF WriterInv, HasRoom, IsWriter, Logged, Shows, Size, Cols, Rows
<1>18. QED
  BY <1>0, <1>3, <1>4, <1>5, <1>6, <1>7, <1>8, <1>10, <1>11, <1>12, <1>13, <1>14, <1>15, <1>16, <1>17,
     Zenon DEF WriterNext, Halt


-----------------------------------------------------------------------------
(* The pixels of a cell show what the log has there.                       *)
LEMMA CellPixels ==
  ASSUME WriterInv, HasRoom, NEW r \in 1..Rows(w), NEW c \in 1..Cols(w), NEW b \in Bits
  PROVE  PixelShows(PixelAt(c - 1, r - 1, b), lines, c - 1, r - 1, b)
<1>0. IsWriter(w) /\ Shows(w, lines)
  BY Zenon DEF WriterInv, Logged
<1>1. PICK width \in Nat, height \in Nat : width = w.dimensions[1] /\ height = w.dimensions[2]
  BY <1>0, Zenon DEF IsWriter
<1>2. PICK W \in Nat \ {0}, H \in Nat \ {0} : W = VGA_FONT_WIDTH /\ H = VGA_FONT_HEIGHT
  BY FontAssumption, Zenon
<1>3. Cols(w) = width \div W /\ Rows(w) = height \div H /\ Cols(w) \in Nat /\ Rows(w) \in Nat
  BY <1>0, <1>1, <1>2, RoomIs, Zenon DEF Cols, Rows
<1>4. PICK i \in Nat, j \in Nat : i = c - 1 /\ j = r - 1 /\ i < width \div W /\ j < height \div H
  <2>1. PICK m \in Nat, n \in Nat : m = Cols(w) /\ n = Rows(w)
    BY <1>3, Zenon
  <2>2. c - 1 \in Nat /\ r - 1 \in Nat /\ c - 1 < m /\ r - 1 < n
    BY <2>1
  <2>3. QED
    BY <1>3, <2>1, <2>2, Zenon
<1>5. b \in Nat /\ b < W * H
  <2>1. b \in 0..(W * H - 1) /\ W * H \in Nat
    BY <1>2 DEF Bits
  <2>2. QED
    BY <2>1
<1>6. PICK s \in Nat, t \in 0..(W - 1) : s = b \div W /\ t = b % W /\ b = s * W + t
  <2>1. b \div W \in Nat /\ b % W \in 0..(W - 1) /\ b = (b \div W) * W + (b % W)
    BY <1>5, DivMod, Zenon
  <2>2. QED
    BY <2>1, Zenon
<1>7. s \in 0..(H - 1)
  <2>1. SUFFICES ASSUME H <= s PROVE FALSE
    OBVIOUS
  <2>2. H * W <= s * W /\ H * W \in Nat /\ s * W \in Nat
    BY <2>1, ProductOrder
  <2>3. H * W = W * H
    OBVIOUS
  <2>4. QED
    BY <1>5, <1>6, <2>2, <2>3
<1>8. PICK x \in Nat : x = i * W + t /\ x < width /\ x \div W = i /\ x % W = t
  <2>1. i * W + W <= width /\ i * W \in Nat
    <3>1. ~(i * W + W > width)
      BY <1>4, CellFits, Zenon
    <3>2. i * W \in Nat
      OBVIOUS
    <3>3. QED
      BY <3>1, <3>2
  <2>2. PICK x : x = i * W + t
    OBVIOUS
  <2>3. x \in Nat /\ x \div W = i /\ x % W = t
    BY <2>2, DivModIs, Zenon
  <2>4. x < width
    BY <2>1, <2>2
  <2>5. QED
    BY <2>2, <2>3, <2>4, Zenon
<1>9. PICK y \in Nat : y = j * H + s /\ y < height /\ y \div H = j /\ y % H = s
  <2>1. j * H + H <= height /\ j * H \in Nat
    <3>1. ~(j * H + H > height)
      BY <1>4, CellFits, Zenon
    <3>2. j * H \in Nat
      OBVIOUS
    <3>3. QED
      BY <3>1, <3>2
  <2>2. PICK y : y = j * H + s
    OBVIOUS
  <2>3. y \in Nat /\ y \div H = j /\ y % H = s
    BY <1>7, <2>2, DivModIs, Zenon
  <2>4. y < height
    BY <1>7, <2>1, <2>2
  <2>5. QED
    BY <2>2, <2>3, <2>4, Zenon
<1>10. BitOf(x, y) = b
  BY <1>2, <1>6, <1>8, <1>9, Zenon DEF BitOf
<1>11. PixelAt(c - 1, r - 1, b) = w.buffer[y * width + x]
  <2>1. PixelAt(c - 1, r - 1, b) = w.buffer[(j * H + s) * width + i * W + t]
    BY <1>1, <1>2, <1>4, <1>6, Zenon DEF PixelAt
  <2>2. y * width + i * W + t = y * width + (i * W + t)
    <3>1. y * width \in Nat /\ i * W \in Nat
      OBVIOUS
    <3>2. QED
      BY <3>1
  <2>3. QED
    BY <1>8, <1>9, <2>1, <2>2, Zenon
<1>12. x \in 0..(width - 1) /\ y \in 0..(height - 1)
  BY <1>8, <1>9
<1>13. PixelShows(w.buffer[y * width + x], lines, x \div W, y \div H, BitOf(x, y))
  BY <1>0, <1>1, <1>2, <1>12, Zenon DEF Shows
<1>14. QED
  BY <1>4, <1>8, <1>9, <1>10, <1>11, <1>13, Zenon

LEMMA InvShowsText == WriterInv => TextVisible
<1>0. SUFFICES ASSUME WriterInv, NEW r \in 1..Len(lines), NEW c \in 1..Len(lines[r]), NEW b \in Bits
               PROVE  PixelAt(c - 1, r - 1, b)
                        = Pixel(lines[r][c].glyph, b, lines[r][c].text, lines[r][c].background)
  BY Zenon DEF TextVisible
<1>1. CASE ~HasRoom
  <2>1. lines = << <<>> >>
    BY <1>0, <1>1, Zenon DEF WriterInv
  <2>2. r = 1
    BY <2>1
  <2>3. lines[r] = <<>>
    BY <2>1, <2>2
  <2>4. c \in 1..0
    BY <2>3
  <2>5. QED
    BY <2>4
<1>2. CASE HasRoom
  <2>1. IsWriter(w) /\ Logged(w, lines)
    BY <1>0, <1>2, Zenon DEF WriterInv
  <2>2. /\ lines \in Seq(Seq(Glyphs)) /\ Len(lines) = w.row + 1 /\ w.row < Rows(w)
        /\ Len(lines[r]) <= Cols(w) /\ w.row \in Nat
    BY <2>1, Zenon DEF Logged, IsWriter
  <2>3. PICK m \in Nat, n \in Nat, a \in Nat, l \in Nat :
          m = Cols(w) /\ n = Rows(w) /\ a = w.row /\ l = Len(lines[r])
    <3>1. lines[r] \in Seq(Glyphs)
      BY <2>2
    <3>2. Len(lines[r]) \in Nat
      BY <3>1
    <3>3. QED
      BY <2>1, <2>2, <3>2, RoomIs, Zenon
  <2>4. r \in 1..(a + 1) /\ a < n /\ c \in 1..l /\ l <= m
    BY <2>2, <2>3, Zenon
  <2>5. r \in 1..n /\ c \in 1..m /\ (r - 1) + 1 = r /\ (c - 1) + 1 = c
    BY <2>4
  <2>6. PixelShows(PixelAt(c - 1, r - 1, b), lines, c - 1, r - 1, b)
    BY <1>0, <1>2, <2>3, <2>5, CellPixels, Zenon
  <2>7. QED
    BY <2>5, <2>6, Zenon DEF PixelShows
<1>3. QED
  BY <1>1, <1>2, Zenon

LEMMA InvShowsNoGhost == WriterInv => NoGhostText
<1>0. SUFFICES ASSUME WriterInv, HasRoom, NEW r \in 1..Rows(w), NEW c \in 1..Cols(w), NEW b \in Bits,
                      ~(r \in 1..Len(lines) /\ c \in 1..Len(lines[r]))
               PROVE  PixelAt(c - 1, r - 1, b).glyph = NoGlyph
  BY Zenon DEF NoGhostText
<1>1. PixelShows(PixelAt(c - 1, r - 1, b), lines, c - 1, r - 1, b)
  BY <1>0, CellPixels, Zenon
<1>2. (r - 1) + 1 = r /\ (c - 1) + 1 = c
  <2>1. Cols(w) \in Nat /\ Rows(w) \in Nat
    BY <1>0, RoomIs, Zenon DEF WriterInv
  <2>2. QED
    BY <2>1
<1>3. QED
  BY <1>0, <1>1, <1>2, Zenon DEF PixelShows


LEMMA InvTypes == WriterInv => WriterTypeOK /\ PanicsOnlyWithoutRoom
<1>0. SUFFICES ASSUME WriterInv PROVE WriterTypeOK /\ PanicsOnlyWithoutRoom
  BY Zenon
<1>1. WriterTypeOK
  BY <1>0, Zenon DEF WriterInv, IsWriter, WriterTypeOK, Backgrounds
<1>2. PICK m \in Nat, n \in Nat : m = Cols(w) /\ n = Rows(w)
  BY <1>0, RoomIs, Zenon DEF WriterInv
<1>3. ~(m > 0 /\ n > 0) => m = 0 \/ n = 0
  OBVIOUS
<1>4. PanicsOnlyWithoutRoom
  BY <1>0, <1>2, <1>3, Zenon DEF WriterInv, HasRoom, PanicsOnlyWithoutRoom
<1>5. QED
  BY <1>1, <1>4, Zenon

-----------------------------------------------------------------------------
(* put_char, scroll and set_color keep the buffer the size of the screen   *)
(* and the colours colours, whatever is printed.                           *)
THEOREM WriterTypes == WriterSpec => []WriterTypeOK
<1>1. WriterInv => WriterTypeOK
  BY InvTypes, Zenon
<1>2. QED
  BY <1>1, WriterStarts, WriterSteps, PTL DEF WriterSpec

(* put_char's unwrap and the subtraction of new_line do not panic on any   *)
(* screen with room for one glyph, whatever is printed.                    *)
THEOREM WriterPanicsOnlyWithoutRoom == WriterSpec => []PanicsOnlyWithoutRoom
<1>1. WriterInv => PanicsOnlyWithoutRoom
  BY InvTypes, Zenon
<1>2. QED
  BY <1>1, WriterStarts, WriterSteps, PTL DEF WriterSpec

(* write_char, new_line and scroll: on a screen of any size, with a font   *)
(* of any size, the last lines of all that was printed are shown, every    *)
(* glyph whole, in its place and in its colours.                           *)
THEOREM WriterShowsTheLog == WriterSpec => []TextVisible
BY InvShowsText, WriterStarts, WriterSteps, PTL DEF WriterSpec

(* scroll leaves nothing of the lines that went: every cell that holds no  *)
(* glyph of the log shows none.                                            *)
THEOREM WriterLeavesNoGhosts == WriterSpec => []NoGhostText
BY InvShowsNoGhost, WriterStarts, WriterSteps, PTL DEF WriterSpec
=============================================================================
