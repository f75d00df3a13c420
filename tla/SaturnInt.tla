----------------------------- MODULE SaturnInt -----------------------------
(***************************************************************************)
(* The interrupt logic of the Saturn processor as operators on a record    *)
(* `cpu' of the fields of the global `saturn' that it reads or writes      *)
(* (actions.c).  Interrupt entry and return share the return stack with    *)
(* the program's own calls.                                                *)
(*                                                                         *)
(* There are two kinds of request.  A device (timer, serial line) calls    *)
(* do_interupt, which forgets a request it cannot take at once; the        *)
(* keyboard calls do_kbd_int, which then leaves int_pending behind for     *)
(* the next RTI.                                                           *)
(***************************************************************************)
EXTENDS ReturnStack

CONSTANT IntVector   \* where an interrupt enters: 0xf in the code

ASSUME SaturnIntAssumption == IntVector \in Addr

Cpu == [ PC          : Addr,
         rstk        : [Slot -> Addr],
         rstkp       : StackPointer,
         intenable   : BOOLEAN,     \* FALSE from interrupt entry to RTI
         int_pending : BOOLEAN,     \* a key interrupt waits for RTI
         kbd_ien     : BOOLEAN ]    \* INTON / INTOFF: may ordinary keys interrupt?

InitCpu == [ PC          |-> 0,
             rstk        |-> [i \in Slot |-> 0],
             rstkp       |-> -1,
             intenable   |-> TRUE,
             int_pending |-> FALSE,
             kbd_ien     |-> TRUE ]

\* Mutant: interrupts stay enabled in the handler.
EnterEnabled(cpu) == [push_return_addr(cpu, cpu.PC) EXCEPT !.PC = IntVector]

\* The half do_interupt and do_kbd_int share when interrupts are enabled.
enter_interrupt(cpu) ==
    [push_return_addr(cpu, cpu.PC) EXCEPT !.PC = IntVector, !.intenable = FALSE]

do_interupt(cpu) == IF cpu.intenable THEN enter_interrupt(cpu) ELSE cpu

do_kbd_int(cpu) ==
    IF cpu.intenable THEN enter_interrupt(cpu)
                     ELSE [cpu EXCEPT !.int_pending = TRUE]

\* Mutant: RTI forgets the key that waited and returns at once.
RtiDropsPending(cpu) ==
    [pop_return_addr(cpu) EXCEPT !.PC = top_return_addr(cpu), !.intenable = TRUE,
                                 !.int_pending = FALSE]

\* RTI: a key interrupt that waited is entered again at once, without a pop,
\* so that the return address of the first entry serves the second as well.
do_return_interupt(cpu) ==
    IF cpu.int_pending
    THEN [cpu EXCEPT !.int_pending = FALSE, !.intenable = FALSE, !.PC = IntVector]
    ELSE [pop_return_addr(cpu) EXCEPT !.PC = top_return_addr(cpu), !.intenable = TRUE]

\* RSI: keyboard interrupts on, and one at once if any key is down.
do_reset_interrupt_system(cpu, keydown) ==
    LET on == [cpu EXCEPT !.kbd_ien = TRUE]
    IN  IF keydown THEN do_kbd_int(on) ELSE on

\* Mutant: interrupts enabled, int_pending not reset.
ShutdownKeepsPending(cpu, outIsZero) ==
    IF outIsZero THEN [cpu EXCEPT !.intenable = TRUE] ELSE cpu

\* The start of SHUTDN: with no keyboard line driven only an interrupt can
\* end the sleep, so they are enabled, and a key that waits is forgotten.
shutdown_entry(cpu, outIsZero) ==
    IF outIsZero THEN [cpu EXCEPT !.intenable = TRUE, !.int_pending = FALSE] ELSE cpu
=============================================================================
