------------------------------ MODULE Control ------------------------------
(***************************************************************************)
(* The control flow of the emulated processor: calls, returns, interrupts  *)
(* and RTI, as step_instruction (emulate.c) and the handlers of actions.c  *)
(* carry them out, for every program.  The program is the environment: any *)
(* instruction may come at any moment, and so may, between instructions,   *)
(* the interrupt of a device or a key (schedule, check_devices, GetEvent). *)
(*                                                                         *)
(* frame is a history variable: where the newest interrupt that has not    *)
(* returned keeps its return address, and what that address was.           *)
(***************************************************************************)
EXTENDS SaturnInt

CONSTANT InstrLen   \* lengths of the instructions that push or skip: 2 .. 7 nibbles

ASSUME ControlAssumption == InstrLen \subseteq Nat

VARIABLES cpu,      \* the fields of `saturn' that SaturnInt is about
          C,        \* field A of register C, as an address
          keydown,  \* is any bit of keybuf.rows set?
          frame     \* [at, resume] of the newest interrupt; at = -1 if none

vars == <<cpu, C, keydown, frame>>

NoFrame == [at |-> -1, resume |-> 0]

Init == /\ cpu = InitCpu
        /\ C \in Addr
        /\ keydown = FALSE
        /\ frame = NoFrame

\* Addresses an instruction at PC may be followed by when it does not jump.
Following == {cpu.PC + n : n \in InstrLen} \cap Addr

----------------------------------------------------------------------------
(* The history variable.                                                   *)

EnterFrame(pc) == frame' = [at |-> cpu'.rstkp, resume |-> pc]

PushFrame ==
    frame' = IF Full(cpu)
             THEN IF frame.at <= 0 THEN NoFrame ELSE [frame EXCEPT !.at = @ - 1]
             ELSE frame

PopFrame == frame' = IF frame.at = cpu.rstkp THEN NoFrame ELSE frame

----------------------------------------------------------------------------
(* Instructions.                                                           *)

\* GOSUB, GOSUBL, GOSBVL
Gosub ==
    \E resume \in Following, dest \in Addr :
        /\ cpu' = [push_return_addr(cpu, resume) EXCEPT !.PC = dest]
        /\ PushFrame
        /\ UNCHANGED <<C, keydown>>

\* RTN, RTNC, RTNSXM, ... and the conditional returns that are taken
Rtn ==
    /\ cpu' = [pop_return_addr(cpu) EXCEPT !.PC = top_return_addr(cpu)]
    /\ PopFrame
    /\ UNCHANGED <<C, keydown>>

RtnTest ==   \* RTNYES after a test, RTNC, RTNNC: not taken
    \E next \in Following :
        /\ cpu' = [cpu EXCEPT !.PC = next]
        /\ UNCHANGED <<C, keydown, frame>>

PushC ==     \* RSTK=C
    \E next \in Following :
        /\ cpu' = [push_return_addr(cpu, C) EXCEPT !.PC = next]
        /\ PushFrame
        /\ UNCHANGED <<C, keydown>>

PopC ==      \* C=RSTK
    \E next \in Following :
        /\ cpu' = [pop_return_addr(cpu) EXCEPT !.PC = next]
        /\ C' = top_return_addr(cpu)
        /\ PopFrame
        /\ UNCHANGED keydown

Rti ==
    /\ cpu' = do_return_interupt(cpu)
    /\ IF cpu.int_pending THEN UNCHANGED frame ELSE PopFrame
    /\ UNCHANGED <<C, keydown>>

IntOnOff ==  \* INTON, INTOFF
    \E next \in Following, on \in BOOLEAN :
        /\ cpu' = [cpu EXCEPT !.PC = next, !.kbd_ien = on]
        /\ UNCHANGED <<C, keydown, frame>>

Rsi ==
    \E next \in Following :
        /\ cpu' = do_reset_interrupt_system([cpu EXCEPT !.PC = next], keydown)
        /\ IF keydown /\ cpu.intenable THEN EnterFrame(next) ELSE UNCHANGED frame
        /\ UNCHANGED <<C, keydown>>

Shutdn ==    \* up to the sleep; what ends the sleep is an interrupt below
    \E next \in Following, outIsZero \in BOOLEAN :
        /\ cpu' = shutdown_entry([cpu EXCEPT !.PC = next], outIsZero)
        /\ UNCHANGED <<C, keydown, frame>>

\* Every other instruction, and the reset to address 0 after an illegal one.
Compute ==
    \E next \in Addr, c \in Addr :
        /\ cpu' = [cpu EXCEPT !.PC = next]
        /\ C' = c
        /\ UNCHANGED <<keydown, frame>>

----------------------------------------------------------------------------
(* Requests.                                                               *)

\* A timer or the serial line; also the only request a SHUTDN may sleep on.
DeviceInterrupt ==
    /\ cpu' = do_interupt(cpu)
    /\ IF cpu.intenable THEN EnterFrame(cpu.PC) ELSE UNCHANGED frame
    /\ UNCHANGED <<C, keydown>>

\* key_event, press: ON always interrupts, the other keys if kbd_ien.
KeyPress ==
    \E isOn \in BOOLEAN :
        LET interrupts == isOn \/ cpu.kbd_ien
        IN  /\ cpu' = IF interrupts THEN do_kbd_int(cpu) ELSE cpu
            /\ IF interrupts /\ cpu.intenable THEN EnterFrame(cpu.PC) ELSE UNCHANGED frame
            /\ keydown' = TRUE
            /\ UNCHANGED C

\* key_event, release (other keys may still be down), or the patch in do_in.
KeyRelease ==
    /\ keydown
    /\ keydown' \in BOOLEAN
    /\ UNCHANGED <<cpu, C, frame>>

Next ==
    \/ Gosub \/ Rtn \/ RtnTest \/ PushC \/ PopC \/ Rti
    \/ IntOnOff \/ Rsi \/ Shutdn \/ Compute
    \/ DeviceInterrupt \/ KeyPress \/ KeyRelease

Spec == Init /\ [][Next]_vars

----------------------------------------------------------------------------
(* Properties.                                                             *)

Frame == [at : StackPointer, resume : Addr]

\* The fields of `saturn' keep their ranges: rstkp in particular never leaves
\* the array, whatever mixture of calls, returns and interrupts a program runs.
TypeOK ==
    /\ cpu \in Cpu
    /\ C \in Addr
    /\ keydown \in BOOLEAN
    /\ frame \in Frame

\* int_pending stands only while interrupts are disabled.  If it outlived the
\* return that enables them, the next RTI would enter the handler for a key
\* that was served long ago and never return to the program.
PendingOnlyWhileDisabled == cpu.int_pending => ~cpu.intenable

\* As long as the return address of an interrupt has not been popped or pushed
\* out of the stack by calls nested too deep, it is still the address at which
\* the program was interrupted: handler entry, re-entry by RTI, shifting of a
\* full stack and the stale slots above rstkp never corrupt it.
FrameIntact ==
    frame.at >= 0 => /\ frame.at <= cpu.rstkp
                     /\ cpu.rstk[frame.at] = frame.resume

\* The RTI that ends an interrupt whose handler has returned from all its own
\* calls goes on exactly where the program was interrupted, also when RTI had to
\* enter the handler again, any number of times, for keys pressed meanwhile.
RtiResumes ==
    [][~cpu.intenable /\ cpu'.intenable /\ frame.at = cpu.rstkp /\ frame.at >= 0
          /\ cpu'.rstkp < cpu.rstkp
       => cpu'.PC = frame.resume]_vars

\* A key interrupt that waits is not lost: it stops waiting only because RTI
\* enters the handler for it, or because SHUTDN enables interrupts instead, and
\* neither touches the return stack, so the interrupted program can still resume.
PendingServiced ==
    [][cpu.int_pending /\ ~cpu'.int_pending
       => /\ \/ cpu'.PC = IntVector /\ ~cpu'.intenable
             \/ cpu'.PC \in Following /\ cpu'.intenable
          /\ cpu'.rstkp = cpu.rstkp
          /\ cpu'.rstk = cpu.rstk]_vars

\* The addresses the array and its index hold: the bounded stack of CallStack.
Entries(s) == [i \in 1 .. s.rstkp + 1 |-> s.rstk[i - 1]]

Abstract == INSTANCE CallStack WITH Depth <- NR_RSTK, PC <- cpu.PC, stack <- Entries(cpu)

\* Calls, returns and interrupts, interleaved in any way, nest as CallStack says:
\* every return takes the newest of the last NR_RSTK addresses not returned to.
ImplementsCallStack == Abstract!Spec
=============================================================================
