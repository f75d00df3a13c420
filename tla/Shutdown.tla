----------------------------- MODULE Shutdown -----------------------------
(***************************************************************************)
(* SHUTDN, the instruction that puts the calculator to sleep, and the four *)
(* parties that meet in it: the emulator thread, which blocks on a         *)
(* condition variable inside do_shutdown (actions.c); the Java timer       *)
(* thread, which calls SIGALRM every 20 ms while the activity is resumed   *)
(* (main.c); the UI thread, which queues key codes, starts and cancels     *)
(* that timer and stops the emulator (X48.java); and the emulated program, *)
(* which has its own idea of which interrupts are enabled.                 *)
(*                                                                         *)
(* The condition variable has no predicate.  A signal that finds nobody    *)
(* waiting is lost, and a wait may end without a signal; got_alarm is what *)
(* the woken thread looks at.                                              *)
(***************************************************************************)
EXTENDS SaturnInt, KeyEvents

CONSTANTS T1Ctrl, T2Ctrl,  \* the settings of the timer control nibbles to explore
          MaxQueue         \* bound on the codes in HPView's queue

\* Bits of t1_ctrl and t2_ctrl.
SRQ == 8    \* set by the emulator: the timer has expired
WKE == 4    \* expiry ends SHUTDN
INT == 2    \* expiry interrupts
LOW == 1    \* timer 2 runs; for timer 1 do_shutdown treats it like INT

ASSUME ShutdownAssumption ==
    /\ \A ctrl \in T1Ctrl \cup T2Ctrl : ctrl \subseteq {WKE, INT, LOW}
    /\ MaxQueue \in Nat

VARIABLES
    cpu, kbd,          \* the processor; the keyboard
    t1_ctrl, t2_ctrl,  \* sets of bits
    got_alarm,
    exit_state,
    thread,   \* emulator: "run" before an instruction, "check" behind it, "done";
              \* in SHUTDN "enter", "wait" or "woken"
    ticking,  \* X48.SIGALRM: is the timer scheduled?
    ringing,  \* timer thread: between got_alarm = 1 and the signal
    slept     \* history: the processor when SHUTDN began to wait, InitCpu outside

vars == <<cpu, kbd, t1_ctrl, t2_ctrl, got_alarm, exit_state, thread, ticking, ringing, slept>>

ctrl == <<t1_ctrl, t2_ctrl>>

Asleep == thread \in {"enter", "wait", "woken"}

Init ==
    /\ cpu = InitCpu
    /\ kbd = InitKeys
    /\ t1_ctrl \in T1Ctrl
    /\ t2_ctrl \in T2Ctrl
    /\ got_alarm = FALSE
    /\ exit_state = TRUE
    /\ thread = "run"
    /\ ticking = TRUE
    /\ ringing = FALSE
    /\ slept = InitCpu

----------------------------------------------------------------------------
(* The UI thread and the timer thread.                                     *)

PressKey(b) ==
    /\ Len(kbd.queuedCodes) < MaxQueue
    /\ kbd' = queued(kbd, press_code(b))
    /\ UNCHANGED <<cpu, ctrl, got_alarm, exit_state, thread, ticking, ringing, slept>>

ReleaseKey(b) ==
    /\ Len(kbd.queuedCodes) < MaxQueue
    /\ \/ Visible(kbd.rows, b)   \* of any other button it would change nothing
       \/ \E i \in 1 .. Len(kbd.queuedCodes) : kbd.queuedCodes[i] = press_code(b)
    /\ kbd' = queued(kbd, release_code(b))
    /\ UNCHANGED <<cpu, ctrl, got_alarm, exit_state, thread, ticking, ringing, slept>>

\* The timer is cancelled; a call of SIGALRM under way goes on.
onPause ==
    /\ ticking
    /\ ticking' = FALSE
    /\ UNCHANGED <<cpu, kbd, ctrl, got_alarm, exit_state, thread, ringing, slept>>

onResume ==
    /\ exit_state
    /\ ~ticking
    /\ ticking' = TRUE
    /\ UNCHANGED <<cpu, kbd, ctrl, got_alarm, exit_state, thread, ringing, slept>>

\* onDestroy, which comes behind onPause and which nothing follows here: what another
\* activity does is in Lifecycle.
stopHPEmulator ==
    /\ exit_state
    /\ ~ticking
    /\ exit_state' = FALSE
    /\ UNCHANGED <<cpu, kbd, ctrl, got_alarm, thread, ticking, ringing, slept>>

SetAlarm ==
    /\ ticking
    /\ ~ringing
    /\ ringing' = TRUE
    /\ got_alarm' = TRUE
    /\ UNCHANGED <<cpu, kbd, ctrl, exit_state, thread, ticking, slept>>

Signal ==
    /\ ringing
    /\ ringing' = FALSE
    /\ thread' = IF thread = "wait" THEN "woken" ELSE thread
    /\ UNCHANGED <<cpu, kbd, ctrl, got_alarm, exit_state, ticking, slept>>

----------------------------------------------------------------------------
(* The emulator thread, awake.                                             *)

AtInstruction == thread = "run" /\ UNCHANGED <<ticking, ringing, exit_state>>

BehindInstruction == thread = "check" /\ UNCHANGED <<ticking, ringing, exit_state>>

\* One instruction of the emulated program that concerns interrupts.
Rti    == cpu' = do_return_interupt(cpu)
Rsi    == cpu' = do_reset_interrupt_system(cpu, \E r \in Row : kbd.rows[r] # {})
IntOn  == cpu' = [cpu EXCEPT !.kbd_ien = TRUE]
IntOff == cpu' = [cpu EXCEPT !.kbd_ien = FALSE]
Jump   == \E dest \in Addr : cpu' = [cpu EXCEPT !.PC = dest]

Execute ==
    /\ AtInstruction
    /\ Rti \/ Rsi \/ IntOn \/ IntOff \/ Jump
    /\ thread' = "check"
    /\ UNCHANGED <<kbd, ctrl, got_alarm, slept>>

\* The program sets up a timer, or answers its request by clearing SRQ.
WriteTimerCtrl ==
    /\ AtInstruction
    /\ t1_ctrl' \in T1Ctrl /\ t2_ctrl' \in T2Ctrl
    /\ thread' = "check"
    /\ UNCHANGED <<cpu, kbd, got_alarm, slept>>

\* schedule, between instructions: poll the keyboard if there was an alarm ...
PollKeys ==
    /\ BehindInstruction
    /\ got_alarm
    /\ got_alarm' = FALSE
    /\ kbd' = polled(kbd)
    /\ cpu' = IF poll_interrupts(kbd, cpu.kbd_ien) THEN do_kbd_int(cpu) ELSE cpu
    /\ UNCHANGED <<ctrl, thread, slept>>

\* ... and interrupt when timer 1 or timer 2 has run out.
TimerInterrupt ==
    /\ BehindInstruction
    /\ \/ INT \in t1_ctrl /\ t1_ctrl' = t1_ctrl \cup {SRQ} /\ t2_ctrl' = t2_ctrl
       \/ INT \in t2_ctrl /\ t2_ctrl' = t2_ctrl \cup {SRQ} /\ t1_ctrl' = t1_ctrl
    /\ cpu' = do_interupt(cpu)
    /\ UNCHANGED <<kbd, got_alarm, thread, slept>>

\* The loop of emulate looks at exit_state after each instruction.
EndIteration ==
    /\ BehindInstruction
    /\ thread' = IF exit_state THEN "run" ELSE "done"
    /\ UNCHANGED <<cpu, kbd, ctrl, got_alarm, slept>>

----------------------------------------------------------------------------
(* The emulator thread in do_shutdown.                                     *)

Sleeping == UNCHANGED <<ticking, ringing, exit_state>>

Shutdn ==
    /\ AtInstruction
    /\ \E next \in Addr, outIsZero \in BOOLEAN :
         cpu' = shutdown_entry([cpu EXCEPT !.PC = next], outIsZero)
    /\ slept' = cpu'
    /\ thread' = "enter"
    /\ UNCHANGED <<kbd, ctrl, got_alarm>>

Wait ==
    /\ thread = "enter"
    /\ thread' = "wait"
    /\ Sleeping
    /\ UNCHANGED <<cpu, kbd, ctrl, got_alarm, slept>>

SpuriousWakeup ==
    /\ thread = "wait"
    /\ thread' = "woken"
    /\ Sleeping
    /\ UNCHANGED <<cpu, kbd, ctrl, got_alarm, slept>>

Expire(c, request) == IF request THEN do_interupt(c) ELSE c

\* Mutant: GetEvent's interrupt_called is not looked at.
WakesByTimer(keyInt, t1, t2) ==
    t1 \cap {WKE, INT, LOW} # {} \/ t2 \cap {WKE, INT} # {}

\* Does an alarm wake the processor that finds the key's interrupt requested, and
\* these bits in the controls of the timers that have run out?
Wakes(keyInt, t1, t2) ==
    keyInt \/ t1 \cap {WKE, INT, LOW} # {} \/ t2 \cap {WKE, INT} # {}

\* Mutant: the loop looks only at wake.
LoopForever == "enter"

\* Where do_shutdown goes on when nothing woke it.
LoopAgain == IF exit_state THEN "enter" ELSE "check"

SleptUntil(next) == slept' = IF next = "check" THEN InitCpu ELSE slept

\* The interrupts of one alarm come in the order of the code: the keyboard,
\* timer 2, timer 1, and the serial line if nothing else woke the processor.
HandleAlarm ==
    /\ thread = "woken"
    /\ got_alarm
    /\ got_alarm' = FALSE
    /\ kbd' = polled(kbd)
    /\ \E t1Expired, t2Expired, received \in BOOLEAN :
         LET t1       == IF t1Expired THEN t1_ctrl ELSE {}
             t2       == IF t2Expired THEN t2_ctrl ELSE {}
             t1Int    == t1 \cap {INT, LOW} # {}
             t2Int    == INT \in t2
             keyInt   == poll_interrupts(kbd, cpu.kbd_ien)
             wake     == Wakes(keyInt, t1, t2)
             afterKey == IF keyInt THEN do_kbd_int(cpu) ELSE cpu
         IN  /\ cpu' = Expire(Expire(Expire(afterKey, t2Int), t1Int), ~wake /\ received)
             /\ t2_ctrl' = IF t2Int THEN t2_ctrl \cup {SRQ} ELSE t2_ctrl
             /\ t1_ctrl' = IF t1Int THEN t1_ctrl \cup {SRQ} ELSE t1_ctrl
             /\ thread' = IF wake \/ received THEN "check" ELSE LoopAgain
    /\ SleptUntil(thread')
    /\ Sleeping

NoAlarm ==
    /\ thread = "woken"
    /\ ~got_alarm
    /\ thread' = LoopAgain
    /\ SleptUntil(thread')
    /\ Sleeping
    /\ UNCHANGED <<cpu, kbd, ctrl, got_alarm>>

----------------------------------------------------------------------------

UIThread ==
    \/ onPause \/ onResume \/ stopHPEmulator
    \/ \E b \in Button : PressKey(b) \/ ReleaseKey(b)

TimerThread == SetAlarm \/ Signal

Instruction == Execute \/ WriteTimerCtrl \/ Shutdn

InShutdn == Wait \/ HandleAlarm \/ NoAlarm

\* The emulator has returned and the timer is cancelled: all is over.
Terminated ==
    /\ thread = "done"
    /\ UNCHANGED vars

Next ==
    \/ UIThread
    \/ TimerThread
    \/ Instruction \/ PollKeys \/ TimerInterrupt \/ EndIteration
    \/ InShutdn \/ SpuriousWakeup
    \/ Terminated

\* The timer fires at a fixed rate as long as it is scheduled, and a call of SIGALRM
\* comes to its end.  This is weak fairness of TimerThread, in a form that costs TLC
\* less; once the activity is stopped no timer fires any more.
TimerRuns == []<>(~ticking /\ ~ringing) \/ []<><<ringing' # ringing>>_ringing

\* The emulator thread does not stop at an instruction, behind one, or in SHUTDN
\* outside the wait: weak fairness of Instruction, of EndIteration and of InShutdn,
\* which alone end these and are enabled until they do.
EmulatorRuns ==
    []<>(thread # "run") /\ []<>(thread # "check") /\ []<>(thread \notin {"enter", "woken"})

\* Nothing obliges the program to choose SHUTDN or any other instruction, the user to
\* press a key, or the activity to be resumed.
Fairness == TimerRuns /\ EmulatorRuns

Spec == Init /\ [][Next]_vars /\ Fairness

----------------------------------------------------------------------------
(* Properties.                                                             *)

TypeOK ==
    /\ cpu \in Cpu /\ slept \in Cpu
    /\ kbd \in Keys
    /\ t1_ctrl \subseteq {SRQ, WKE, INT, LOW}
    /\ t2_ctrl \subseteq {SRQ, WKE, INT, LOW}
    /\ {got_alarm, exit_state, ticking, ringing} \subseteq BOOLEAN
    /\ thread \in {"run", "check", "enter", "wait", "woken", "done"}

\* An interrupt never leaves the processor in SHUTDN: while the thread blocks,
\* the processor is still just behind the instruction with nothing pushed since,
\* whatever alarms, keys, timers and spurious wakeups it has gone through.
AsleepUntouched == Asleep => cpu = slept

\* SHUTDN ends in one of two ways.  Either interrupts were enabled and one was
\* taken: then the handler runs, with interrupts off, and exactly one address has
\* been pushed, that of the instruction after SHUTDN, even if the key, both
\* timers and the serial line all asked at the same alarm.  Or the program goes on
\* behind SHUTDN with its return stack as it was.
WakesOnce ==
    [][thread = "woken" /\ thread' = "check"
       => \/ /\ slept.intenable
             /\ cpu'.PC = IntVector
             /\ ~cpu'.intenable
             /\ ~cpu'.int_pending
             /\ cpu'.rstk = push_return_addr(slept, slept.PC).rstk
             /\ cpu'.rstkp = push_return_addr(slept, slept.PC).rstkp
          \/ /\ cpu'.PC = slept.PC
             /\ cpu'.intenable = slept.intenable
             /\ cpu'.rstk = slept.rstk
             /\ cpu'.rstkp = slept.rstkp]_vars

\* A press of ON that is on its way ends SHUTDN while the activity stays resumed,
\* whatever the program did to the interrupt system before it went to sleep and
\* wherever the alarms fall: no signal is lost for good.
OnOnItsWay == \E i \in 1 .. Len(kbd.queuedCodes) : kbd.queuedCodes[i] = press_code(On)

OnWakes == (Asleep /\ OnOnItsWay) ~> (~Asleep \/ ~ticking)

\* Once exit_state is off the emulator thread returns, from the middle of SHUTDN too: at the
\* next look at exit_state, by the signal of a call of SIGALRM the cancelled timer had begun,
\* or by a spurious wakeup.  The one place it can stay in is the wait, with nobody left to
\* signal (JoinedMeansStopped in Lifecycle shows that outcome).
Unsignalled == thread = "wait" /\ ~ringing

StopEnds ==
    /\ ~exit_state ~> (thread = "done" \/ Unsignalled)
    /\ (~exit_state /\ thread \in {"check", "woken", "wait"} /\ ~Unsignalled) ~> thread = "done"
=============================================================================
