------------------------------ MODULE Schedule ------------------------------
(***************************************************************************)
(* schedule (emulate.c): what the emulator does between two instructions.  *)
(* Seven countdowns of instructions stand for the hardware beside the CPU, *)
(* and schedule_event says in how many instructions the nearest one is due.*)
(*                                                                         *)
(* The operators work on a record of the scheduler's state.  What the real *)
(* time clock and the devices make of an event is an argument:             *)
(*   in.touched   the timers, "t1" and "t2", the program has just written  *)
(*   in.irq       the first event that requests an interrupt, or "none";   *)
(*                the ones behind it find interrupts disabled              *)
(*   in.slow      get_t1_t2 slows timer 2 down                             *)
(*   in.measured  the instructions per tick of timer 1 that the statistics *)
(*                come to                                                  *)
(***************************************************************************)
EXTENDS Integers

CONSTANTS
    SCHED_INSTR_ROLLOVER, SCHED_RECEIVE, SCHED_ADJTIME, SCHED_TIMER1,
    SCHED_TIMER2, SCHED_STATISTICS, SCHED_NEVER,
    DISP_INSTR_OFF,   \* instructions a redraw is put off by
    Measured,         \* possible instructions per tick of timer 1, an unsigned long
    T2_PER_T1,        \* ticks of timer 2 in one of timer 1: 512
    ShortValues       \* values of a short, the type of t1_tick and t2_tick: 2^16

ASSUME ScheduleAssumption ==
    /\ SCHED_INSTR_ROLLOVER \in Nat \ {0} /\ SCHED_RECEIVE \in Nat \ {0}
    /\ SCHED_ADJTIME \in Nat \ {0} /\ SCHED_TIMER1 \in Nat \ {0}
    /\ SCHED_TIMER2 \in Nat \ {0} /\ SCHED_STATISTICS \in Nat \ {0}
    /\ DISP_INSTR_OFF \in Nat \ {0} /\ SCHED_NEVER \in Nat
    /\ DISP_INSTR_OFF < SCHED_NEVER
    /\ Measured \subseteq Nat /\ T2_PER_T1 \in Nat \ {0} /\ ShortValues \in Nat \ {0}

Countdown == {"timer1", "timer2", "display", "receive", "adjtime",
              "statistics", "instr_rollover"}

Source == {"device", "receive", "timer1", "timer2", "adjtime", "key", "none"}

Input == [touched : SUBSET {"t1", "t2"}, irq : Source, slow : BOOLEAN,
          measured : Measured]

\* What is left of n in a short.
Short(n) ==
    LET low == n % ShortValues
    IN  IF low < ShortValues \div 2 THEN low ELSE low - ShortValues

\* The scheduler's variables before the first instruction, set as emulate does.
InitSched(t1, t2) ==
    [ sched            |-> [ timer1         |-> t1,
                             timer2         |-> t2,
                             display        |-> SCHED_NEVER,
                             receive        |-> SCHED_RECEIVE,
                             adjtime        |-> SCHED_ADJTIME,
                             statistics     |-> SCHED_STATISTICS,
                             instr_rollover |-> SCHED_INSTR_ROLLOVER ],
      schedule_event   |-> 0,
      instructions     |-> 0,
      old_sched_instr  |-> 0,
      device_check     |-> FALSE,
      display_touched  |-> 1,
      stale            |-> FALSE,    \* history: the screen lacks a change of a register
      adj_time_pending |-> FALSE,
      t1_tick          |-> t1,
      t2_tick          |-> t2,
      intenable        |-> TRUE,
      inSrvcIo         |-> FALSE ]   \* SrvcIoStart <= PC <= SrvcIoEnd

Least(i, j) == IF j < i THEN j ELSE i

\* do_interupt: the handler at 0xf is outside the I/O service routines.
Interrupted(s, request) ==
    IF request /\ s.intenable
    THEN [s EXCEPT !.intenable = FALSE, !.inSrvcIo = FALSE]
    ELSE s

Due(s, c, steps) == s.sched[c] - steps <= 0

\* Countdown c is advanced, and starts from period again when it is due.
Counted(s, c, steps, period) ==
    [s EXCEPT !.sched[c] = IF Due(s, c, steps) THEN period ELSE @ - steps]

\* schedule_event takes account of countdown c.
Noted(s, c) == [s EXCEPT !.schedule_event = Least(@, s.sched[c])]

----------------------------------------------------------------------------
(* The parts of schedule, in their order.                                  *)

\* Mutant: with interrupts disabled timer 2 is looked at as rarely as timer 1.
Timer2AsTimer1(s, steps, in) ==
    LET period == IF s.intenable THEN s.t2_tick ELSE SCHED_TIMER1
        r == Interrupted(Counted(s, "timer2", steps, period),
                         Due(s, "timer2", steps) /\ in.irq = "timer2")
    IN  [r EXCEPT !.schedule_event = r.sched.timer2]

Timer2(s, steps, in) ==
    LET period == IF s.intenable THEN s.t2_tick ELSE SCHED_TIMER2
        r == Interrupted(Counted(s, "timer2", steps, period),
                         Due(s, "timer2", steps) /\ in.irq = "timer2")
    IN  [r EXCEPT !.schedule_event = r.sched.timer2]

\* Mutant: only the last instruction of a wait counts.
LastOnly(touched) == IF touched = 1 THEN 0 ELSE touched

\* What check_devices leaves of display_touched.
Left(touched) == IF touched > 0 THEN touched - 1 ELSE touched

CheckAgain(touched) == touched > 0

\* device.c: the redraw, then the serial interface and the timers, which start
\* anew if the program wrote to them.
check_devices(s, in) ==
    LET left == Left(s.display_touched)
    IN  Interrupted(
            [s EXCEPT !.display_touched = left,
                      !.stale = @ /\ s.display_touched # 1,
                      !.device_check = CheckAgain(left),
                      !.sched.timer1 = IF "t1" \in in.touched THEN s.t1_tick ELSE @,
                      !.sched.timer2 = IF "t2" \in in.touched THEN s.t2_tick ELSE @],
            in.irq = "device")

\* Mutant: the countdown of a redraw is one too long.
RedrawCountdown(touched) == touched

sched_display(touched) == touched - 1

\* Of a redraw the steps are taken off when its countdown is due, to 0 at least
\* if they hit it and to 1 if they are more than was left.
Devices(s, steps, in) ==
    LET left == IF s.display_touched = 0 \/ ~Due(s, "display", steps)
                THEN s.display_touched
                ELSE s.display_touched - steps
        r == check_devices([s EXCEPT !.display_touched = IF left < 0 THEN 1 ELSE left,
                                     !.device_check = FALSE], in)
    IN  IF ~s.device_check THEN s
        ELSE IF r.display_touched = 0
             THEN [r EXCEPT !.sched.display = SCHED_NEVER]
             ELSE Noted([r EXCEPT !.sched.display = sched_display(r.display_touched)],
                        "display")

\* Mutant: schedule_event takes no account of the serial line.
ReceiveUnnoted(s, steps, in) ==
    Interrupted(Counted(s, "receive", steps, SCHED_RECEIVE),
                Due(s, "receive", steps) /\ in.irq = "receive")

Receive(s, steps, in) ==
    Noted(Interrupted(Counted(s, "receive", steps, SCHED_RECEIVE),
                      Due(s, "receive", steps) /\ in.irq = "receive"), "receive")

\* The timers are set by the clock, but never in the middle of an I/O service.
Adjtime(s, steps, in) ==
    LET c == Counted(s, "adjtime", steps, SCHED_ADJTIME)
        r == IF ~Due(s, "adjtime", steps) THEN c
             ELSE IF s.inSrvcIo THEN [c EXCEPT !.adj_time_pending = TRUE]
             ELSE [Interrupted(c, in.irq = "adjtime") EXCEPT
                      !.adj_time_pending = FALSE,
                      !.t2_tick = IF in.slow THEN @ + 1 ELSE @]
    IN  Noted(r, "adjtime")

Timer1(s, steps, in) ==
    LET period == IF s.intenable THEN s.t1_tick ELSE SCHED_TIMER1
    IN  Noted(Interrupted(Counted(s, "timer1", steps, period),
                          Due(s, "timer1", steps) /\ in.irq = "timer1"), "timer1")

Statistics(s, steps, in) ==
    LET c == Counted(s, "statistics", steps, SCHED_STATISTICS)
        r == IF Due(s, "statistics", steps)
             THEN [c EXCEPT !.t1_tick = Short(in.measured),
                            !.t2_tick = Short(in.measured \div T2_PER_T1)]
             ELSE c
    IN  Noted(r, "statistics")

\* Mutant: old_sched_instr is not taken back with instructions.
RolloverHalf(s, steps) ==
    LET c == Counted(s, "instr_rollover", steps, SCHED_INSTR_ROLLOVER)
        r == IF Due(s, "instr_rollover", steps) THEN [c EXCEPT !.instructions = 1] ELSE c
    IN  Noted(r, "instr_rollover")

Rollover(s, steps) ==
    LET c == Counted(s, "instr_rollover", steps, SCHED_INSTR_ROLLOVER)
        r == IF Due(s, "instr_rollover", steps)
             THEN [c EXCEPT !.instructions = 1, !.old_sched_instr = 1]
             ELSE c
    IN  Noted(r, "instr_rollover")

\* schedule, up to the alarm.
schedule(s, in) ==
    LET steps == s.instructions - s.old_sched_instr
        s1 == Timer2([s EXCEPT !.old_sched_instr = s.instructions], steps, in)
        s2 == Devices(s1, steps, in)
        s3 == Receive(s2, steps, in)
        s4 == Adjtime(s3, steps, in)
        s5 == Timer1(s4, steps, in)
        s6 == Statistics(s5, steps, in)
        s7 == Rollover(s6, steps)
    IN  [s7 EXCEPT !.schedule_event = @ - 1]

----------------------------------------------------------------------------
(* What an instruction does to the scheduler's state.                      *)

\* write_dev_mem; display says whether a display register changed.
write_dev_mem(s, display) ==
    [s EXCEPT !.device_check = TRUE, !.schedule_event = 0,
              !.display_touched = IF display THEN DISP_INSTR_OFF ELSE @,
              !.stale = @ \/ display]

\* Mutant: RTI does not see to the time adjustment that waits.
RtiLeavesTime(s) == [s EXCEPT !.intenable = TRUE]

\* do_return_interupt without a key pending.
do_return_interupt(s) ==
    IF s.adj_time_pending
    THEN [s EXCEPT !.intenable = TRUE, !.schedule_event = 0, !.sched.adjtime = 0]
    ELSE [s EXCEPT !.intenable = TRUE]

\* do_shutdown draws what waits to be drawn, and enables interrupts if no
\* keyboard line is driven; at its alarms get_t1_t2 may slow timer 2 down, to t2_tick.
do_shutdown(s, outIsZero, t2_tick) ==
    [s EXCEPT !.display_touched = 0, !.stale = @ /\ s.display_touched = 0,
              !.intenable = @ \/ outIsZero, !.t2_tick = t2_tick]
=============================================================================
