----------------------------- MODULE Scheduler -----------------------------
(***************************************************************************)
(* The loop of emulate (emulate.c): an instruction, and schedule when      *)
(* schedule_event has run down; and the alarm the timer thread raises,     *)
(* which only schedule looks at while instructions are executed.           *)
(***************************************************************************)
EXTENDS Schedule

CONSTANT MaxT2Tick   \* bound on t2_tick, which get_t1_t2 counts up; a short holds it

ASSUME SchedulerAssumption ==
    /\ MaxT2Tick \in Nat /\ 2 * MaxT2Tick < ShortValues
    /\ \A m \in Measured : Short(m \div T2_PER_T1) <= MaxT2Tick

VARIABLES
    s, got_alarm,
    drawing   \* does the program go on writing to display registers?

vars == <<s, got_alarm, drawing>>

\* What get_t1_t2 may make of a t2_tick.
Slowed(t2_tick) == t2_tick .. MaxT2Tick

\* The ticks are those the last session saved.
Init ==
    /\ \E m \in Measured : \E t2 \in Slowed(Short(m \div T2_PER_T1)) :
          s = InitSched(Short(m), t2)
    /\ got_alarm = FALSE
    /\ drawing = TRUE

\* The timer thread.
SIGALRM ==
    /\ ~got_alarm
    /\ got_alarm' = TRUE
    /\ UNCHANGED <<s, drawing>>

\* What may request an interrupt in the call of schedule that follows.
Requesting(t, touched) ==
    {"none"} \cup
    IF ~t.intenable THEN {}
    ELSE {c \in Source \cap Countdown : Due(t, c, t.instructions - t.old_sched_instr)}
         \cup (IF "t1" \in touched THEN {"timer1"} ELSE {})
         \cup (IF t.device_check THEN {"device"} ELSE {})
         \cup (IF got_alarm THEN {"key"} ELSE {})

\* May the clock slow timer 2 down in that call?
Slowing(t) ==
    {FALSE, /\ Due(t, "adjtime", t.instructions - t.old_sched_instr)
            /\ t.t2_tick < MaxT2Tick}

\* What the statistics come to in that call; without them no choice is left.
Measuring(t) ==
    {m \in Measured : \/ Due(t, "statistics", t.instructions - t.old_sched_instr)
                      \/ Short(m) = t.t1_tick}

\* The rest of the loop behind an instruction that left the state t: touched are
\* the timers it wrote to.  A key is seen only if there was an alarm.
Behind(t, touched) ==
    LET u == [t EXCEPT !.instructions = @ + 1, !.schedule_event = @ - 1]
    IN  IF t.schedule_event > 0
        THEN s' = u /\ UNCHANGED got_alarm
        ELSE \E in \in [touched : {touched}, irq : Requesting(u, touched),
                        slow : Slowing(u), measured : Measuring(u)] :
               /\ s' = Interrupted(schedule(u, in), in.irq = "key")
               /\ got_alarm' = FALSE

\* Any instruction that has to do with none of this; it may jump.  So may RTI with
\* a key pending, which leaves interrupts disabled.
Compute ==
    \E inSrvcIo \in BOOLEAN : Behind([s EXCEPT !.inSrvcIo = inSrvcIo], {})

\* RSI with a key down, or a write to the card control register.
RequestInterrupt == Behind(Interrupted(s, TRUE), {})

Rti ==
    \E inSrvcIo \in BOOLEAN :
        Behind(do_return_interupt([s EXCEPT !.inSrvcIo = inSrvcIo]), {})

WriteDisplay == drawing /\ Behind(write_dev_mem(s, TRUE), {})

\* A write to another device register, or a read of the serial receive buffer.
WriteDevice ==
    \E touched \in SUBSET {"t1", "t2"} : Behind(write_dev_mem(s, FALSE), touched)

\* What wakes the processor may interrupt; whether it is done here or there is
\* no difference to the scheduler, which does not run in SHUTDN.
Shutdn ==
    \E outIsZero, irq \in BOOLEAN, t2_tick \in Slowed(s.t2_tick) :
        Behind(Interrupted(do_shutdown(s, outIsZero, t2_tick), irq), {})

Emulate ==
    /\ Compute \/ RequestInterrupt \/ Rti \/ WriteDisplay \/ WriteDevice \/ Shutdn
    /\ UNCHANGED drawing

\* The program is done with the display registers.
DrawingEnds ==
    /\ drawing
    /\ drawing' = FALSE
    /\ UNCHANGED <<s, got_alarm>>

Next == SIGALRM \/ Emulate \/ DrawingEnds

\* The emulator thread runs.  This is weak fairness of Emulate, which is always
\* enabled and alone changes s, in a form that costs TLC less.
Fairness == []<><<s' # s>>_s

Spec == Init /\ [][Next]_vars /\ Fairness

----------------------------------------------------------------------------
(* Properties.                                                             *)

Since == s.instructions - s.old_sched_instr

\* Schedule comes in time: no countdown of the serial line, the clock, the statistics or the
\* rollover of the instruction counter is overrun, however often schedule came before, and
\* none counts backwards when that counter is taken back.  Nor is timer 1 while its tick is
\* positive; a tick the short has made 0 or less has schedule come at every instruction,
\* which overruns nothing else.  And an alarm, with it a key, is looked at within one tick of
\* timer 2, whatever the program writes to and in whatever state interrupts are.
OnTime ==
    /\ Since >= 0
    /\ \A c \in {"receive", "adjtime", "statistics", "instr_rollover"} : Since < s.sched[c]
    /\ Since < s.sched.timer1 \/ Since = 0
    /\ Since < IF MaxT2Tick > SCHED_TIMER2 THEN MaxT2Tick ELSE SCHED_TIMER2

\* Once the program leaves the display registers alone, the wait for a redraw ends.
RedrawComes ==
    ~drawing /\ s.display_touched > 0 /\ s.device_check ~> s.display_touched = 0

\* And it ends with the redraw: the screen is left without a change only in a call
\* of schedule that came behind its time, with schedule_event below 0 (emulate.c calls that
\* a "bug") and the redraw due already.  It comes there when a display register is written a
\* second time at the very instruction its redraw is due.  That a tick of timer 1 is 0 or
\* less, so that schedule_event is below 0 all the time, loses nothing by itself.
LostOnlyBehind ==
    [][s.display_touched > 0 /\ s'.display_touched = 0 /\ s'.stale
       => s.schedule_event < 0 /\ s.sched.display <= 0]_vars

\* A time adjustment an I/O service routine put off is made up for as soon as RTI
\* has left it, unless another interrupt comes at that very instruction.
AdjustedAfterRti ==
    [][s.adj_time_pending /\ s'.adj_time_pending /\ s'.intenable
       => s'.inSrvcIo \/ ~Rti]_vars
=============================================================================
