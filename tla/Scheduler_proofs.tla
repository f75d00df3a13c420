-------------------------- MODULE Scheduler_proofs --------------------------
(***************************************************************************)
(* OnTime holds for every period, every tick that a short may hold and     *)
(* every program: schedule leaves a schedule_event that no countdown runs  *)
(* out before, and whatever brings a countdown or schedule_event forward   *)
(* brings schedule with it.  A tick of timer 1 that is 0 or less makes     *)
(* schedule_event negative, which is one way to bring schedule at once.    *)
(* A redraw waits for its countdown, and is lost only in a call behind its *)
(* time (LostOnlyBehind); a clock correction waits for its RTI, and no     *)
(* longer (AdjustedAfterRti).                                              *)
(***************************************************************************)
EXTENDS Scheduler, TLAPS

OnTimers == {"receive", "adjtime", "timer1", "statistics", "instr_rollover"}

\* The longest that timer 2 lets schedule wait.
Longest == IF MaxT2Tick > SCHED_TIMER2 THEN MaxT2Tick ELSE SCHED_TIMER2

\* The ticks of timer 2: their short may be negative.
Ticks2 == {t \in Int : t <= MaxT2Tick}

SchedState ==
    [ sched            : [Countdown -> Int],
      schedule_event   : Int,
      instructions     : Int,
      old_sched_instr  : Int,
      device_check     : BOOLEAN,
      display_touched  : Int,
      stale            : BOOLEAN,
      adj_time_pending : BOOLEAN,
      t1_tick          : Int,
      t2_tick          : Ticks2,
      intenable        : BOOLEAN,
      inSrvcIo         : BOOLEAN ]

\* Neither timer 2 nor schedule_event is further away than timer 2 may be.
Near(r) ==
    /\ r \in SchedState
    /\ r.sched["timer2"] <= Longest
    /\ r.schedule_event <= Longest

\* schedule_event knows of the countdowns in C, which have something left if their
\* periods are positive.
Seen(r, C) == \A c \in C : /\ c # "timer1" => 1 <= r.sched[c]
                           /\ r.schedule_event <= r.sched[c]

\* The inductive invariant.
Rest(r) == r.instructions - r.old_sched_instr

SpacedFrom(r) ==
    /\ 0 <= Rest(r) /\ Rest(r) < Longest /\ Rest(r) + r.schedule_event + 1 <= Longest
    /\ r.schedule_event < 0 => Rest(r) = 0
    /\ \A c \in OnTimers : /\ Rest(r) < r.sched[c] \/ (c = "timer1" /\ Rest(r) = 0)
                           /\ r.schedule_event > 0 => Rest(r) + r.schedule_event + 1 <= r.sched[c]

IInv == s \in SchedState /\ s.sched["timer2"] <= Longest /\ SpacedFrom(s)

LEMMA LongestIsPositive ==
    Longest \in Nat /\ 1 <= Longest /\ MaxT2Tick <= Longest /\ SCHED_TIMER2 <= Longest
BY ScheduleAssumption, SchedulerAssumption DEF Longest

LEMMA TicksAreNumbers ==
    ASSUME NEW r \in SchedState
    PROVE  r.t1_tick \in Int /\ r.t2_tick \in Int /\ r.t2_tick <= Longest
<1>1. r.t1_tick \in Int /\ r.t2_tick \in Int /\ r.t2_tick <= MaxT2Tick
  BY DEF SchedState, Ticks2
<1> QED BY <1>1, LongestIsPositive, SchedulerAssumption

\* The conversion of the measured ticks to shorts.
LEMMA ShortsAreTicks ==
    ASSUME NEW m \in Measured
    PROVE  Short(m) \in Int /\ Short(m \div T2_PER_T1) \in Ticks2
<1>1. /\ m \in Nat /\ T2_PER_T1 \in Nat \ {0} /\ ShortValues \in Nat \ {0}
  BY ScheduleAssumption
<1>2. \A n \in Nat : Short(n) \in Int
  BY <1>1 DEF Short
<1>3. m \div T2_PER_T1 \in Nat
  BY <1>1
<1> QED BY <1>1, <1>2, <1>3, SchedulerAssumption DEF Ticks2

\* What get_t1_t2 makes of a tick.
LEMMA SlowedAreTicks ==
    ASSUME NEW t \in Ticks2, NEW u \in Slowed(t)
    PROVE  u \in Ticks2
BY SchedulerAssumption DEF Slowed, Ticks2

----------------------------------------------------------------------------
(* The parts of schedule.                                                  *)

\* A request of an interrupt leaves the countdowns alone.
LEMMA InterruptKeeps ==
    ASSUME NEW r \in SchedState, NEW request \in BOOLEAN
    PROVE  LET q == Interrupted(r, request)
           IN  /\ q \in SchedState
               /\ q.sched = r.sched /\ q.schedule_event = r.schedule_event
               /\ q.instructions = r.instructions /\ q.old_sched_instr = r.old_sched_instr
               /\ q.t1_tick = r.t1_tick /\ q.t2_tick = r.t2_tick
BY DEF Interrupted, SchedState

\* A countdown that is advanced by no less than 0 steps has something left behind it.
LEMMA CountedOn ==
    ASSUME NEW r \in SchedState, NEW c \in Countdown, NEW steps \in Nat,
           NEW period \in Int
    PROVE  LET q == Counted(r, c, steps, period)
           IN  /\ q \in SchedState
               /\ \A d \in Countdown \ {c} : q.sched[d] = r.sched[d]
               /\ q.schedule_event = r.schedule_event
               /\ q.instructions = r.instructions /\ q.old_sched_instr = r.old_sched_instr
               /\ q.t1_tick = r.t1_tick /\ q.t2_tick = r.t2_tick
               /\ 1 <= period => 1 <= q.sched[c]
               /\ q.sched[c] = period \/ q.sched[c] <= r.sched[c]
<1> DEFINE q == Counted(r, c, steps, period)
           left == IF Due(r, c, steps) THEN period ELSE r.sched[c] - steps
<1>1. r.sched \in [Countdown -> Int]
  BY DEF SchedState
<1>2. left \in Int /\ (1 <= period => 1 <= left) /\ (left = period \/ left <= r.sched[c])
  BY <1>1 DEF Due
<1>3. q = [r EXCEPT !.sched = [r.sched EXCEPT ![c] = left]]
  BY DEF Counted, SchedState
<1> HIDE DEF left
<1>4. [r.sched EXCEPT ![c] = left] \in [Countdown -> Int]
  BY <1>1, <1>2
<1>5. q \in SchedState /\ q.sched = [r.sched EXCEPT ![c] = left]
      /\ q.schedule_event = r.schedule_event
      /\ q.instructions = r.instructions /\ q.old_sched_instr = r.old_sched_instr
      /\ q.t1_tick = r.t1_tick /\ q.t2_tick = r.t2_tick
  BY <1>3, <1>4 DEF SchedState
<1> HIDE DEF q
<1>6. q.sched[c] = left /\ \A d \in Countdown \ {c} : q.sched[d] = r.sched[d]
  BY <1>1, <1>5
<1> QED BY <1>2, <1>5, <1>6 DEF q

LEMMA NotedSees ==
    ASSUME NEW r, Near(r), NEW c \in Countdown, c # "timer1" => 1 <= r.sched[c],
           NEW C \in SUBSET Countdown, Seen(r, C)
    PROVE  LET q == Noted(r, c)
           IN  /\ Near(q) /\ Seen(q, C) /\ Seen(q, {c})
               /\ q.sched = r.sched
               /\ q.instructions = r.instructions /\ q.old_sched_instr = r.old_sched_instr
               /\ q.t1_tick = r.t1_tick /\ q.t2_tick = r.t2_tick
<1> DEFINE q == Noted(r, c)
           e == Least(r.schedule_event, r.sched[c])
<1>1. r \in SchedState /\ r.schedule_event \in Int /\ r.sched \in [Countdown -> Int]
  BY DEF Near, SchedState
<1>2. e \in Int /\ e <= r.schedule_event /\ e <= r.sched[c]
  BY <1>1 DEF Least
<1>3. q = [r EXCEPT !.schedule_event = e]
  BY DEF Noted
<1> HIDE DEF e
<1>4. q \in SchedState /\ q.schedule_event = e /\ q.sched = r.sched
      /\ q.instructions = r.instructions /\ q.old_sched_instr = r.old_sched_instr
      /\ q.t1_tick = r.t1_tick /\ q.t2_tick = r.t2_tick
  BY <1>1, <1>2, <1>3 DEF SchedState
<1> HIDE DEF q
<1>5. Near(q)
  BY <1>1, <1>2, <1>4, LongestIsPositive DEF Near
<1>6. Seen(q, C) /\ Seen(q, {c})
  BY <1>1, <1>2, <1>4 DEF Seen
<1> QED BY <1>4, <1>5, <1>6 DEF q

\* m is r behind the part of schedule that advances c.
Advanced(m, r, c, steps, period) ==
    /\ m \in SchedState /\ m.schedule_event = r.schedule_event
    /\ m.sched = Counted(r, c, steps, period).sched

\* q is m with the countdown c noted, those in C before it.
Joined(q, m, C, c) ==
    /\ Near(q) /\ Seen(q, C) /\ Seen(q, {c})
    /\ q.instructions = m.instructions /\ q.old_sched_instr = m.old_sched_instr
    /\ q.t1_tick = m.t1_tick /\ q.t2_tick = m.t2_tick

\* A part of schedule that advances a countdown and takes note of it.
LEMMA PartSees ==
    ASSUME NEW r, Near(r), NEW c \in OnTimers, NEW steps \in Nat,
           NEW period \in Int, c # "timer1" => 1 <= period,
           NEW C \in SUBSET OnTimers, Seen(r, C), c \notin C,
           NEW m, Advanced(m, r, c, steps, period)
    PROVE  Joined(Noted(m, c), m, C, c)
<1>1. r \in SchedState /\ c \in Countdown /\ C \in SUBSET Countdown /\ c # "timer2"
  BY DEF Near, OnTimers, Countdown
<1>2. /\ m \in SchedState /\ m.schedule_event = r.schedule_event
      /\ m.sched = Counted(r, c, steps, period).sched
  BY DEF Advanced
<1>3. /\ \A d \in Countdown \ {c} : Counted(r, c, steps, period).sched[d] = r.sched[d]
      /\ c # "timer1" => 1 <= Counted(r, c, steps, period).sched[c]
  BY <1>1, CountedOn
<1>4. (c # "timer1" => 1 <= m.sched[c]) /\ \A d \in Countdown \ {c} : m.sched[d] = r.sched[d]
  BY <1>2, <1>3
<1>5. Near(m)
  <2>1. m.sched["timer2"] = r.sched["timer2"]
    BY <1>1, <1>4 DEF Countdown
  <2> QED BY <1>2, <2>1 DEF Near
<1>6. Seen(m, C)
  BY <1>1, <1>2, <1>4 DEF Seen
<1> QED BY <1>1, <1>4, <1>5, <1>6, NotedSees DEF Joined

LEMMA Timer2Part ==
    ASSUME NEW r \in SchedState, r.sched["timer2"] <= Longest, NEW steps \in Nat, NEW in
    PROVE  LET q == Timer2(r, steps, in)
           IN  /\ Near(q)
               /\ q.instructions = r.instructions /\ q.old_sched_instr = r.old_sched_instr
               /\ q.t1_tick = r.t1_tick /\ q.t2_tick = r.t2_tick
<1> DEFINE period == IF r.intenable THEN r.t2_tick ELSE SCHED_TIMER2
           counted == Counted(r, "timer2", steps, period)
           m == Interrupted(counted, Due(r, "timer2", steps) /\ in.irq = "timer2")
           q == Timer2(r, steps, in)
<1>1. period \in Int /\ period <= Longest
  BY TicksAreNumbers, LongestIsPositive, ScheduleAssumption
<1>2. q = [m EXCEPT !.schedule_event = m.sched.timer2]
  BY DEF Timer2
<1> HIDE DEF period
<1>3. /\ counted \in SchedState
      /\ counted.sched["timer2"] <= Longest
      /\ counted.instructions = r.instructions /\ counted.old_sched_instr = r.old_sched_instr
      /\ counted.t1_tick = r.t1_tick /\ counted.t2_tick = r.t2_tick
  <2>1. "timer2" \in Countdown
    BY DEF Countdown
  <2>2. /\ counted \in SchedState
        /\ counted.sched["timer2"] = period \/ counted.sched["timer2"] <= r.sched["timer2"]
        /\ counted.instructions = r.instructions /\ counted.old_sched_instr = r.old_sched_instr
        /\ counted.t1_tick = r.t1_tick /\ counted.t2_tick = r.t2_tick
    BY <1>1, <2>1, CountedOn
  <2>3. counted.sched["timer2"] \in Int /\ r.sched["timer2"] \in Int
    BY <2>1, <2>2 DEF SchedState
  <2> QED BY <1>1, <2>2, <2>3, LongestIsPositive
<1> HIDE DEF counted
<1>4. /\ m \in SchedState /\ m.sched = counted.sched
      /\ m.instructions = r.instructions /\ m.old_sched_instr = r.old_sched_instr
      /\ m.t1_tick = r.t1_tick /\ m.t2_tick = r.t2_tick
  BY <1>3, InterruptKeeps
<1> HIDE DEF m
<1>5. m.sched.timer2 \in Int
  BY <1>4 DEF SchedState, Countdown
<1> HIDE DEF q
<1> QED BY <1>2, <1>3, <1>4, <1>5 DEF Near, SchedState, q

LEMMA DevicesPart ==
    ASSUME NEW r, Near(r), NEW steps \in Nat, NEW in
    PROVE  LET q == Devices(r, steps, in)
           IN  /\ Near(q)
               /\ q.instructions = r.instructions /\ q.old_sched_instr = r.old_sched_instr
               /\ q.t1_tick = r.t1_tick /\ q.t2_tick = r.t2_tick
<1> DEFINE Same(q) == /\ q.instructions = r.instructions
                      /\ q.old_sched_instr = r.old_sched_instr
                      /\ q.t1_tick = r.t1_tick /\ q.t2_tick = r.t2_tick
           left == IF r.display_touched = 0 \/ ~Due(r, "display", steps)
                   THEN r.display_touched
                   ELSE r.display_touched - steps
           p == [r EXCEPT !.display_touched = IF left < 0 THEN 1 ELSE left,
                          !.device_check = FALSE]
           d == check_devices(p, in)
           q == Devices(r, steps, in)
<1>1. r \in SchedState /\ r.t2_tick <= Longest /\ r.t2_tick \in Int /\ r.t1_tick \in Int
  BY TicksAreNumbers DEF Near
<1>2. left \in Int
  BY <1>1 DEF SchedState
<1>3. (IF left < 0 THEN 1 ELSE left) \in Int
  BY <1>2
<1> HIDE DEF left
<1>4. Near(p) /\ Same(p)
  <2>1. p \in SchedState /\ p.sched = r.sched /\ p.schedule_event = r.schedule_event /\ Same(p)
    BY <1>1, <1>3 DEF SchedState
  <2> QED BY <2>1 DEF Near
<1> HIDE DEF p
<1>5. Near(d) /\ Same(d)
  <2> DEFINE u == [p EXCEPT !.display_touched = Left(p.display_touched),
                            !.stale = @ /\ p.display_touched # 1,
                            !.device_check = CheckAgain(Left(p.display_touched)),
                            !.sched.timer1 = IF "t1" \in in.touched THEN p.t1_tick ELSE @,
                            !.sched.timer2 = IF "t2" \in in.touched THEN p.t2_tick ELSE @]
             v1 == IF "t1" \in in.touched THEN p.t1_tick ELSE p.sched["timer1"]
             v2 == IF "t2" \in in.touched THEN p.t2_tick ELSE p.sched["timer2"]
             sc == [[p.sched EXCEPT !["timer1"] = v1] EXCEPT !["timer2"] = v2]
  <2>1. d = Interrupted(u, in.irq = "device")
    BY DEF check_devices
  <2>2. p \in SchedState /\ p.sched \in [Countdown -> Int] /\ p.sched["timer2"] <= Longest
        /\ p.display_touched \in Int /\ p.schedule_event <= Longest
    BY <1>4 DEF Near, SchedState
  <2>3. v1 \in Int /\ v2 \in Int /\ v2 <= Longest
    BY <1>1, <1>4, <2>2 DEF Countdown
  <2>4. u.sched = sc /\ u.schedule_event = p.schedule_event /\ Same(u)
    BY <1>4, <2>2 DEF SchedState, Countdown
  <2> HIDE DEF v1, v2
  <2>5. sc \in [Countdown -> Int] /\ sc["timer2"] = v2
    BY <2>2, <2>3 DEF Countdown
  <2> HIDE DEF sc
  <2>6. Left(p.display_touched) \in Int /\ CheckAgain(Left(p.display_touched)) \in BOOLEAN
    BY <2>2 DEF Left, CheckAgain
  <2>7. u \in SchedState
    BY <2>2, <2>4, <2>5, <2>6 DEF SchedState
  <2> HIDE DEF u
  <2>8. d \in SchedState /\ d.sched = u.sched /\ d.schedule_event = u.schedule_event
        /\ d.instructions = u.instructions /\ d.old_sched_instr = u.old_sched_instr
        /\ d.t1_tick = u.t1_tick /\ d.t2_tick = u.t2_tick
    <3>1. (in.irq = "device") \in BOOLEAN
      OBVIOUS
    <3> QED BY <2>1, <2>7, <3>1, InterruptKeeps, ZenonT(40)
  <2> QED BY <2>2, <2>3, <2>4, <2>5, <2>8 DEF Near
<1> HIDE DEF d
<1>6. CASE ~r.device_check
  BY <1>6 DEF Devices
<1>7. CASE r.device_check /\ d.display_touched = 0
  <2>1. q = [d EXCEPT !.sched.display = SCHED_NEVER]
    BY <1>7 DEF Devices, d, p, left
  <2> QED BY <1>5, <2>1, ScheduleAssumption DEF Near, SchedState, Countdown
<1>8. CASE r.device_check /\ d.display_touched # 0
  <2> DEFINE e == [d EXCEPT !.sched.display = sched_display(d.display_touched)]
  <2>1. q = Noted(e, "display")
    BY <1>8 DEF Devices, d, p, left
  <2>2. Near(e) /\ Same(e)
    BY <1>5 DEF Near, SchedState, Countdown, sched_display
  <2> HIDE DEF e
  <2>3. e.sched["display"] \in Int /\ e.schedule_event \in Int
    BY <2>2 DEF Near, SchedState, Countdown
  <2>4. Least(e.schedule_event, e.sched["display"]) \in Int
        /\ Least(e.schedule_event, e.sched["display"]) <= e.schedule_event
    BY <2>3 DEF Least
  <2> QED BY <2>1, <2>2, <2>3, <2>4, LongestIsPositive DEF Near, SchedState, Noted
<1> QED BY <1>1, <1>6, <1>7, <1>8 DEF SchedState

LEMMA ReceivePart ==
    ASSUME NEW r, Near(r), NEW steps \in Nat, NEW in,
           NEW C \in SUBSET OnTimers, Seen(r, C), "receive" \notin C
    PROVE  LET q == Receive(r, steps, in)
           IN  /\ Near(q) /\ Seen(q, C) /\ Seen(q, {"receive"})
               /\ q.instructions = r.instructions /\ q.old_sched_instr = r.old_sched_instr
               /\ q.t1_tick = r.t1_tick /\ q.t2_tick = r.t2_tick
<1> DEFINE period == SCHED_RECEIVE
           counted == Counted(r, "receive", steps, period)
           request == Due(r, "receive", steps) /\ in.irq = "receive"
           m == Interrupted(counted, request)
<1>1. period \in Int /\ 1 <= period
  BY TicksAreNumbers, ScheduleAssumption DEF Near
<1>2. Receive(r, steps, in) = Noted(m, "receive")
  BY DEF Receive
<1>3. "receive" \in OnTimers /\ "receive" \in Countdown /\ r \in SchedState /\ request \in BOOLEAN
  BY DEF OnTimers, Countdown, Near
<1> HIDE DEF period, request
<1>4. /\ counted \in SchedState /\ counted.schedule_event = r.schedule_event
      /\ counted.instructions = r.instructions /\ counted.old_sched_instr = r.old_sched_instr
      /\ counted.t1_tick = r.t1_tick /\ counted.t2_tick = r.t2_tick
  BY <1>1, <1>3, CountedOn
<1>5. /\ m \in SchedState /\ m.sched = counted.sched
      /\ m.schedule_event = r.schedule_event
      /\ m.instructions = r.instructions /\ m.old_sched_instr = r.old_sched_instr
      /\ m.t1_tick = r.t1_tick /\ m.t2_tick = r.t2_tick
  BY <1>3, <1>4, InterruptKeeps
<1> HIDE DEF m
<1>6. Advanced(m, r, "receive", steps, period)
  BY <1>5 DEF Advanced
<1> HIDE DEF counted
<1>7. Joined(Noted(m, "receive"), m, C, "receive")
  BY <1>1, <1>3, <1>6, PartSees
<1> QED BY <1>2, <1>5, <1>7 DEF Joined

LEMMA Timer1Part ==
    ASSUME NEW r, Near(r), NEW steps \in Nat, NEW in,
           NEW C \in SUBSET OnTimers, Seen(r, C), "timer1" \notin C
    PROVE  LET q == Timer1(r, steps, in)
           IN  /\ Near(q) /\ Seen(q, C) /\ Seen(q, {"timer1"})
               /\ q.instructions = r.instructions /\ q.old_sched_instr = r.old_sched_instr
               /\ q.t1_tick = r.t1_tick /\ q.t2_tick = r.t2_tick
<1> DEFINE period == IF r.intenable THEN r.t1_tick ELSE SCHED_TIMER1
           counted == Counted(r, "timer1", steps, period)
           request == Due(r, "timer1", steps) /\ in.irq = "timer1"
           m == Interrupted(counted, request)
<1>1. period \in Int
  BY TicksAreNumbers, ScheduleAssumption DEF Near
<1>2. Timer1(r, steps, in) = Noted(m, "timer1")
  BY DEF Timer1
<1>3. "timer1" \in OnTimers /\ "timer1" \in Countdown /\ r \in SchedState /\ request \in BOOLEAN
  BY DEF OnTimers, Countdown, Near
<1> HIDE DEF period, request
<1>4. /\ counted \in SchedState /\ counted.schedule_event = r.schedule_event
      /\ counted.instructions = r.instructions /\ counted.old_sched_instr = r.old_sched_instr
      /\ counted.t1_tick = r.t1_tick /\ counted.t2_tick = r.t2_tick
  BY <1>1, <1>3, CountedOn
<1>5. /\ m \in SchedState /\ m.sched = counted.sched
      /\ m.schedule_event = r.schedule_event
      /\ m.instructions = r.instructions /\ m.old_sched_instr = r.old_sched_instr
      /\ m.t1_tick = r.t1_tick /\ m.t2_tick = r.t2_tick
  BY <1>3, <1>4, InterruptKeeps
<1> HIDE DEF m
<1>6. Advanced(m, r, "timer1", steps, period)
  BY <1>5 DEF Advanced
<1> HIDE DEF counted
<1>7. Joined(Noted(m, "timer1"), m, C, "timer1")
  BY <1>1, <1>3, <1>6, PartSees
<1> QED BY <1>2, <1>5, <1>7 DEF Joined

LEMMA AdjtimePart ==
    ASSUME NEW r, Near(r), NEW steps \in Nat, NEW in, in.slow => r.t2_tick < MaxT2Tick,
           NEW C \in SUBSET OnTimers, Seen(r, C), "adjtime" \notin C
    PROVE  LET q == Adjtime(r, steps, in)
           IN  /\ Near(q) /\ Seen(q, C) /\ Seen(q, {"adjtime"})
               /\ q.instructions = r.instructions /\ q.old_sched_instr = r.old_sched_instr
<1> DEFINE c == Counted(r, "adjtime", steps, SCHED_ADJTIME)
           i == Interrupted(c, in.irq = "adjtime")
           m == IF ~Due(r, "adjtime", steps) THEN c
                ELSE IF r.inSrvcIo THEN [c EXCEPT !.adj_time_pending = TRUE]
                ELSE [i EXCEPT !.adj_time_pending = FALSE,
                               !.t2_tick = IF in.slow THEN @ + 1 ELSE @]
<1>1. SCHED_ADJTIME \in Int /\ 1 <= SCHED_ADJTIME
  BY ScheduleAssumption
<1>2. Adjtime(r, steps, in) = Noted(m, "adjtime")
  BY DEF Adjtime
<1>3. "adjtime" \in OnTimers /\ "adjtime" \in Countdown /\ r \in SchedState
      /\ (in.irq = "adjtime") \in BOOLEAN
  BY DEF OnTimers, Countdown, Near
<1>4. /\ c \in SchedState /\ c.schedule_event = r.schedule_event
      /\ c.instructions = r.instructions /\ c.old_sched_instr = r.old_sched_instr
      /\ c.t1_tick = r.t1_tick /\ c.t2_tick = r.t2_tick
  BY <1>1, <1>3, CountedOn
<1>5. /\ i \in SchedState /\ i.sched = c.sched /\ i.schedule_event = r.schedule_event
      /\ i.instructions = r.instructions /\ i.old_sched_instr = r.old_sched_instr
      /\ i.t1_tick = r.t1_tick /\ i.t2_tick = r.t2_tick
  BY <1>3, <1>4, InterruptKeeps
<1> DEFINE tick == IF in.slow THEN i.t2_tick + 1 ELSE i.t2_tick
<1>6. tick \in Ticks2
  <2>1. i.t2_tick \in Ticks2
    BY <1>5 DEF SchedState
  <2> QED BY <1>5, <2>1, SchedulerAssumption DEF Ticks2
<1>7. /\ m \in SchedState /\ m.sched = c.sched /\ m.schedule_event = r.schedule_event
      /\ m.instructions = r.instructions /\ m.old_sched_instr = r.old_sched_instr
  <2> HIDE DEF c, i, tick
  <2>1. CASE ~Due(r, "adjtime", steps)
    BY <1>4, <2>1
  <2>2. CASE Due(r, "adjtime", steps) /\ r.inSrvcIo
    BY <1>4, <2>2 DEF SchedState
  <2>3. CASE Due(r, "adjtime", steps) /\ ~r.inSrvcIo
    <3>1. m = [i EXCEPT !.adj_time_pending = FALSE, !.t2_tick = tick]
      BY <1>5, <2>3 DEF tick, SchedState
    <3> QED BY <1>5, <1>6, <3>1 DEF SchedState
  <2> QED BY <2>1, <2>2, <2>3
<1> HIDE DEF m, i, tick
<1>8. Advanced(m, r, "adjtime", steps, SCHED_ADJTIME)
  BY <1>7 DEF Advanced
<1> HIDE DEF c
<1>9. Joined(Noted(m, "adjtime"), m, C, "adjtime")
  BY <1>1, <1>3, <1>8, PartSees
<1> QED BY <1>2, <1>7, <1>9 DEF Joined

LEMMA StatisticsPart ==
    ASSUME NEW r, Near(r), NEW steps \in Nat, NEW in, in.measured \in Measured,
           NEW C \in SUBSET OnTimers, Seen(r, C), "statistics" \notin C
    PROVE  LET q == Statistics(r, steps, in)
           IN  /\ Near(q) /\ Seen(q, C) /\ Seen(q, {"statistics"})
               /\ q.instructions = r.instructions /\ q.old_sched_instr = r.old_sched_instr
<1> DEFINE period == SCHED_STATISTICS
           c == Counted(r, "statistics", steps, period)
           m == IF Due(r, "statistics", steps)
                THEN [c EXCEPT !.t1_tick = Short(in.measured),
                               !.t2_tick = Short(in.measured \div T2_PER_T1)]
                ELSE c
<1>1. period \in Int /\ 1 <= period
  BY ScheduleAssumption
<1>2. Statistics(r, steps, in) = Noted(m, "statistics")
  BY DEF Statistics
<1>3. "statistics" \in OnTimers /\ "statistics" \in Countdown /\ r \in SchedState
  BY DEF OnTimers, Countdown, Near
<1> HIDE DEF period
<1>4. /\ c \in SchedState /\ c.schedule_event = r.schedule_event
      /\ c.instructions = r.instructions /\ c.old_sched_instr = r.old_sched_instr
  BY <1>1, <1>3, CountedOn
<1> HIDE DEF c
<1>5. Short(in.measured) \in Int /\ Short(in.measured \div T2_PER_T1) \in Ticks2
  BY ShortsAreTicks
<1>6. /\ m \in SchedState /\ m.sched = c.sched /\ m.schedule_event = r.schedule_event
      /\ m.instructions = r.instructions /\ m.old_sched_instr = r.old_sched_instr
  BY <1>4, <1>5 DEF SchedState
<1> HIDE DEF m
<1>7. Advanced(m, r, "statistics", steps, period)
  BY <1>6 DEF c, Advanced
<1>8. Joined(Noted(m, "statistics"), m, C, "statistics")
  BY <1>1, <1>3, <1>7, PartSees
<1> QED BY <1>2, <1>6, <1>8 DEF Joined

LEMMA BackToOne ==
    ASSUME NEW r \in SchedState
    PROVE  LET q == [r EXCEPT !.instructions = 1, !.old_sched_instr = 1]
           IN  /\ q \in SchedState /\ q.instructions = q.old_sched_instr
               /\ q.sched = r.sched /\ q.schedule_event = r.schedule_event
<1> DEFINE o == [r EXCEPT !.instructions = 1]
           q == [o EXCEPT !.old_sched_instr = 1]
<1>1. o \in SchedState /\ o.instructions = 1
      /\ o.sched = r.sched /\ o.schedule_event = r.schedule_event
  BY DEF SchedState
<1>2. q = [r EXCEPT !.instructions = 1, !.old_sched_instr = 1]
  OBVIOUS
<1> HIDE DEF o
<1>3. q \in SchedState /\ q.old_sched_instr = 1 /\ q.instructions = o.instructions
      /\ q.sched = o.sched /\ q.schedule_event = o.schedule_event
  BY <1>1 DEF SchedState
<1> QED BY <1>1, <1>2, <1>3

LEMMA RolloverPart ==
    ASSUME NEW r, Near(r), NEW steps \in Nat, r.instructions = r.old_sched_instr,
           NEW C \in SUBSET OnTimers, Seen(r, C), "instr_rollover" \notin C
    PROVE  LET q == Rollover(r, steps)
           IN  /\ Near(q) /\ Seen(q, C) /\ Seen(q, {"instr_rollover"})
               /\ q.instructions = q.old_sched_instr
<1> DEFINE c == Counted(r, "instr_rollover", steps, SCHED_INSTR_ROLLOVER)
           m == IF Due(r, "instr_rollover", steps)
                THEN [c EXCEPT !.instructions = 1, !.old_sched_instr = 1]
                ELSE c
<1>1. SCHED_INSTR_ROLLOVER \in Int /\ 1 <= SCHED_INSTR_ROLLOVER
  BY ScheduleAssumption
<1>2. Rollover(r, steps) = Noted(m, "instr_rollover")
  BY DEF Rollover
<1>3. "instr_rollover" \in OnTimers /\ "instr_rollover" \in Countdown /\ r \in SchedState
  BY DEF OnTimers, Countdown, Near
<1>4. /\ c \in SchedState /\ c.schedule_event = r.schedule_event
      /\ c.instructions = c.old_sched_instr
  BY <1>1, <1>3, CountedOn
<1> HIDE DEF c
<1>5. /\ m \in SchedState /\ m.sched = c.sched /\ m.schedule_event = r.schedule_event
      /\ m.instructions = m.old_sched_instr
  <2>1. CASE Due(r, "instr_rollover", steps)
    <3>1. m = [c EXCEPT !.instructions = 1, !.old_sched_instr = 1]
      BY <2>1
    <3> QED BY <1>4, <3>1, BackToOne
  <2>2. CASE ~Due(r, "instr_rollover", steps)
    BY <1>4, <2>2
  <2> QED BY <2>1, <2>2
<1> HIDE DEF m
<1>6. Advanced(m, r, "instr_rollover", steps, SCHED_INSTR_ROLLOVER)
  BY <1>5 DEF c, Advanced
<1>7. Joined(Noted(m, "instr_rollover"), m, C, "instr_rollover")
  BY <1>1, <1>3, <1>6, PartSees
<1> QED BY <1>2, <1>5, <1>7 DEF Joined

----------------------------------------------------------------------------
(* schedule as a whole, and the loop around it.                            *)

LEMMA ScheduleSpaces ==
    ASSUME NEW r \in SchedState, r.sched["timer2"] <= Longest, 0 <= Rest(r),
           NEW in, in.measured \in Measured, in.slow => r.t2_tick < MaxT2Tick
    PROVE  LET q == schedule(r, in)
           IN  /\ q \in SchedState /\ q.sched["timer2"] <= Longest
               /\ SpacedFrom(q) /\ Rest(q) = 0
<1> DEFINE steps == r.instructions - r.old_sched_instr
           s0 == [r EXCEPT !.old_sched_instr = r.instructions]
           s1 == Timer2(s0, steps, in)
           s2 == Devices(s1, steps, in)
           s3 == Receive(s2, steps, in)
           s4 == Adjtime(s3, steps, in)
           s5 == Timer1(s4, steps, in)
           s6 == Statistics(s5, steps, in)
           s7 == Rollover(s6, steps)
           q == [s7 EXCEPT !.schedule_event = @ - 1]
<1>1. steps \in Nat
  BY DEF SchedState, Rest
<1>2. schedule(r, in) = q
  BY DEF schedule
<1> HIDE DEF steps
<1>3. /\ s0 \in SchedState /\ s0.sched["timer2"] <= Longest
      /\ s0.instructions = s0.old_sched_instr /\ s0.t2_tick = r.t2_tick
  BY DEF SchedState
<1> HIDE DEF s0
<1>4. Near(s1) /\ s1.instructions = s1.old_sched_instr /\ s1.t2_tick = r.t2_tick
  BY <1>1, <1>3, Timer2Part
<1> HIDE DEF s1
<1>5. Near(s2) /\ s2.instructions = s2.old_sched_instr /\ s2.t2_tick = r.t2_tick
  BY <1>1, <1>4, DevicesPart
<1> HIDE DEF s2
<1>6. /\ Near(s3) /\ s3.instructions = s3.old_sched_instr /\ s3.t2_tick = r.t2_tick
      /\ Seen(s3, {"receive"})
  <2>1. Seen(s2, {}) /\ {} \in SUBSET OnTimers /\ "receive" \notin {}
    BY <1>5 DEF Seen, OnTimers
  <2>2. /\ Near(s3) /\ s3.instructions = s3.old_sched_instr /\ s3.t2_tick = r.t2_tick
        /\ Seen(s3, {}) /\ Seen(s3, {"receive"})
    BY <1>1, <1>5, <2>1, ReceivePart
  <2> QED BY <2>2 DEF Seen
<1> HIDE DEF s3
<1>7. /\ Near(s4) /\ s4.instructions = s4.old_sched_instr
      /\ Seen(s4, {"receive", "adjtime"})
  <2>1. /\ Seen(s3, {"receive"})
        /\ {"receive"} \in SUBSET OnTimers
        /\ "adjtime" \notin {"receive"}
    BY <1>6 DEF Seen, OnTimers
  <2>2. /\ Near(s4) /\ s4.instructions = s4.old_sched_instr
        /\ Seen(s4, {"receive"}) /\ Seen(s4, {"adjtime"})
    BY <1>1, <1>6, <2>1, AdjtimePart
  <2> QED BY <2>2 DEF Seen
<1> HIDE DEF s4
<1>8. /\ Near(s5) /\ s5.instructions = s5.old_sched_instr
      /\ Seen(s5, {"receive", "adjtime", "timer1"})
  <2>1. /\ Seen(s4, {"receive", "adjtime"})
        /\ {"receive", "adjtime"} \in SUBSET OnTimers
        /\ "timer1" \notin {"receive", "adjtime"}
    BY <1>7 DEF Seen, OnTimers
  <2>2. /\ Near(s5) /\ s5.instructions = s5.old_sched_instr
        /\ Seen(s5, {"receive", "adjtime"}) /\ Seen(s5, {"timer1"})
    BY <1>1, <1>7, <2>1, Timer1Part
  <2> QED BY <2>2 DEF Seen
<1> HIDE DEF s5
<1>9. /\ Near(s6) /\ s6.instructions = s6.old_sched_instr
      /\ Seen(s6, {"receive", "adjtime", "timer1", "statistics"})
  <2>1. /\ Seen(s5, {"receive", "adjtime", "timer1"})
        /\ {"receive", "adjtime", "timer1"} \in SUBSET OnTimers
        /\ "statistics" \notin {"receive", "adjtime", "timer1"}
    BY <1>8 DEF Seen, OnTimers
  <2>2. /\ Near(s6) /\ s6.instructions = s6.old_sched_instr
        /\ Seen(s6, {"receive", "adjtime", "timer1"}) /\ Seen(s6, {"statistics"})
    BY <1>1, <1>8, <2>1, StatisticsPart
  <2> QED BY <2>2 DEF Seen
<1> HIDE DEF s6
<1>10. /\ Near(s7) /\ s7.instructions = s7.old_sched_instr
       /\ Seen(s7, OnTimers)
  <2>1. /\ Seen(s6, {"receive", "adjtime", "timer1", "statistics"})
        /\ {"receive", "adjtime", "timer1", "statistics"} \in SUBSET OnTimers
        /\ "instr_rollover" \notin {"receive", "adjtime", "timer1", "statistics"}
    BY <1>9 DEF Seen, OnTimers
  <2>2. /\ Near(s7) /\ s7.instructions = s7.old_sched_instr
        /\ Seen(s7, {"receive", "adjtime", "timer1", "statistics"}) /\ Seen(s7, {"instr_rollover"})
    BY <1>1, <1>9, <2>1, RolloverPart
  <2> QED BY <2>2 DEF Seen, OnTimers
<1> HIDE DEF s7
<1>11. /\ q \in SchedState /\ q.sched = s7.sched /\ q.schedule_event = s7.schedule_event - 1
       /\ q.instructions = s7.instructions /\ q.old_sched_instr = s7.old_sched_instr
  BY <1>10 DEF Near, SchedState
<1> HIDE DEF q
<1>12. Rest(q) = 0 /\ s7.schedule_event \in Int
  BY <1>10, <1>11 DEF Rest, Near, SchedState
<1>13. q.sched["timer2"] <= Longest
  BY <1>10, <1>11 DEF Near
<1>14. \A c \in OnTimers : s7.sched[c] \in Int
  BY <1>10 DEF Near, SchedState, OnTimers, Countdown
<1>15. SpacedFrom(q)
  BY <1>10, <1>11, <1>12, <1>14, LongestIsPositive DEF SpacedFrom, Seen, Near
<1> QED BY <1>2, <1>11, <1>12, <1>13, <1>15

\* What an instruction leaves, be it that schedule_event is kept or that schedule comes.
Ready(t) ==
    /\ t \in SchedState /\ t.sched["timer2"] <= Longest /\ 0 <= Rest(t)
    /\ t.schedule_event > 0 => SpacedFrom(t)

LEMMA BehindSpaces ==
    ASSUME NEW t, Ready(t), NEW touched, Behind(t, touched)
    PROVE  IInv'
<1> DEFINE u == [t EXCEPT !.instructions = @ + 1, !.schedule_event = @ - 1]
<1>1. /\ u \in SchedState /\ u.sched = t.sched /\ u.t2_tick = t.t2_tick
      /\ u.instructions = t.instructions + 1 /\ u.old_sched_instr = t.old_sched_instr
      /\ u.schedule_event = t.schedule_event - 1
  <2> DEFINE o == [t EXCEPT !.instructions = @ + 1]
  <2>1. t \in SchedState
    BY DEF Ready
  <2>2. /\ o \in SchedState /\ o.sched = t.sched /\ o.t2_tick = t.t2_tick
        /\ o.instructions = t.instructions + 1 /\ o.old_sched_instr = t.old_sched_instr
        /\ o.schedule_event = t.schedule_event
    BY <2>1 DEF SchedState
  <2>3. u = [o EXCEPT !.schedule_event = @ - 1]
    BY <2>1 DEF SchedState
  <2> HIDE DEF o, u
  <2> QED BY <2>2, <2>3 DEF SchedState
<1>2. /\ t.instructions \in Int /\ t.old_sched_instr \in Int /\ t.schedule_event \in Int
      /\ t.sched \in [Countdown -> Int]
  BY DEF Ready, SchedState
<1>3. Rest(u) = Rest(t) + 1 /\ Rest(t) \in Int /\ 0 <= Rest(t) /\ u.sched["timer2"] <= Longest
  BY <1>1, <1>2 DEF Rest, Ready
<1>4. CASE t.schedule_event > 0
  <2>1. s' = u
    BY <1>4 DEF Behind
  <2> HIDE DEF u
  <2>2. SpacedFrom(t)
    BY <1>4 DEF Ready
  <2>3. SpacedFrom(u)
    <3>1. \A c \in OnTimers : t.sched[c] \in Int
      BY <1>2 DEF OnTimers, Countdown
    <3> QED BY <1>1, <1>2, <1>3, <1>4, <2>2, <3>1, LongestIsPositive DEF SpacedFrom
  <2> QED BY <1>1, <1>3, <2>1, <2>3 DEF IInv
<1>5. CASE ~(t.schedule_event > 0)
  <2>1. PICK in \in [touched : {touched}, irq : Requesting(u, touched),
                     slow : Slowing(u), measured : Measuring(u)] :
            s' = Interrupted(schedule(u, in), in.irq = "key")
    BY <1>5 DEF Behind
  <2>2. in.measured \in Measured /\ (in.slow => u.t2_tick < MaxT2Tick)
    BY DEF Slowing, Measuring
  <2> HIDE DEF u
  <2> DEFINE q == schedule(u, in)
  <2>3. q \in SchedState /\ q.sched["timer2"] <= Longest /\ SpacedFrom(q)
    BY <1>1, <1>3, <2>2, ScheduleSpaces
  <2> HIDE DEF q
  <2>4. (in.irq = "key") \in BOOLEAN
    OBVIOUS
  <2>5. /\ s' \in SchedState /\ s'.sched = q.sched /\ s'.schedule_event = q.schedule_event
        /\ s'.instructions = q.instructions /\ s'.old_sched_instr = q.old_sched_instr
    BY <2>1, <2>3, <2>4, InterruptKeeps DEF q
  <2> QED BY <2>3, <2>5 DEF IInv, SpacedFrom, Rest
<1> QED BY <1>4, <1>5

----------------------------------------------------------------------------
(* The invariant.                                                          *)

LEMMA InitTicks ==
    ASSUME Init
    PROVE  \E t1 \in Int, t2 \in Ticks2 : s = InitSched(t1, t2)
<1>1. PICK m \in Measured : \E t2 \in Slowed(Short(m \div T2_PER_T1)) : s = InitSched(Short(m), t2)
  BY DEF Init
<1>2. PICK t2 \in Slowed(Short(m \div T2_PER_T1)) : s = InitSched(Short(m), t2)
  BY <1>1
<1>3. Short(m) \in Int /\ t2 \in Ticks2
  BY ShortsAreTicks, SlowedAreTicks
<1> QED BY <1>2, <1>3

LEMMA InitIInv == Init => IInv
<1> SUFFICES ASSUME Init PROVE IInv
  OBVIOUS
<1>1. PICK t1 \in Int, t2 \in Ticks2 : s = InitSched(t1, t2)
  BY InitTicks
<1>2. t1 \in Int /\ t2 \in Int /\ t2 <= MaxT2Tick
  BY DEF Ticks2
<1> DEFINE sched == [ timer1         |-> t1,
                      timer2         |-> t2,
                      display        |-> SCHED_NEVER,
                      receive        |-> SCHED_RECEIVE,
                      adjtime        |-> SCHED_ADJTIME,
                      statistics     |-> SCHED_STATISTICS,
                      instr_rollover |-> SCHED_INSTR_ROLLOVER ]
<1>3. /\ sched \in [Countdown -> Int] /\ sched["timer2"] = t2
      /\ \A c \in OnTimers : c # "timer1" => 1 <= sched[c]
  BY <1>2, ScheduleAssumption DEF Countdown, OnTimers
<1>4. s.sched = sched /\ s.schedule_event = 0 /\ s.instructions = 0 /\ s.old_sched_instr = 0
  BY <1>1 DEF InitSched
<1> HIDE DEF sched
<1>5. s \in SchedState
  <2>1. s = [ sched |-> sched, schedule_event |-> 0, instructions |-> 0,
              old_sched_instr |-> 0, device_check |-> FALSE, display_touched |-> 1,
              stale |-> FALSE, adj_time_pending |-> FALSE, t1_tick |-> t1, t2_tick |-> t2,
              intenable |-> TRUE, inSrvcIo |-> FALSE ]
    BY <1>1 DEF InitSched, sched
  <2> QED BY <1>2, <1>3, <2>1 DEF SchedState
<1>6. s.sched["timer2"] <= Longest
  BY <1>2, <1>3, <1>4, LongestIsPositive, SchedulerAssumption
<1>7. SpacedFrom(s)
  <2>1. Rest(s) = 0
    BY <1>4 DEF Rest
  <2>2. \A c \in OnTimers : sched[c] \in Int
    BY <1>3 DEF OnTimers, Countdown
  <2> QED BY <1>3, <1>4, <2>1, <2>2, LongestIsPositive DEF SpacedFrom
<1> QED BY <1>5, <1>6, <1>7 DEF IInv

\* What leaves the countdowns and schedule_event alone is ready for what is behind it.
LEMMA SameIsReady ==
    ASSUME IInv, NEW t \in SchedState, t.sched = s.sched,
           t.schedule_event = s.schedule_event,
           t.instructions = s.instructions, t.old_sched_instr = s.old_sched_instr
    PROVE  Ready(t)
BY DEF IInv, SpacedFrom, Rest, Ready

\* What sets schedule_event to 0 may leave the countdowns, but that of timer 2, as it likes.
LEMMA NowIsReady ==
    ASSUME IInv, NEW t \in SchedState, t.sched["timer2"] = s.sched["timer2"],
           t.schedule_event = 0,
           t.instructions = s.instructions, t.old_sched_instr = s.old_sched_instr
    PROVE  Ready(t)
BY DEF IInv, SpacedFrom, Rest, Ready

LEMMA NextIInv == IInv /\ [Next]_vars => IInv'
<1> SUFFICES ASSUME IInv, [Next]_vars PROVE IInv'
  OBVIOUS
<1>1. s \in SchedState
  BY DEF IInv
<1>2. CASE s' = s
  BY <1>2 DEF IInv, SpacedFrom, Rest
<1>3. CASE Compute
  <2>1. PICK b \in BOOLEAN : Behind([s EXCEPT !.inSrvcIo = b], {})
    BY <1>3 DEF Compute
  <2> DEFINE t == [s EXCEPT !.inSrvcIo = b]
  <2>2. /\ t \in SchedState /\ t.sched = s.sched /\ t.schedule_event = s.schedule_event
        /\ t.instructions = s.instructions /\ t.old_sched_instr = s.old_sched_instr
    BY <1>1 DEF SchedState
  <2> QED BY <2>1, <2>2, SameIsReady, BehindSpaces
<1>4. CASE RequestInterrupt
  <2> DEFINE t == Interrupted(s, TRUE)
  <2>1. /\ t \in SchedState /\ t.sched = s.sched /\ t.schedule_event = s.schedule_event
        /\ t.instructions = s.instructions /\ t.old_sched_instr = s.old_sched_instr
    BY <1>1, InterruptKeeps
  <2>2. Behind(t, {})
    BY <1>4 DEF RequestInterrupt
  <2> HIDE DEF t
  <2> QED BY <2>1, <2>2, SameIsReady, BehindSpaces
<1>5. CASE Rti
  <2>1. PICK b \in BOOLEAN : Behind(do_return_interupt([s EXCEPT !.inSrvcIo = b]), {})
    BY <1>5 DEF Rti
  <2> DEFINE r == [s EXCEPT !.inSrvcIo = b]
             t == do_return_interupt(r)
  <2>2. /\ r \in SchedState /\ r.sched = s.sched /\ r.schedule_event = s.schedule_event
        /\ r.instructions = s.instructions /\ r.old_sched_instr = s.old_sched_instr
    BY <1>1 DEF SchedState
  <2>3. Behind(t, {})
    BY <2>1
  <2> HIDE DEF r
  <2>4. CASE r.adj_time_pending
    <3> DEFINE sc == [r.sched EXCEPT !["adjtime"] = 0]
               o == [r EXCEPT !.intenable = TRUE]
               e == [o EXCEPT !.schedule_event = 0]
    <3>1. r.sched \in [Countdown -> Int]
      BY <2>2 DEF SchedState
    <3>2. sc \in [Countdown -> Int] /\ sc["timer2"] = r.sched["timer2"]
      BY <3>1 DEF Countdown
    <3>3. t = [e EXCEPT !.sched = sc]
      BY <2>2, <2>4 DEF do_return_interupt, SchedState
    <3>4. o \in SchedState /\ o.instructions = r.instructions
          /\ o.old_sched_instr = r.old_sched_instr
      BY <2>2 DEF SchedState
    <3> HIDE DEF o
    <3>5. e \in SchedState /\ e.schedule_event = 0
          /\ e.instructions = r.instructions /\ e.old_sched_instr = r.old_sched_instr
      BY <3>4 DEF SchedState
    <3> HIDE DEF e, sc, t
    <3>6. /\ t \in SchedState /\ t.sched = sc /\ t.schedule_event = 0
          /\ t.instructions = r.instructions /\ t.old_sched_instr = r.old_sched_instr
      BY <3>2, <3>5, <3>3 DEF SchedState
    <3> QED BY <2>2, <2>3, <3>2, <3>6, NowIsReady, BehindSpaces
  <2>5. CASE ~r.adj_time_pending
    <3>1. /\ t \in SchedState /\ t.sched = s.sched /\ t.schedule_event = s.schedule_event
          /\ t.instructions = s.instructions /\ t.old_sched_instr = s.old_sched_instr
      BY <2>2, <2>5 DEF do_return_interupt, SchedState
    <3> HIDE DEF t
    <3> QED BY <2>3, <3>1, SameIsReady, BehindSpaces
  <2> QED BY <2>4, <2>5
<1>6. ASSUME NEW display \in BOOLEAN, NEW touched,
             Behind(write_dev_mem(s, display), touched)
      PROVE  IInv'
  <2> DEFINE t == write_dev_mem(s, display)
             left == IF display THEN DISP_INSTR_OFF ELSE s.display_touched
             o == [s EXCEPT !.device_check = TRUE]
             e == [o EXCEPT !.schedule_event = 0]
  <2>1. left \in Int
    BY <1>1, ScheduleAssumption DEF SchedState
  <2>2. t = [e EXCEPT !.display_touched = left, !.stale = @ \/ display]
    BY <1>1 DEF write_dev_mem, SchedState
  <2>3. Behind(t, touched)
    BY <1>6
  <2>4. o \in SchedState /\ o.sched = s.sched
        /\ o.instructions = s.instructions /\ o.old_sched_instr = s.old_sched_instr
    BY <1>1 DEF SchedState
  <2> HIDE DEF o
  <2>5. e \in SchedState /\ e.sched = s.sched /\ e.schedule_event = 0
        /\ e.instructions = s.instructions /\ e.old_sched_instr = s.old_sched_instr
    BY <2>4 DEF SchedState
  <2> HIDE DEF left, e, t
  <2>6. /\ t \in SchedState /\ t.sched = s.sched /\ t.schedule_event = 0
        /\ t.instructions = s.instructions /\ t.old_sched_instr = s.old_sched_instr
    BY <2>1, <2>2, <2>5 DEF SchedState
  <2> QED BY <2>3, <2>6, NowIsReady, BehindSpaces
<1>7. CASE WriteDisplay
  BY <1>6, <1>7 DEF WriteDisplay
<1>8. CASE WriteDevice
  BY <1>6, <1>8 DEF WriteDevice
<1>9. CASE Shutdn
  <2>1. PICK z \in BOOLEAN, irq \in BOOLEAN, tick \in Slowed(s.t2_tick) :
            Behind(Interrupted(do_shutdown(s, z, tick), irq), {})
    BY <1>9 DEF Shutdn
  <2>0. tick \in Ticks2
    BY <1>1, SlowedAreTicks DEF SchedState
  <2> DEFINE st == s.stale /\ s.display_touched = 0
             ie == s.intenable \/ z
             o == [s EXCEPT !.display_touched = 0]
             e == [o EXCEPT !.stale = st]
             f == [e EXCEPT !.intenable = ie]
             r == do_shutdown(s, z, tick)
             t == Interrupted(r, irq)
  <2>2. r = [f EXCEPT !.t2_tick = tick]
    BY <1>1 DEF do_shutdown, SchedState
  <2>3. /\ o \in SchedState /\ o.sched = s.sched /\ o.schedule_event = s.schedule_event
        /\ o.instructions = s.instructions /\ o.old_sched_instr = s.old_sched_instr
    BY <1>1 DEF SchedState
  <2>4. st \in BOOLEAN
    OBVIOUS
  <2>5. s.intenable \in BOOLEAN
    BY <1>1 DEF SchedState
  <2>6. ie \in BOOLEAN
    BY <2>1, <2>5
  <2> HIDE DEF o, st, ie
  <2>7. /\ e \in SchedState /\ e.sched = s.sched /\ e.schedule_event = s.schedule_event
        /\ e.instructions = s.instructions /\ e.old_sched_instr = s.old_sched_instr
    BY <2>3, <2>4 DEF SchedState
  <2> HIDE DEF e, r
  <2>11. /\ f \in SchedState /\ f.sched = s.sched /\ f.schedule_event = s.schedule_event
         /\ f.instructions = s.instructions /\ f.old_sched_instr = s.old_sched_instr
    BY <2>6, <2>7 DEF SchedState
  <2> HIDE DEF f
  <2>8. /\ r \in SchedState /\ r.sched = s.sched /\ r.schedule_event = s.schedule_event
        /\ r.instructions = s.instructions /\ r.old_sched_instr = s.old_sched_instr
    BY <2>0, <2>2, <2>11 DEF SchedState
  <2>9. /\ t \in SchedState /\ t.sched = s.sched /\ t.schedule_event = s.schedule_event
        /\ t.instructions = s.instructions /\ t.old_sched_instr = s.old_sched_instr
    BY <2>8, InterruptKeeps
  <2>10. Behind(t, {})
    BY <2>1 DEF r
  <2> HIDE DEF t
  <2> QED BY <2>9, <2>10, SameIsReady, BehindSpaces
<1>10. CASE SIGALRM \/ DrawingEnds \/ UNCHANGED vars
  BY <1>2, <1>10 DEF SIGALRM, DrawingEnds, vars
<1> QED BY <1>3, <1>4, <1>5, <1>7, <1>8, <1>9, <1>10 DEF Next, Emulate

\* The serial line, the clock, the statistics and the rollover are never overrun, nor is
\* timer 1 while its tick is positive, and an alarm is looked at within one tick of timer 2:
\* for all periods, whatever the statistics measure and the short makes of it, and whatever
\* the program writes to (emulate.c, schedule and the loop of emulate; hp48.h, t1_tick).
THEOREM AlwaysOnTime == Spec => []OnTime
<1>1. IInv => OnTime
  BY DEF IInv, SpacedFrom, Rest, OnTime, Since, OnTimers, Longest
<1> QED BY <1>1, InitIInv, NextIInv, PTL DEF Spec

----------------------------------------------------------------------------
(* What the parts of schedule leave alone.                                 *)

\* Nothing but countdowns, schedule_event, the interrupts, ticks and instructions.
SameDisplay(q, r) ==
    /\ q.display_touched = r.display_touched /\ q.stale = r.stale
    /\ q.device_check = r.device_check /\ q.sched["display"] = r.sched["display"]

\* A time adjustment waits, or not, as it did, in the same routine unless interrupts are off.
SameTime(q, r) ==
    /\ q.adj_time_pending = r.adj_time_pending
    /\ q.intenable => r.intenable /\ q.inSrvcIo = r.inSrvcIo

Sooner(q, r) == q.schedule_event <= r.schedule_event

LEMMA InterruptedKeeps ==
    ASSUME NEW r \in SchedState, NEW request
    PROVE  LET q == Interrupted(r, request)
           IN  /\ q \in SchedState /\ q.sched = r.sched /\ q.schedule_event = r.schedule_event
               /\ SameDisplay(q, r) /\ SameTime(q, r)
BY DEF Interrupted, SchedState, SameDisplay, SameTime

LEMMA CountedKeeps ==
    ASSUME NEW r \in SchedState, NEW c \in Countdown \ {"display"}, NEW steps \in Int, NEW period \in Int
    PROVE  LET q == Counted(r, c, steps, period)
           IN  /\ q \in SchedState /\ q.schedule_event = r.schedule_event
               /\ SameDisplay(q, r) /\ SameTime(q, r)
               /\ c # "adjtime" => q.sched["adjtime"] = r.sched["adjtime"]
<1> DEFINE left == IF Due(r, c, steps) THEN period ELSE r.sched[c] - steps
           sc == [r.sched EXCEPT ![c] = left]
           q == Counted(r, c, steps, period)
<1>1. r.sched \in [Countdown -> Int] /\ "adjtime" \in Countdown /\ "display" \in Countdown
  BY DEF SchedState, Countdown
<1>2. left \in Int
  BY <1>1 DEF Due
<1>3. q = [r EXCEPT !.sched = sc]
  BY DEF Counted, SchedState
<1> HIDE DEF left, q
<1>4. sc \in [Countdown -> Int] /\ sc["display"] = r.sched["display"]
      /\ (c # "adjtime" => sc["adjtime"] = r.sched["adjtime"])
  BY <1>1, <1>2
<1> HIDE DEF sc
<1> QED BY <1>3, <1>4 DEF q, SchedState, SameDisplay, SameTime

LEMMA NotedKeeps ==
    ASSUME NEW r \in SchedState, NEW c \in Countdown
    PROVE  LET q == Noted(r, c)
           IN  /\ q \in SchedState /\ q.sched = r.sched
               /\ q.schedule_event <= r.schedule_event /\ q.schedule_event <= r.sched[c]
               /\ SameDisplay(q, r) /\ SameTime(q, r)
<1> DEFINE e == Least(r.schedule_event, r.sched[c])
<1>1. r.schedule_event \in Int /\ r.sched[c] \in Int
  BY DEF SchedState
<1>2. e \in Int /\ e <= r.schedule_event /\ e <= r.sched[c]
  BY <1>1 DEF Least
<1>3. Noted(r, c) = [r EXCEPT !.schedule_event = e]
  BY DEF Noted
<1> HIDE DEF e
<1> QED BY <1>2, <1>3 DEF SchedState, SameDisplay, SameTime

LEMMA KeepsOn ==
    ASSUME NEW p, NEW q, NEW r
    PROVE  /\ SameDisplay(p, q) /\ SameDisplay(q, r) => SameDisplay(p, r)
           /\ SameTime(p, q) /\ SameTime(q, r) => SameTime(p, r)
BY DEF SameDisplay, SameTime

\* A part of schedule: a countdown, perhaps an interrupt, and schedule_event.
LEMMA PartKeeps ==
    ASSUME NEW r \in SchedState, NEW c \in Countdown \ {"display"}, NEW steps \in Int, NEW period \in Int,
           NEW request
    PROVE  LET q == Interrupted(Counted(r, c, steps, period), request)
           IN  /\ q \in SchedState /\ q.schedule_event = r.schedule_event
               /\ SameDisplay(q, r) /\ SameTime(q, r)
               /\ c # "adjtime" => q.sched["adjtime"] = r.sched["adjtime"]
<1> DEFINE o == Counted(r, c, steps, period)
           q == Interrupted(o, request)
<1>1. /\ o \in SchedState /\ o.schedule_event = r.schedule_event
      /\ SameDisplay(o, r) /\ SameTime(o, r)
      /\ c # "adjtime" => o.sched["adjtime"] = r.sched["adjtime"]
  BY CountedKeeps
<1> HIDE DEF o
<1>2. /\ q \in SchedState /\ q.sched = o.sched /\ q.schedule_event = o.schedule_event
      /\ SameDisplay(q, o) /\ SameTime(q, o)
  BY <1>1, InterruptedKeeps
<1> HIDE DEF q
<1>3. SameDisplay(q, r) /\ SameTime(q, r)
  BY <1>1, <1>2, KeepsOn
<1> QED BY <1>1, <1>2, <1>3 DEF q, o

\* q is what a part of schedule behind the devices makes of r.
Kept(q, r) == q \in SchedState /\ SameDisplay(q, r) /\ Sooner(q, r)

LEMMA NotedKept ==
    ASSUME NEW r, NEW m \in SchedState, m.schedule_event = r.schedule_event, SameDisplay(m, r),
           NEW c \in Countdown
    PROVE  Kept(Noted(m, c), r) /\ SameTime(Noted(m, c), m) /\ Noted(m, c).sched = m.sched
<1>1. LET q == Noted(m, c)
      IN  /\ q \in SchedState /\ q.sched = m.sched
          /\ q.schedule_event <= m.schedule_event
          /\ SameDisplay(q, m) /\ SameTime(q, m)
  BY NotedKeeps
<1> DEFINE q == Noted(m, c)
<1> HIDE DEF q
<1>2. SameDisplay(q, r)
  BY <1>1, KeepsOn DEF q
<1> QED BY <1>1, <1>2 DEF Kept, Sooner, q

LEMMA Timer2Keeps ==
    ASSUME NEW r \in SchedState, NEW steps \in Int, NEW in
    PROVE  LET q == Timer2(r, steps, in)
           IN  /\ q \in SchedState /\ SameDisplay(q, r) /\ SameTime(q, r)
               /\ q.sched["adjtime"] = r.sched["adjtime"]
<1> DEFINE period == IF r.intenable THEN r.t2_tick ELSE SCHED_TIMER2
           m == Interrupted(Counted(r, "timer2", steps, period),
                            Due(r, "timer2", steps) /\ in.irq = "timer2")
           q == Timer2(r, steps, in)
<1>1. period \in Int /\ "timer2" \in Countdown \ {"display"}
  BY TicksAreNumbers, ScheduleAssumption DEF Countdown
<1>2. q = [m EXCEPT !.schedule_event = m.sched.timer2]
  BY DEF Timer2
<1> HIDE DEF period
<1>3. /\ m \in SchedState /\ SameDisplay(m, r) /\ SameTime(m, r)
      /\ m.sched["adjtime"] = r.sched["adjtime"]
  BY <1>1, PartKeeps
<1> HIDE DEF m, q
<1>4. m.sched.timer2 \in Int
  BY <1>3 DEF SchedState, Countdown
<1>5. q \in SchedState /\ q.sched = m.sched /\ SameDisplay(q, m) /\ SameTime(q, m)
  BY <1>2, <1>3, <1>4 DEF SchedState, SameDisplay, SameTime
<1>6. SameDisplay(q, r) /\ SameTime(q, r)
  BY <1>3, <1>5, KeepsOn
<1> QED BY <1>3, <1>5, <1>6 DEF q

LEMMA ReceiveKeeps ==
    ASSUME NEW r \in SchedState, NEW steps \in Int, NEW in
    PROVE  LET q == Receive(r, steps, in)
           IN  Kept(q, r) /\ SameTime(q, r) /\ q.sched["adjtime"] = r.sched["adjtime"]
<1> DEFINE m == Interrupted(Counted(r, "receive", steps, SCHED_RECEIVE),
                            Due(r, "receive", steps) /\ in.irq = "receive")
           q == Noted(m, "receive")
<1>1. SCHED_RECEIVE \in Int /\ "receive" \in Countdown \ {"display"} /\ "receive" \in Countdown
  BY ScheduleAssumption DEF Countdown
<1>2. Receive(r, steps, in) = q
  BY DEF Receive
<1>3. /\ m \in SchedState /\ m.schedule_event = r.schedule_event
      /\ SameDisplay(m, r) /\ SameTime(m, r) /\ m.sched["adjtime"] = r.sched["adjtime"]
  BY <1>1, PartKeeps
<1> HIDE DEF m
<1>4. Kept(q, r) /\ SameTime(q, m) /\ q.sched = m.sched
  BY <1>1, <1>3, NotedKept
<1> HIDE DEF q
<1>5. SameTime(q, r)
  BY <1>3, <1>4, KeepsOn
<1> QED BY <1>2, <1>3, <1>4, <1>5

LEMMA Timer1Keeps ==
    ASSUME NEW r \in SchedState, NEW steps \in Int, NEW in
    PROVE  Kept(Timer1(r, steps, in), r) /\ SameTime(Timer1(r, steps, in), r)
<1> DEFINE period == IF r.intenable THEN r.t1_tick ELSE SCHED_TIMER1
           m == Interrupted(Counted(r, "timer1", steps, period),
                            Due(r, "timer1", steps) /\ in.irq = "timer1")
           q == Noted(m, "timer1")
<1>1. period \in Int /\ "timer1" \in Countdown \ {"display"} /\ "timer1" \in Countdown
  BY TicksAreNumbers, ScheduleAssumption DEF Countdown
<1>2. Timer1(r, steps, in) = q
  BY DEF Timer1
<1> HIDE DEF period
<1>3. /\ m \in SchedState /\ m.schedule_event = r.schedule_event
      /\ SameDisplay(m, r) /\ SameTime(m, r)
  BY <1>1, PartKeeps
<1> HIDE DEF m
<1>4. Kept(q, r) /\ SameTime(q, m)
  BY <1>1, <1>3, NotedKept
<1> HIDE DEF q
<1>5. SameTime(q, r)
  BY <1>3, <1>4, KeepsOn
<1> QED BY <1>2, <1>4, <1>5

LEMMA StatisticsKeeps ==
    ASSUME NEW r \in SchedState, NEW steps \in Int, NEW in, in.measured \in Measured
    PROVE  Kept(Statistics(r, steps, in), r) /\ SameTime(Statistics(r, steps, in), r)
<1> DEFINE c == Counted(r, "statistics", steps, SCHED_STATISTICS)
           m == IF Due(r, "statistics", steps)
                THEN [c EXCEPT !.t1_tick = Short(in.measured),
                               !.t2_tick = Short(in.measured \div T2_PER_T1)]
                ELSE c
           q == Noted(m, "statistics")
<1>1. /\ SCHED_STATISTICS \in Int /\ "statistics" \in Countdown \ {"display"}
      /\ "statistics" \in Countdown
  BY ScheduleAssumption DEF Countdown
<1>2. Statistics(r, steps, in) = q
  BY DEF Statistics
<1>3. /\ c \in SchedState /\ c.schedule_event = r.schedule_event
      /\ SameDisplay(c, r) /\ SameTime(c, r)
  BY <1>1, CountedKeeps
<1> HIDE DEF c
<1>4. Short(in.measured) \in Int /\ Short(in.measured \div T2_PER_T1) \in Ticks2
  BY ShortsAreTicks
<1>5. /\ m \in SchedState /\ m.schedule_event = c.schedule_event
      /\ SameDisplay(m, c) /\ SameTime(m, c)
  BY <1>3, <1>4 DEF SchedState, SameDisplay, SameTime
<1> HIDE DEF m
<1>6. SameDisplay(m, r) /\ SameTime(m, r)
  BY <1>3, <1>5, KeepsOn
<1>7. Kept(q, r) /\ SameTime(q, m)
  BY <1>1, <1>3, <1>5, <1>6, NotedKept
<1> HIDE DEF q
<1>8. SameTime(q, r)
  BY <1>6, <1>7, KeepsOn
<1> QED BY <1>2, <1>7, <1>8

LEMMA RolloverKeeps ==
    ASSUME NEW r \in SchedState, NEW steps \in Int
    PROVE  Kept(Rollover(r, steps), r) /\ SameTime(Rollover(r, steps), r)
<1> DEFINE c == Counted(r, "instr_rollover", steps, SCHED_INSTR_ROLLOVER)
           n == [c EXCEPT !.instructions = 1]
           o == [n EXCEPT !.old_sched_instr = 1]
           m == IF Due(r, "instr_rollover", steps) THEN o ELSE c
           q == Noted(m, "instr_rollover")
<1>1. /\ SCHED_INSTR_ROLLOVER \in Int /\ "instr_rollover" \in Countdown \ {"display"}
      /\ "instr_rollover" \in Countdown
  BY ScheduleAssumption DEF Countdown
<1>3. /\ c \in SchedState /\ c.schedule_event = r.schedule_event
      /\ SameDisplay(c, r) /\ SameTime(c, r)
  BY <1>1, CountedKeeps
<1> HIDE DEF c
<1>2. Rollover(r, steps) = q
  <2>1. [c EXCEPT !.instructions = 1, !.old_sched_instr = 1] = o
    BY <1>3 DEF SchedState
  <2> HIDE DEF n, o
  <2> QED BY <2>1, Zenon DEF Rollover, c
<1>4. o \in SchedState /\ o.schedule_event = c.schedule_event /\ SameDisplay(o, c) /\ SameTime(o, c)
  <2>1. n \in SchedState /\ n.schedule_event = c.schedule_event /\ SameDisplay(n, c) /\ SameTime(n, c)
    BY <1>3 DEF SchedState, SameDisplay, SameTime
  <2> HIDE DEF n
  <2>2. o \in SchedState /\ o.schedule_event = n.schedule_event /\ SameDisplay(o, n) /\ SameTime(o, n)
    BY <2>1 DEF SchedState, SameDisplay, SameTime
  <2> HIDE DEF o
  <2> QED BY <2>1, <2>2, KeepsOn
<1> HIDE DEF n, o
<1>5. SameDisplay(o, r) /\ SameTime(o, r)
  BY <1>3, <1>4, KeepsOn
<1>6. /\ m \in SchedState /\ m.schedule_event = r.schedule_event
      /\ SameDisplay(m, r) /\ SameTime(m, r)
  BY <1>3, <1>4, <1>5
<1> HIDE DEF m
<1>7. Kept(q, r) /\ SameTime(q, m)
  BY <1>1, <1>6, NotedKept
<1> HIDE DEF q
<1>8. SameTime(q, r)
  BY <1>6, <1>7, KeepsOn
<1> QED BY <1>2, <1>7, <1>8

\* The clock is adjusted when it is due, unless an I/O service is under way.
LEMMA AdjtimeKeeps ==
    ASSUME NEW r \in SchedState, NEW steps \in Int, NEW in, in.slow => r.t2_tick < MaxT2Tick
    PROVE  LET q == Adjtime(r, steps, in)
           IN  /\ Kept(q, r)
               /\ Due(r, "adjtime", steps) /\ q.adj_time_pending /\ q.intenable => q.inSrvcIo
<1> DEFINE c == Counted(r, "adjtime", steps, SCHED_ADJTIME)
           i == Interrupted(c, in.irq = "adjtime")
           tick == IF in.slow THEN i.t2_tick + 1 ELSE i.t2_tick
           m1 == [c EXCEPT !.adj_time_pending = TRUE]
           m2 == [[i EXCEPT !.adj_time_pending = FALSE] EXCEPT !.t2_tick = tick]
           m == IF ~Due(r, "adjtime", steps) THEN c
                ELSE IF r.inSrvcIo THEN m1 ELSE m2
           q == Noted(m, "adjtime")
<1>1. SCHED_ADJTIME \in Int /\ "adjtime" \in Countdown \ {"display"} /\ "adjtime" \in Countdown
  BY ScheduleAssumption DEF Countdown
<1>3. /\ c \in SchedState /\ c.schedule_event = r.schedule_event
      /\ SameDisplay(c, r) /\ SameTime(c, r) /\ c.t2_tick = r.t2_tick
  BY <1>1, CountedKeeps DEF Counted, SchedState
<1> HIDE DEF c
<1>4. /\ i \in SchedState /\ i.schedule_event = c.schedule_event
      /\ SameDisplay(i, c) /\ i.t2_tick = c.t2_tick
  BY <1>3, InterruptedKeeps DEF Interrupted, SchedState
<1> HIDE DEF i
<1>5. tick \in Ticks2
  <2>1. i.t2_tick \in Ticks2
    BY <1>4 DEF SchedState
  <2> QED BY <1>3, <1>4, <2>1, SchedulerAssumption DEF Ticks2
<1>2. Adjtime(r, steps, in) = q
  <2>1. [i EXCEPT !.adj_time_pending = FALSE, !.t2_tick = IF in.slow THEN @ + 1 ELSE @] = m2
    BY <1>4 DEF SchedState
  <2> HIDE DEF tick, m2
  <2> QED BY <2>1, Zenon DEF Adjtime, c, i
<1> HIDE DEF tick
<1>6. /\ m1 \in SchedState /\ m1.schedule_event = c.schedule_event /\ SameDisplay(m1, c)
      /\ SameDisplay(m2, i) /\ m2.schedule_event = i.schedule_event /\ m2.adj_time_pending = FALSE
      /\ m2 \in SchedState /\ (m1.intenable /\ r.inSrvcIo => m1.inSrvcIo)
  <2>1. c \in SchedState /\ i \in SchedState /\ tick \in Ticks2
    BY <1>3, <1>4, <1>5
  <2>2. m1 \in SchedState /\ m1.schedule_event = c.schedule_event /\ SameDisplay(m1, c)
    BY <2>1 DEF SchedState, SameDisplay
  <2>3. /\ SameDisplay(m2, i) /\ m2.schedule_event = i.schedule_event
        /\ m2.adj_time_pending = FALSE /\ m2 \in SchedState
    BY <2>1 DEF SchedState, SameDisplay
  <2>4. m1.intenable /\ r.inSrvcIo => m1.inSrvcIo
    BY <1>3, <2>1 DEF SchedState, SameTime
  <2> QED BY <2>2, <2>3, <2>4
<1> HIDE DEF m1, m2
<1>7. m \in SchedState /\ m.schedule_event = r.schedule_event
  BY <1>3, <1>4, <1>6
<1>8. SameDisplay(m, r)
  <2>1. SameDisplay(m1, r) /\ SameDisplay(m2, r)
    BY <1>3, <1>4, <1>6, KeepsOn
  <2> QED BY <1>3, <2>1
<1>9. Due(r, "adjtime", steps) /\ m.adj_time_pending /\ m.intenable => m.inSrvcIo
  BY <1>6
<1> HIDE DEF m
<1>10. Kept(q, r) /\ SameTime(q, m)
  BY <1>1, <1>7, <1>8, NotedKept
<1> HIDE DEF q
<1> QED BY <1>2, <1>9, <1>10 DEF SameTime

----------------------------------------------------------------------------
(* The redraw.                                                             *)

\* What is left of display_touched when schedule comes to check_devices.
Remains(r, steps) ==
    LET left == IF r.display_touched = 0 \/ ~Due(r, "display", steps)
                THEN r.display_touched
                ELSE r.display_touched - steps
    IN  IF left < 0 THEN 1 ELSE left

\* What schedule makes of the wait for a redraw.
Waits(q, r, steps) ==
    IF ~r.device_check THEN SameDisplay(q, r)
    ELSE LET l == Left(Remains(r, steps))
         IN  /\ q.display_touched = l
             /\ q.stale = (r.stale /\ Remains(r, steps) # 1)
             /\ q.device_check = (l > 0)
             /\ IF l = 0 THEN q.sched["display"] = SCHED_NEVER
                ELSE q.sched["display"] = l - 1 /\ q.schedule_event <= l - 1

LEMMA RemainsANumber ==
    ASSUME NEW r \in SchedState, NEW steps \in Int
    PROVE  Remains(r, steps) \in Int /\ Left(Remains(r, steps)) \in Int
<1>1. r.display_touched \in Int
  BY DEF SchedState
<1> QED BY <1>1 DEF Remains, Left

\* check_devices behind the steps: the redraw and the timers written to.
LEMMA CheckKeeps ==
    ASSUME NEW p \in SchedState, NEW in
    PROVE  LET d == check_devices(p, in)
           IN  /\ d \in SchedState /\ SameTime(d, p)
               /\ d.sched["adjtime"] = p.sched["adjtime"]
               /\ d.display_touched = Left(p.display_touched)
               /\ d.stale = (p.stale /\ p.display_touched # 1)
               /\ d.device_check = CheckAgain(Left(p.display_touched))
<1> DEFINE left == Left(p.display_touched)
           st == p.stale /\ p.display_touched # 1
           ck == CheckAgain(left)
           v1 == IF "t1" \in in.touched THEN p.t1_tick ELSE p.sched["timer1"]
           v2 == IF "t2" \in in.touched THEN p.t2_tick ELSE p.sched["timer2"]
           sc == [[p.sched EXCEPT !["timer1"] = v1] EXCEPT !["timer2"] = v2]
           u1 == [p EXCEPT !.display_touched = left]
           u2 == [u1 EXCEPT !.stale = st]
           u3 == [u2 EXCEPT !.device_check = ck]
           u == [u3 EXCEPT !.sched = sc]
           d == check_devices(p, in)
<1>1. /\ p.sched \in [Countdown -> Int] /\ p.stale \in BOOLEAN /\ p.display_touched \in Int
      /\ p.t1_tick \in Int /\ p.t2_tick \in Int
  BY TicksAreNumbers DEF SchedState
<1>2. d = Interrupted(u, in.irq = "device")
  <2>1. [p EXCEPT !.display_touched = left,
                  !.stale = @ /\ p.display_touched # 1,
                  !.device_check = ck,
                  !.sched.timer1 = IF "t1" \in in.touched THEN p.t1_tick ELSE @,
                  !.sched.timer2 = IF "t2" \in in.touched THEN p.t2_tick ELSE @] = u
    BY <1>1 DEF SchedState, Countdown
  <2> HIDE DEF u, u1, u2, u3, sc, v1, v2
  <2> QED BY <2>1 DEF check_devices
<1>3. v1 \in Int /\ v2 \in Int
  BY <1>1 DEF Countdown
<1> HIDE DEF v1, v2
<1>4. sc \in [Countdown -> Int] /\ sc["adjtime"] = p.sched["adjtime"]
  BY <1>1, <1>3 DEF Countdown
<1> HIDE DEF sc
<1>5. left \in Int /\ ck \in BOOLEAN /\ st \in BOOLEAN
  BY <1>1 DEF Left, CheckAgain
<1> HIDE DEF left, st, ck, d
<1>6. u1 \in SchedState /\ SameTime(u1, p) /\ u1.display_touched = left
  BY <1>5 DEF SchedState, SameTime
<1> HIDE DEF u1
<1>7. u2 \in SchedState /\ SameTime(u2, p) /\ u2.display_touched = left /\ u2.stale = st
  BY <1>5, <1>6 DEF SchedState, SameTime
<1> HIDE DEF u2
<1>8. u3 \in SchedState /\ SameTime(u3, p) /\ u3.display_touched = left /\ u3.stale = st
      /\ u3.device_check = ck
  BY <1>5, <1>7 DEF SchedState, SameTime
<1> HIDE DEF u3
<1>9. u \in SchedState /\ SameTime(u, p) /\ u.display_touched = left /\ u.stale = st
      /\ u.device_check = ck /\ u.sched = sc
  BY <1>4, <1>8 DEF SchedState, SameTime
<1> HIDE DEF u
<1>10. d \in SchedState /\ d.sched = u.sched /\ SameDisplay(d, u) /\ SameTime(d, u)
  BY <1>2, <1>9, InterruptedKeeps
<1>11. SameTime(d, p)
  BY <1>9, <1>10, KeepsOn
<1>12. d.display_touched = left /\ d.stale = st /\ d.device_check = ck
  BY <1>9, <1>10 DEF SameDisplay
<1> QED BY <1>4, <1>9, <1>10, <1>11, <1>12 DEF d, left, st, ck

LEMMA DevicesWait ==
    ASSUME NEW r \in SchedState, NEW steps \in Int, NEW in
    PROVE  LET q == Devices(r, steps, in)
           IN  /\ q \in SchedState /\ SameTime(q, r)
               /\ q.sched["adjtime"] = r.sched["adjtime"]
               /\ Waits(q, r, steps)
<1> DEFINE left == IF r.display_touched = 0 \/ ~Due(r, "display", steps)
                   THEN r.display_touched
                   ELSE r.display_touched - steps
           rest == IF left < 0 THEN 1 ELSE left
           o == [r EXCEPT !.display_touched = rest]
           p == [o EXCEPT !.device_check = FALSE]
           d == check_devices(p, in)
           q == Devices(r, steps, in)
<1>1. rest = Remains(r, steps)
  BY DEF Remains
<1>2. rest \in Int
  BY <1>1, RemainsANumber
<1>3. q = IF ~r.device_check THEN r
          ELSE IF d.display_touched = 0
               THEN [d EXCEPT !.sched.display = SCHED_NEVER]
               ELSE Noted([d EXCEPT !.sched.display = sched_display(d.display_touched)],
                          "display")
  <2>1. [r EXCEPT !.display_touched = rest, !.device_check = FALSE] = p
    BY DEF SchedState
  <2> HIDE DEF p
  <2> QED BY <2>1, Zenon DEF Devices, rest, left, d
<1> HIDE DEF left, rest, q
<1>4. /\ p \in SchedState /\ SameTime(p, r) /\ p.sched = r.sched /\ p.stale = r.stale
      /\ p.display_touched = rest
  <2>1. /\ o \in SchedState /\ SameTime(o, r) /\ o.sched = r.sched /\ o.stale = r.stale
        /\ o.display_touched = rest
    BY <1>2 DEF SchedState, SameTime
  <2> HIDE DEF o
  <2> QED BY <2>1 DEF SchedState, SameTime
<1> HIDE DEF o, p
<1>5. /\ d \in SchedState /\ SameTime(d, p)
      /\ d.sched["adjtime"] = p.sched["adjtime"]
      /\ d.display_touched = Left(rest)
      /\ d.stale = (r.stale /\ rest # 1)
      /\ d.device_check = (Left(rest) > 0)
  BY <1>4, CheckKeeps DEF CheckAgain
<1> HIDE DEF d
<1>6. SameTime(d, r) /\ Left(rest) \in Int
  BY <1>1, <1>4, <1>5, KeepsOn, RemainsANumber
<1>7. CASE ~r.device_check
  BY <1>3, <1>7 DEF SameDisplay, SameTime, Waits, q
<1>8. CASE r.device_check /\ Left(rest) = 0
  <2> DEFINE sc == [d.sched EXCEPT !["display"] = SCHED_NEVER]
  <2>1. q = [d EXCEPT !.sched = sc]
    BY <1>3, <1>5, <1>8 DEF SchedState
  <2>2. d.sched \in [Countdown -> Int]
    BY <1>5 DEF SchedState
  <2>3. sc \in [Countdown -> Int] /\ sc["display"] = SCHED_NEVER
        /\ sc["adjtime"] = d.sched["adjtime"]
    BY <2>2, ScheduleAssumption DEF Countdown
  <2> HIDE DEF sc
  <2>4. /\ q \in SchedState /\ q.sched = sc /\ SameTime(q, d)
        /\ q.display_touched = d.display_touched /\ q.stale = d.stale
        /\ q.device_check = d.device_check
    BY <1>5, <2>1, <2>3 DEF SchedState, SameTime
  <2>5. SameTime(q, r)
    BY <1>6, <2>4, KeepsOn
  <2>6. Waits(q, r, steps)
    BY <1>1, <1>5, <1>8, <2>3, <2>4 DEF Waits
  <2> QED BY <1>4, <1>5, <2>3, <2>4, <2>5, <2>6 DEF q
<1>9. CASE r.device_check /\ Left(rest) # 0
  <2> DEFINE wait == sched_display(d.display_touched)
             sc == [d.sched EXCEPT !["display"] = wait]
             e == [d EXCEPT !.sched = sc]
  <2>1. q = Noted(e, "display")
    <3>1. [d EXCEPT !.sched.display = wait] = e
      BY <1>5 DEF SchedState
    <3> HIDE DEF e, wait
    <3> QED BY <1>3, <1>5, <1>9, <3>1 DEF wait
  <2>2. d.sched \in [Countdown -> Int] /\ wait \in Int /\ wait = Left(rest) - 1
    BY <1>5, <1>6 DEF SchedState, sched_display
  <2> HIDE DEF wait
  <2>3. sc \in [Countdown -> Int] /\ sc["display"] = wait
        /\ sc["adjtime"] = d.sched["adjtime"]
    BY <2>2 DEF Countdown
  <2> HIDE DEF sc
  <2>4. /\ e \in SchedState /\ e.sched = sc /\ SameTime(e, d)
        /\ e.display_touched = d.display_touched /\ e.stale = d.stale
        /\ e.device_check = d.device_check
    BY <1>5, <2>3 DEF SchedState, SameTime
  <2> HIDE DEF e
  <2>5. "display" \in Countdown
    BY DEF Countdown
  <2>6. /\ q \in SchedState /\ q.sched = e.sched /\ q.schedule_event <= e.sched["display"]
        /\ SameDisplay(q, e) /\ SameTime(q, e)
    BY <2>1, <2>4, <2>5, NotedKeeps
  <2>7. SameTime(q, r)
    BY <1>6, <2>4, <2>6, KeepsOn
  <2>8. Waits(q, r, steps)
    <3>1. /\ q.display_touched = Left(rest) /\ q.stale = (r.stale /\ rest # 1)
          /\ q.device_check = (Left(rest) > 0)
      BY <1>5, <2>4, <2>6 DEF SameDisplay
    <3>2. q.sched["display"] = Left(rest) - 1 /\ q.schedule_event <= Left(rest) - 1
      BY <2>2, <2>3, <2>4, <2>6
    <3> QED BY <1>1, <1>9, <3>1, <3>2 DEF Waits
  <2> QED BY <1>4, <1>5, <2>3, <2>4, <2>6, <2>7, <2>8 DEF q
<1> QED BY <1>7, <1>8, <1>9 DEF q

LEMMA WaitsOn ==
    ASSUME NEW p \in SchedState, NEW q \in SchedState, NEW r \in SchedState, NEW steps \in Int,
           Waits(q, r, steps), SameDisplay(p, q), Sooner(p, q)
    PROVE  Waits(p, r, steps)
<1> DEFINE l == Left(Remains(r, steps))
<1>1. l \in Int
  BY RemainsANumber
<1>2. p.schedule_event \in Int /\ q.schedule_event \in Int
  BY DEF SchedState
<1>3. CASE ~r.device_check
  BY <1>3, KeepsOn DEF Waits
<1>4. CASE r.device_check
  <2>1. /\ q.display_touched = l
        /\ q.stale = (r.stale /\ Remains(r, steps) # 1)
        /\ q.device_check = (l > 0)
        /\ IF l = 0 THEN q.sched["display"] = SCHED_NEVER
           ELSE q.sched["display"] = l - 1 /\ q.schedule_event <= l - 1
    BY <1>4 DEF Waits
  <2> HIDE DEF l
  <2>2. /\ p.display_touched = l
        /\ p.stale = (r.stale /\ Remains(r, steps) # 1)
        /\ p.device_check = (l > 0)
        /\ IF l = 0 THEN p.sched["display"] = SCHED_NEVER
           ELSE p.sched["display"] = l - 1 /\ p.schedule_event <= l - 1
    BY <1>1, <1>2, <2>1 DEF SameDisplay, Sooner
  <2> QED BY <1>4, <2>2 DEF Waits, l
<1> QED BY <1>3, <1>4

LEMMA WaitsFrom ==
    ASSUME NEW q, NEW p, NEW r, NEW steps, Waits(q, p, steps), SameDisplay(p, r)
    PROVE  Waits(q, r, steps)
<1>1. Remains(p, steps) = Remains(r, steps) /\ p.stale = r.stale /\ p.device_check = r.device_check
  BY DEF Remains, Due, SameDisplay
<1>2. CASE ~r.device_check
  BY <1>1, <1>2, KeepsOn DEF Waits
<1>3. CASE r.device_check
  BY <1>1, <1>3 DEF Waits
<1> QED BY <1>2, <1>3

\* schedule as a whole: the wait for a redraw, and the time adjustment.
LEMMA ScheduleWaits ==
    ASSUME NEW r \in SchedState, r.sched["timer2"] <= Longest, 0 <= Rest(r),
           NEW in, in.measured \in Measured, in.slow => r.t2_tick < MaxT2Tick
    PROVE  LET q == schedule(r, in)
           IN  /\ Waits(q, r, Rest(r))
               /\ r.device_check /\ q.device_check => q.schedule_event + 1 <= q.sched["display"]
               /\ Due(r, "adjtime", Rest(r)) /\ q.adj_time_pending /\ q.intenable => q.inSrvcIo
<1> DEFINE steps == Rest(r)
           s0 == [r EXCEPT !.old_sched_instr = r.instructions]
           s1 == Timer2(s0, steps, in)
           s2 == Devices(s1, steps, in)
           s3 == Receive(s2, steps, in)
           s4 == Adjtime(s3, steps, in)
           s5 == Timer1(s4, steps, in)
           s6 == Statistics(s5, steps, in)
           s7 == Rollover(s6, steps)
           q == [s7 EXCEPT !.schedule_event = @ - 1]
<1>1. steps \in Nat
  BY DEF SchedState, Rest
<1>2. schedule(r, in) = q
  BY DEF schedule, Rest
<1> HIDE DEF steps
<1>3. /\ s0 \in SchedState /\ s0.sched["timer2"] <= Longest /\ s0.t2_tick = r.t2_tick
      /\ s0.sched["adjtime"] = r.sched["adjtime"] /\ SameDisplay(s0, r)
  BY DEF SchedState, SameDisplay
<1> HIDE DEF s0
<1>4. /\ Near(s1) /\ s1.t2_tick = r.t2_tick /\ s1 \in SchedState
      /\ SameDisplay(s1, s0) /\ s1.sched["adjtime"] = s0.sched["adjtime"]
  BY <1>1, <1>3, Timer2Part, Timer2Keeps
<1> HIDE DEF s1
<1>5. /\ Near(s2) /\ s2.t2_tick = r.t2_tick /\ s2 \in SchedState
      /\ s2.sched["adjtime"] = s1.sched["adjtime"] /\ Waits(s2, s1, steps)
  BY <1>1, <1>4, DevicesPart, DevicesWait
<1> HIDE DEF s2
<1>6. s3.t2_tick = r.t2_tick /\ Kept(s3, s2) /\ s3.sched["adjtime"] = s2.sched["adjtime"]
  <2>1. Seen(s2, {}) /\ {} \in SUBSET OnTimers /\ "receive" \notin {}
    BY <1>5 DEF Seen, OnTimers
  <2> QED BY <1>1, <1>5, <2>1, ReceivePart, ReceiveKeeps
<1> HIDE DEF s3
<1>7. /\ Kept(s4, s3)
      /\ Due(s3, "adjtime", steps) /\ s4.adj_time_pending /\ s4.intenable => s4.inSrvcIo
  BY <1>1, <1>6, AdjtimeKeeps DEF Kept
<1> HIDE DEF s4
<1>8. Kept(s5, s4) /\ SameTime(s5, s4)
  BY <1>1, <1>7, Timer1Keeps DEF Kept
<1> HIDE DEF s5
<1>9. Kept(s6, s5) /\ SameTime(s6, s5)
  BY <1>1, <1>8, StatisticsKeeps DEF Kept
<1> HIDE DEF s6
<1>10. Kept(s7, s6) /\ SameTime(s7, s6)
  BY <1>1, <1>9, RolloverKeeps DEF Kept
<1> HIDE DEF s7
<1>11. /\ q \in SchedState /\ SameDisplay(q, s7) /\ SameTime(q, s7) /\ Sooner(q, s7)
       /\ q.schedule_event + 1 = s7.schedule_event
  BY <1>10 DEF Kept, SchedState, SameDisplay, SameTime, Sooner
<1> HIDE DEF q
<1>12. SameTime(q, s4)
  BY <1>8, <1>9, <1>10, <1>11, KeepsOn
<1>13. SameDisplay(s7, s2) /\ SameDisplay(q, s2)
  BY <1>6, <1>7, <1>8, <1>9, <1>10, <1>11, KeepsOn DEF Kept
<1>14. Sooner(s7, s2) /\ Sooner(q, s2) /\ s7.schedule_event \in Int
       /\ s7 \in SchedState
  BY <1>5, <1>6, <1>7, <1>8, <1>9, <1>10, <1>11 DEF Kept, Sooner, SchedState
<1>15. Waits(s7, r, steps) /\ Waits(q, r, steps)
  <2>1. SameDisplay(s1, r)
    BY <1>3, <1>4, KeepsOn
  <2>2. Waits(s2, r, steps)
    BY <1>5, <2>1, WaitsFrom
  <2> QED BY <1>1, <1>5, <1>11, <1>13, <1>14, <2>2, WaitsOn
<1>16. r.device_check /\ q.device_check => q.schedule_event + 1 <= q.sched["display"]
  <2>1. SUFFICES ASSUME r.device_check, q.device_check
                 PROVE  q.schedule_event + 1 <= q.sched["display"]
    OBVIOUS
  <2> DEFINE l == Left(Remains(r, steps))
  <2>2. l > 0 /\ s7.sched["display"] = l - 1 /\ s7.schedule_event <= l - 1
    <3>1. l \in Int
      BY <1>1, RemainsANumber
    <3>2. /\ q.device_check = (l > 0)
          /\ IF l = 0 THEN s7.sched["display"] = SCHED_NEVER
             ELSE s7.sched["display"] = l - 1 /\ s7.schedule_event <= l - 1
      BY <1>15, <2>1 DEF Waits
    <3> HIDE DEF l
    <3>3. l > 0
      BY <2>1, <3>2
    <3> QED BY <3>1, <3>2, <3>3
  <2>3. q.sched["display"] = s7.sched["display"]
    BY <1>11 DEF SameDisplay
  <2> HIDE DEF l
  <2> QED BY <1>11, <2>2, <2>3
<1>17. Due(r, "adjtime", steps) /\ q.adj_time_pending /\ q.intenable => q.inSrvcIo
  <2>1. Due(r, "adjtime", steps) => Due(s3, "adjtime", steps)
    BY <1>3, <1>4, <1>5, <1>6 DEF Due
  <2> QED BY <1>7, <1>12, <2>1 DEF SameTime
<1> QED BY <1>2, <1>15, <1>16, <1>17 DEF steps

----------------------------------------------------------------------------
(* What a wait for a redraw is between two instructions.                   *)

Shown(r) ==
    /\ r.display_touched \in 0 .. DISP_INSTR_OFF
    /\ ~r.device_check => r.sched["display"] = SCHED_NEVER /\ r.display_touched <= 1

\* The countdown is one below display_touched, and schedule comes before it.
Waiting(r) ==
    /\ Shown(r)
    /\ r.device_check => /\ r.sched["display"] < DISP_INSTR_OFF
                         /\ Rest(r) + r.schedule_event + 1 <= r.sched["display"]
                         /\ r.display_touched > 0 => r.display_touched = r.sched["display"] + 1

\* The one way to leave a change off the screen: the countdown of the redraw runs out
\* when as many instructions are over as the redraw was put off by.
Overrun(r) ==
    /\ r.stale
    /\ \/ r.display_touched = 0
       \/ /\ r.device_check
          /\ r.display_touched = Rest(r) /\ r.sched["display"] <= Rest(r)

LEMMA ScheduleLeavesWaiting ==
    ASSUME NEW r \in SchedState, r.sched["timer2"] <= Longest, 0 <= Rest(r), Shown(r),
           NEW in, in.measured \in Measured, in.slow => r.t2_tick < MaxT2Tick
    PROVE  LET q == schedule(r, in)
           IN  /\ q \in SchedState /\ Waiting(q)
               /\ q.display_touched = 0 /\ q.stale => Overrun(r)
<1> DEFINE q == schedule(r, in)
           l == Left(Remains(r, Rest(r)))
<1>1. /\ q \in SchedState /\ Rest(q) = 0
      /\ Waits(q, r, Rest(r))
      /\ r.device_check /\ q.device_check => q.schedule_event + 1 <= q.sched["display"]
  BY ScheduleSpaces, ScheduleWaits
<1> HIDE DEF q
<1>2. /\ DISP_INSTR_OFF \in Nat /\ SCHED_NEVER \in Nat /\ DISP_INSTR_OFF < SCHED_NEVER
      /\ 1 <= DISP_INSTR_OFF
  BY ScheduleAssumption
<1>3. r.display_touched \in 0 .. DISP_INSTR_OFF /\ Rest(r) \in Nat /\ r.sched["display"] \in Int
      /\ r.device_check \in BOOLEAN /\ q.device_check \in BOOLEAN
  BY <1>1 DEF Shown, SchedState, Countdown, Rest
<1>4. CASE ~r.device_check
  <2>1. SameDisplay(q, r)
    BY <1>1, <1>4 DEF Waits
  <2>2. Waiting(q)
    BY <1>4, <2>1 DEF Shown, Waiting, SameDisplay
  <2>3. q.display_touched = 0 /\ q.stale => Overrun(r)
    BY <2>1 DEF SameDisplay, Overrun
  <2> QED BY <1>1, <2>2, <2>3 DEF q
<1>5. CASE r.device_check
  <2>1. /\ Remains(r, Rest(r)) \in 0 .. DISP_INSTR_OFF
        /\ Remains(r, Rest(r)) = 0 =>
             r.display_touched = 0 \/ (r.display_touched = Rest(r) /\ r.sched["display"] <= Rest(r))
    BY <1>2, <1>3 DEF Remains, Due
  <2>2. l \in Nat /\ l < DISP_INSTR_OFF /\ (l = 0 => Remains(r, Rest(r)) \in {0, 1})
    BY <1>2, <2>1 DEF Left
  <2>3. /\ q.display_touched = l
        /\ q.stale = (r.stale /\ Remains(r, Rest(r)) # 1)
        /\ q.device_check = (l > 0)
        /\ l = 0 => q.sched["display"] = SCHED_NEVER
        /\ l # 0 => q.sched["display"] = l - 1
    BY <1>1, <1>5 DEF Waits
  <2> HIDE DEF l
  <2>4. CASE l = 0
    <3>0. ~(l > 0)
      BY <2>4
    <3>1. ~q.device_check
      BY <2>3, <3>0
    <3>2. Waiting(q)
      BY <1>2, <2>3, <2>4, <3>1 DEF Waiting, Shown
    <3>3. q.stale => r.stale /\ Remains(r, Rest(r)) = 0
      BY <2>2, <2>3, <2>4 DEF Left
    <3>4. q.stale => Overrun(r)
      BY <1>5, <2>1, <3>3 DEF Overrun
    <3> QED BY <1>1, <3>2, <3>4 DEF q
  <2>5. CASE l # 0
    <3>0. l > 0
      BY <2>2, <2>5
    <3>1. q.device_check
      BY <2>3, <3>0
    <3>2. q.schedule_event + 1 <= q.sched["display"] /\ q.schedule_event \in Int
      BY <1>1, <1>5, <3>1 DEF SchedState
    <3>3. Waiting(q)
      BY <1>1, <1>2, <2>2, <2>3, <2>5, <3>1, <3>2 DEF Waiting, Shown
    <3> QED BY <1>1, <2>2, <2>3, <2>5, <3>3 DEF q
  <2> QED BY <2>4, <2>5
<1> QED BY <1>3, <1>4, <1>5

\* What schedule or its absence makes of the state an instruction left.
LEMMA BehindWaits ==
    ASSUME NEW t, Ready(t), Shown(t), t.schedule_event > 0 => Waiting(t),
           NEW touched, Behind(t, touched)
    PROVE  /\ Waiting(s')
           /\ s'.display_touched = 0 /\ s'.stale =>
                /\ t.stale
                /\ \/ t.display_touched = 0
                   \/ /\ t.device_check
                      /\ t.display_touched = Rest(t) + 1 /\ t.sched["display"] <= Rest(t) + 1
           /\ t.schedule_event = 0 /\ t.sched["adjtime"] = 0 =>
                (s'.adj_time_pending /\ s'.intenable => s'.inSrvcIo)
<1> DEFINE u1 == [t EXCEPT !.instructions = @ + 1]
           u == [u1 EXCEPT !.schedule_event = @ - 1]
           v == [t EXCEPT !.instructions = @ + 1, !.schedule_event = @ - 1]
<1>1. t \in SchedState
  BY DEF Ready
<1>2. u = v
  BY <1>1 DEF SchedState
<1>3. /\ u \in SchedState /\ u.sched = t.sched /\ u.t2_tick = t.t2_tick
      /\ u.instructions = t.instructions + 1 /\ u.old_sched_instr = t.old_sched_instr
      /\ u.schedule_event = t.schedule_event - 1 /\ SameDisplay(u, t)
  <2>1. /\ u1 \in SchedState /\ u1.sched = t.sched /\ u1.t2_tick = t.t2_tick
        /\ u1.instructions = t.instructions + 1 /\ u1.old_sched_instr = t.old_sched_instr
        /\ u1.schedule_event = t.schedule_event /\ SameDisplay(u1, t)
    BY <1>1 DEF SchedState, SameDisplay
  <2> HIDE DEF u1
  <2> QED BY <2>1 DEF SchedState, SameDisplay
<1> HIDE DEF u1, u
<1>4. /\ Rest(t) \in Int /\ Rest(u) = Rest(t) + 1 /\ 0 <= Rest(u)
      /\ u.sched["timer2"] <= Longest /\ t.schedule_event \in Int /\ u.sched["display"] \in Int
  <2>1. t.instructions \in Int /\ t.old_sched_instr \in Int /\ t.schedule_event \in Int
        /\ t.sched["display"] \in Int
    BY <1>1 DEF SchedState, Countdown
  <2> QED BY <1>3, <2>1 DEF Ready, Rest
<1>5. Shown(u)
  BY <1>3 DEF Shown, SameDisplay
<1>6. CASE t.schedule_event > 0
  <2>1. s' = u
    BY <1>2, <1>6 DEF Behind
  <2>2. Waiting(u)
    <3>1. u.schedule_event = t.schedule_event - 1 /\ Rest(u) + u.schedule_event = Rest(t) + t.schedule_event
      BY <1>3, <1>4
    <3> QED BY <1>3, <1>5, <1>6, <3>1 DEF Waiting, SameDisplay
  <2>3. u.display_touched = t.display_touched /\ u.stale = t.stale
    BY <1>3 DEF SameDisplay
  <2> QED BY <1>4, <1>6, <2>1, <2>2, <2>3
<1>7. CASE ~(t.schedule_event > 0)
  <2>1. PICK in \in [touched : {touched}, irq : Requesting(u, touched),
                     slow : Slowing(u), measured : Measuring(u)] :
            s' = Interrupted(schedule(u, in), in.irq = "key")
    BY <1>2, <1>7, Zenon DEF Behind, v
  <2>2. in.measured \in Measured /\ (in.slow => u.t2_tick < MaxT2Tick)
    BY DEF Slowing, Measuring
  <2> DEFINE q == schedule(u, in)
  <2>3. /\ q \in SchedState /\ Waiting(q)
        /\ q.display_touched = 0 /\ q.stale => Overrun(u)
    BY <1>3, <1>4, <1>5, <2>2, ScheduleLeavesWaiting
  <2>4. Due(u, "adjtime", Rest(u)) /\ q.adj_time_pending /\ q.intenable => q.inSrvcIo
    BY <1>3, <1>4, <2>2, ScheduleWaits
  <2> HIDE DEF q
  <2>5. /\ s' \in SchedState /\ s'.sched = q.sched /\ s'.schedule_event = q.schedule_event
        /\ SameDisplay(s', q) /\ SameTime(s', q)
        /\ s'.instructions = q.instructions /\ s'.old_sched_instr = q.old_sched_instr
    <3>1. (in.irq = "key") \in BOOLEAN
      OBVIOUS
    <3> QED BY <2>1, <2>3, <3>1, InterruptedKeeps, InterruptKeeps DEF q
  <2>6. Waiting(s')
    BY <2>3, <2>5 DEF Waiting, Shown, SameDisplay, Rest
  <2>7. s'.display_touched = 0 /\ s'.stale =>
                /\ t.stale
                /\ \/ t.display_touched = 0
                   \/ /\ t.device_check
                      /\ t.display_touched = Rest(t) + 1 /\ t.sched["display"] <= Rest(t) + 1
    BY <1>3, <1>4, <2>3, <2>5 DEF Overrun, SameDisplay
  <2>8. t.sched["adjtime"] = 0 => (s'.adj_time_pending /\ s'.intenable => s'.inSrvcIo)
    BY <1>3, <1>4, <2>4, <2>5 DEF Due, SameTime
  <2> QED BY <2>6, <2>7, <2>8
<1> QED BY <1>6, <1>7

----------------------------------------------------------------------------
(* The instructions, before what is behind them.                           *)

\* t leaves the display, or writes to it, or has drawn what waited to be drawn.
Draws(t) ==
    \/ SameDisplay(t, s) /\ t.schedule_event \in {s.schedule_event, 0}
    \/ /\ t.device_check /\ t.schedule_event = 0
       /\ t.display_touched \in {s.display_touched, DISP_INSTR_OFF}
    \/ /\ t.device_check = s.device_check /\ t.schedule_event = s.schedule_event
       /\ t.display_touched = 0 /\ t.stale = (s.stale /\ s.display_touched = 0)

Instr(t) ==
    /\ t \in SchedState /\ t.sched["display"] = s.sched["display"]
    /\ t.sched["timer2"] = s.sched["timer2"]
    /\ t.instructions = s.instructions /\ t.old_sched_instr = s.old_sched_instr
    /\ t.schedule_event = 0 \/ (t.schedule_event = s.schedule_event /\ t.sched = s.sched)
    /\ Draws(t)

LEMMA RtiIs ==
    ASSUME s \in SchedState, Rti
    PROVE  \E t : /\ Behind(t, {}) /\ Instr(t)
                  /\ s.adj_time_pending => t.schedule_event = 0 /\ t.sched["adjtime"] = 0
<1>1. PICK b \in BOOLEAN : Behind(do_return_interupt([s EXCEPT !.inSrvcIo = b]), {})
  BY DEF Rti
<1> DEFINE r == [s EXCEPT !.inSrvcIo = b]
           t == do_return_interupt(r)
<1>2. Behind(t, {})
  BY <1>1
<1>3. /\ r \in SchedState /\ r.sched = s.sched /\ r.schedule_event = s.schedule_event
      /\ r.instructions = s.instructions /\ r.old_sched_instr = s.old_sched_instr
      /\ SameDisplay(r, s) /\ r.adj_time_pending = s.adj_time_pending
  BY DEF SchedState, SameDisplay
<1> HIDE DEF r
<1>4. CASE ~s.adj_time_pending
  <2>1. t = [r EXCEPT !.intenable = TRUE]
    BY <1>3, <1>4 DEF do_return_interupt
  <2>2. Instr(t)
    BY <1>3, <2>1 DEF SchedState, SameDisplay, Instr, Draws
  <2> QED BY <1>2, <1>4, <2>2
<1>5. CASE s.adj_time_pending
  <2> DEFINE sc == [r.sched EXCEPT !["adjtime"] = 0]
             o == [r EXCEPT !.intenable = TRUE]
             e == [o EXCEPT !.schedule_event = 0]
  <2>1. t = [e EXCEPT !.sched = sc]
    BY <1>3, <1>5 DEF do_return_interupt, SchedState
  <2> HIDE DEF t
  <2>2. r.sched \in [Countdown -> Int]
    BY <1>3 DEF SchedState
  <2>3. /\ sc \in [Countdown -> Int] /\ sc["display"] = s.sched["display"]
        /\ sc["timer2"] = s.sched["timer2"] /\ sc["adjtime"] = 0
    BY <1>3, <2>2 DEF Countdown
  <2> HIDE DEF sc
  <2>4. /\ o \in SchedState /\ SameDisplay(o, s)
        /\ o.instructions = s.instructions /\ o.old_sched_instr = s.old_sched_instr
    BY <1>3 DEF SchedState, SameDisplay
  <2> HIDE DEF o
  <2>5. /\ e \in SchedState /\ SameDisplay(e, s) /\ e.schedule_event = 0
        /\ e.instructions = s.instructions /\ e.old_sched_instr = s.old_sched_instr
    BY <2>3, <2>4 DEF SchedState, SameDisplay
  <2> HIDE DEF e
  <2>6. /\ t \in SchedState /\ t.schedule_event = 0 /\ t.sched = sc
        /\ t.instructions = s.instructions /\ t.old_sched_instr = s.old_sched_instr
    BY <2>1, <2>3, <2>5 DEF SchedState
  <2>7. SameDisplay(t, s)
    BY <2>1, <2>3, <2>5, <2>6 DEF SchedState, SameDisplay
  <2>8. Instr(t)
    BY <2>3, <2>6, <2>7 DEF Instr, Draws
  <2> QED BY <1>2, <2>3, <2>6, <2>8 DEF t
<1> QED BY <1>4, <1>5

LEMMA WriteIs ==
    ASSUME s \in SchedState, NEW display \in BOOLEAN
    PROVE  Instr(write_dev_mem(s, display))
<1> DEFINE t == write_dev_mem(s, display)
           left == IF display THEN DISP_INSTR_OFF ELSE s.display_touched
           st == s.stale \/ display
           o == [s EXCEPT !.device_check = TRUE]
           e == [o EXCEPT !.schedule_event = 0]
           f == [e EXCEPT !.display_touched = left]
<1>1. left \in Int /\ left \in {s.display_touched, DISP_INSTR_OFF} /\ st \in BOOLEAN
  BY ScheduleAssumption DEF SchedState
<1>2. t = [f EXCEPT !.stale = st]
  BY DEF write_dev_mem, SchedState
<1>3. o \in SchedState /\ o.sched = s.sched /\ o.device_check
      /\ o.instructions = s.instructions /\ o.old_sched_instr = s.old_sched_instr
  BY DEF SchedState
<1> HIDE DEF o, left, st, t
<1>4. e \in SchedState /\ e.sched = s.sched /\ e.schedule_event = 0 /\ e.device_check
      /\ e.instructions = s.instructions /\ e.old_sched_instr = s.old_sched_instr
  BY <1>3 DEF SchedState
<1> HIDE DEF e
<1>5. f \in SchedState /\ f.sched = s.sched /\ f.schedule_event = 0 /\ f.device_check
      /\ f.display_touched = left
      /\ f.instructions = s.instructions /\ f.old_sched_instr = s.old_sched_instr
  BY <1>1, <1>4 DEF SchedState
<1> HIDE DEF f
<1>6. /\ t \in SchedState /\ t.sched = s.sched /\ t.schedule_event = 0 /\ t.device_check
      /\ t.display_touched = left
      /\ t.instructions = s.instructions /\ t.old_sched_instr = s.old_sched_instr
  BY <1>1, <1>2, <1>5 DEF SchedState
<1> QED BY <1>1, <1>6 DEF Instr, Draws, t

LEMMA ShutdownIs ==
    ASSUME s \in SchedState, NEW z \in BOOLEAN, NEW irq \in BOOLEAN,
           NEW tick \in Slowed(s.t2_tick)
    PROVE  Instr(Interrupted(do_shutdown(s, z, tick), irq))
<1> DEFINE st == s.stale /\ s.display_touched = 0
           ie == s.intenable \/ z
           o == [s EXCEPT !.display_touched = 0]
           e == [o EXCEPT !.stale = st]
           f == [e EXCEPT !.intenable = ie]
           r == do_shutdown(s, z, tick)
           t == Interrupted(r, irq)
<1>0. tick \in Ticks2
  BY SlowedAreTicks DEF SchedState
<1>1. r = [f EXCEPT !.t2_tick = tick]
  BY DEF do_shutdown, SchedState
<1>2. ie \in BOOLEAN /\ st \in BOOLEAN
  <2>1. s.intenable \in BOOLEAN
    BY DEF SchedState
  <2> QED BY <2>1
<1>3. /\ o \in SchedState /\ o.sched = s.sched /\ o.schedule_event = s.schedule_event
      /\ o.instructions = s.instructions /\ o.old_sched_instr = s.old_sched_instr
      /\ o.display_touched = 0 /\ o.device_check = s.device_check
  BY DEF SchedState
<1> HIDE DEF o, ie, r
<1>4. /\ e \in SchedState /\ e.sched = s.sched /\ e.schedule_event = s.schedule_event
      /\ e.instructions = s.instructions /\ e.old_sched_instr = s.old_sched_instr
      /\ e.display_touched = 0 /\ e.device_check = s.device_check /\ e.stale = st
  <2> HIDE DEF st
  <2> QED BY <1>2, <1>3 DEF SchedState
<1> HIDE DEF e
<1>8. /\ f \in SchedState /\ f.sched = s.sched /\ f.schedule_event = s.schedule_event
      /\ f.instructions = s.instructions /\ f.old_sched_instr = s.old_sched_instr
      /\ f.display_touched = 0 /\ f.device_check = s.device_check /\ f.stale = st
  <2> HIDE DEF st
  <2> QED BY <1>2, <1>4 DEF SchedState
<1> HIDE DEF f
<1>5. /\ r \in SchedState /\ r.sched = s.sched /\ r.schedule_event = s.schedule_event
      /\ r.instructions = s.instructions /\ r.old_sched_instr = s.old_sched_instr
      /\ r.display_touched = 0 /\ r.device_check = s.device_check /\ r.stale = st
  <2> HIDE DEF st
  <2> QED BY <1>0, <1>1, <1>8 DEF SchedState
<1>6. /\ t \in SchedState /\ t.sched = s.sched /\ t.schedule_event = s.schedule_event
      /\ t.instructions = s.instructions /\ t.old_sched_instr = s.old_sched_instr
      /\ SameDisplay(t, r)
  BY <1>5, InterruptedKeeps, InterruptKeeps
<1> HIDE DEF t
<1>7. /\ t.display_touched = 0 /\ t.device_check = s.device_check /\ t.stale = st
  BY <1>5, <1>6 DEF SameDisplay
<1> QED BY <1>6, <1>7 DEF Instr, Draws, t, r

LEMMA EmulateIs ==
    ASSUME s \in SchedState, Emulate
    PROVE  \E t, touched : Behind(t, touched) /\ Instr(t)
<1>1. CASE Compute
  <2>1. PICK b \in BOOLEAN : Behind([s EXCEPT !.inSrvcIo = b], {})
    BY <1>1 DEF Compute
  <2> DEFINE t == [s EXCEPT !.inSrvcIo = b]
  <2>2. Instr(t)
    BY DEF SchedState, SameDisplay, Instr, Draws
  <2> QED BY <2>1, <2>2
<1>2. CASE RequestInterrupt
  <2> DEFINE t == Interrupted(s, TRUE)
  <2>1. Behind(t, {})
    BY <1>2 DEF RequestInterrupt
  <2>2. Instr(t)
    BY InterruptedKeeps, InterruptKeeps DEF Instr, Draws
  <2> QED BY <2>1, <2>2
<1>3. CASE Rti
  BY <1>3, RtiIs
<1>4. CASE WriteDisplay
  BY <1>4, WriteIs DEF WriteDisplay
<1>5. CASE WriteDevice
  BY <1>5, WriteIs DEF WriteDevice
<1>6. CASE Shutdn
  BY <1>6, ShutdownIs DEF Shutdn
<1> QED BY <1>1, <1>2, <1>3, <1>4, <1>5, <1>6 DEF Emulate

LEMMA InstrIsReady ==
    ASSUME IInv, Waiting(s), NEW t, Instr(t)
    PROVE  Ready(t) /\ Shown(t) /\ (t.schedule_event > 0 => Waiting(t))
<1>1. s \in SchedState /\ t \in SchedState
  BY DEF IInv, Instr
<1>2. Ready(t)
  <2>1. CASE t.schedule_event = 0
    BY <2>1, NowIsReady DEF Instr
  <2>2. CASE t.schedule_event = s.schedule_event /\ t.sched = s.sched
    BY <2>2, SameIsReady DEF Instr
  <2> QED BY <2>1, <2>2 DEF Instr
<1>3. DISP_INSTR_OFF \in Nat /\ t.sched["display"] = s.sched["display"] /\ Rest(t) = Rest(s)
      /\ s.display_touched \in 0 .. DISP_INSTR_OFF
  BY ScheduleAssumption DEF Instr, Rest, Waiting, Shown
<1>4. CASE SameDisplay(t, s) /\ t.schedule_event \in {s.schedule_event, 0}
  BY <1>2, <1>3, <1>4 DEF Waiting, Shown, SameDisplay
<1>5. CASE /\ t.device_check /\ t.schedule_event = 0
           /\ t.display_touched \in {s.display_touched, DISP_INSTR_OFF}
  BY <1>2, <1>3, <1>5 DEF Shown
<1>6. CASE /\ t.device_check = s.device_check /\ t.schedule_event = s.schedule_event
           /\ t.display_touched = 0
  BY <1>2, <1>3, <1>6 DEF Waiting, Shown
<1> QED BY <1>4, <1>5, <1>6 DEF Instr, Draws

----------------------------------------------------------------------------
(* The wait for a redraw, as an invariant, and what it shows of each step. *)

Steady == IInv /\ Waiting(s)

LEMMA InitSteady == Init => Steady
<1> SUFFICES ASSUME Init PROVE Waiting(s)
  BY InitIInv DEF Steady
<1>1. PICK t1 \in Int, t2 \in Ticks2 : s = InitSched(t1, t2)
  BY InitTicks
<1>2. s.display_touched = 1 /\ s.device_check = FALSE /\ s.sched["display"] = SCHED_NEVER
  BY <1>1 DEF InitSched
<1>3. 1 \in 0 .. DISP_INSTR_OFF
  BY ScheduleAssumption
<1> QED BY <1>2, <1>3 DEF Waiting, Shown

LEMMA NextSteady == Steady /\ [Next]_vars => Steady'
<1> SUFFICES ASSUME Steady, [Next]_vars PROVE Waiting(s')
  BY NextIInv DEF Steady
<1>1. IInv /\ Waiting(s) /\ s \in SchedState
  BY DEF Steady, IInv
<1>2. CASE Emulate
  <2>1. PICK t, touched : Behind(t, touched) /\ Instr(t)
    BY <1>1, <1>2, EmulateIs
  <2>2. Ready(t) /\ Shown(t) /\ (t.schedule_event > 0 => Waiting(t))
    BY <1>1, <2>1, InstrIsReady
  <2> QED BY <2>1, <2>2, BehindWaits
<1>3. CASE SIGALRM \/ DrawingEnds \/ UNCHANGED vars
  <2>1. s' = s
    BY <1>3 DEF SIGALRM, DrawingEnds, vars
  <2> QED BY <1>1, <2>1
<1> QED BY <1>2, <1>3 DEF Next

LEMMA LostStep ==
    ASSUME Steady, [Next]_vars, s.display_touched > 0, s'.display_touched = 0, s'.stale
    PROVE  s.schedule_event < 0 /\ s.sched.display <= 0
<1>1. IInv /\ Waiting(s) /\ Shown(s) /\ s \in SchedState
  BY DEF Steady, IInv, Waiting
<1>2. CASE Emulate
  <2>1. PICK t, touched : Behind(t, touched) /\ Instr(t)
    BY <1>1, <1>2, EmulateIs
  <2>2. Ready(t) /\ Shown(t) /\ (t.schedule_event > 0 => Waiting(t))
    BY <1>1, <2>1, InstrIsReady
  <2>3. /\ t.stale
        /\ \/ t.display_touched = 0
           \/ /\ t.device_check
              /\ t.display_touched = Rest(t) + 1 /\ t.sched["display"] <= Rest(t) + 1
    BY <2>1, <2>2, BehindWaits
  <2>4. /\ DISP_INSTR_OFF \in Nat \ {0} /\ SCHED_NEVER \in Nat /\ DISP_INSTR_OFF < SCHED_NEVER
        /\ s.display_touched \in Int /\ s.schedule_event \in Int /\ s.sched["display"] \in Int
        /\ Rest(s) \in Int /\ (s.schedule_event < 0 => Rest(s) = 0)
        /\ Rest(t) = Rest(s) /\ t.sched["display"] = s.sched["display"]
    BY <1>1, <2>1, ScheduleAssumption DEF IInv, SpacedFrom, Instr, Rest, SchedState, Countdown
  <2>5. t.display_touched \in {s.display_touched, DISP_INSTR_OFF}
    <3>1. CASE SameDisplay(t, s)
      BY <3>1 DEF SameDisplay
    <3>2. CASE t.stale = (s.stale /\ s.display_touched = 0)
      <4>1. s.display_touched # 0
        BY <2>4
      <4>2. ~t.stale
        BY <3>2, <4>1
      <4> QED BY <2>3, <4>2
    <3> QED BY <2>1, <3>1, <3>2 DEF Instr, Draws
  <2>6. t.display_touched = Rest(s) + 1 /\ s.sched["display"] <= Rest(s) + 1
    BY <2>3, <2>4, <2>5
  <2>7. CASE s.device_check
    <3>1. /\ s.sched["display"] < DISP_INSTR_OFF
          /\ Rest(s) + s.schedule_event + 1 <= s.sched["display"]
          /\ s.display_touched = s.sched["display"] + 1
      BY <1>1, <2>7 DEF Waiting
    <3> QED BY <2>4, <2>5, <2>6, <3>1
  <2>8. CASE ~s.device_check
    <3>1. s.sched["display"] = SCHED_NEVER /\ s.display_touched <= 1
      BY <1>1, <2>8 DEF Shown
    <3> QED BY <2>4, <2>5, <2>6, <3>1
  <2> QED BY <2>7, <2>8
<1>3. CASE SIGALRM \/ DrawingEnds \/ UNCHANGED vars
  <2>1. s' = s
    BY <1>3 DEF SIGALRM, DrawingEnds, vars
  <2> QED BY <2>1
<1> QED BY <1>2, <1>3 DEF Next

LEMMA AdjustStep ==
    ASSUME Steady, s.adj_time_pending, s'.adj_time_pending, s'.intenable, Rti
    PROVE  s'.inSrvcIo
<1>1. IInv /\ Waiting(s) /\ s \in SchedState
  BY DEF Steady, IInv
<1>2. PICK t : Behind(t, {}) /\ Instr(t) /\ t.schedule_event = 0 /\ t.sched["adjtime"] = 0
  BY <1>1, RtiIs
<1>3. Ready(t) /\ Shown(t) /\ (t.schedule_event > 0 => Waiting(t))
  BY <1>1, <1>2, InstrIsReady
<1> QED BY <1>2, <1>3, BehindWaits

\* The wait for a redraw ends with the redraw, for every period: a change is left off the
\* screen only in a call of schedule behind its time, when the redraw was due already
\* (emulate.c, schedule and its "bug"; device.c, check_devices).
THEOREM ScreensAreLostOnlyBehind == Spec => LostOnlyBehind
<1>1. Steady /\ [Next]_vars
        => [s.display_touched > 0 /\ s'.display_touched = 0 /\ s'.stale
            => s.schedule_event < 0 /\ s.sched.display <= 0]_vars
  BY LostStep
<1> QED BY <1>1, InitSteady, NextSteady, PTL DEF Spec, LostOnlyBehind

\* A time adjustment that waits for an I/O service to end is made at the very RTI that ends
\* it, however the countdowns stand (emulate.c, do_return_interupt and schedule).
THEOREM AdjustmentsAreMadeUpFor == Spec => AdjustedAfterRti
<1>1. Steady /\ [Next]_vars
        => [s.adj_time_pending /\ s'.adj_time_pending /\ s'.intenable
            => s'.inSrvcIo \/ ~Rti]_vars
  BY AdjustStep
<1> QED BY <1>1, InitSteady, NextSteady, PTL DEF Spec, AdjustedAfterRti
=============================================================================
