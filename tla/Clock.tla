------------------------------- MODULE Clock -------------------------------
(***************************************************************************)
(* The clock of the calculator against that of the phone (timer.c, and its *)
(* callers in emulate.c and actions.c).  Timer 2 counts down to the time   *)
(* the program keeps in ACCESSTIME, so that ACCESSTIME - timer2 is the     *)
(* time it shows.  While instructions run, timer 2 is counted by their     *)
(* number; get_t1_t2 corrects it by the phone's clock, and takes a large   *)
(* difference for the user's setting the time.                             *)
(*                                                                         *)
(* Ticks are of 1/8192 s.  Timer 2 is taken to run (bit 0 of t2_ctrl).     *)
(* Timer 1, which has four bits, and t2_tick, which get_t1_t2 counts up    *)
(* when timer 2 is ahead (Schedule's in.slow), are left out.               *)
(***************************************************************************)
EXTENDS Word64

CONSTANTS
    Longs,          \* the widths of a long: subset of {W, W * W}
    Boot,           \* when the emulator may be started
    unix_0_time,    \* ticks before 1.1.1970
    HALF_MINUTE,    \* 0x3c000
    SIGN,           \* 0x8000000, the bit of adj_time.hi that is asked for its sign
    Timeout,        \* what the program sets timer 2 to
    Setting,        \* by how much the user sets the time: subset of
    MaxSetting,     \* -MaxSetting .. MaxSetting
    Ends,           \* bound: when time stops going by
    MaxWait,        \* bound on the time that goes by without a correction
    MaxBelow,       \* bound on how far timer 2 goes below 0 before the program sets it
    MaxSettings     \* bound on the user's settings

ASSUME ClockAssumption ==
    /\ Longs \subseteq {W, W * W} /\ Half % 2 = 0
    /\ HALF_MINUTE \in 1 .. W - 1 /\ SIGN \in 1 .. W - 1 /\ ((W - 1) \div SIGN) % 2 = 1
    /\ Timeout \subseteq 1 .. W \div 2 - HALF_MINUTE - 1
    /\ MaxSetting \in Nat /\ Setting \subseteq -MaxSetting .. MaxSetting
    /\ \A d \in Setting : d > HALF_MINUTE \/ d < -HALF_MINUTE
    /\ MaxWait \in Nat /\ MaxBelow \in Nat /\ MaxSettings \in Nat
    /\ MaxWait + MaxBelow + HALF_MINUTE <= W \div 2   \* timer 2 is set before it has run through

\* The calendar reaches back and on far enough for all the user sets, and 64 bits suffice.
Reach == MaxSettings * (MaxSetting + 2 * W) + W

ASSUME CalendarAssumption ==
    /\ Boot \subseteq Nat /\ unix_0_time \in Nat /\ unix_0_time >= Reach
    /\ \A b \in Boot : \E e \in Ends :
         /\ e \in b .. W * W
         /\ 2 * (unix_0_time + e + 2 * Reach) < W * W

VARIABLES
    long,           \* values of an unsigned long in this build
    now,            \* the phone's clock, in ticks since 1970
    timer2,         \* saturn.timer2
    accesstime,     \* the 13 nibbles at ACCESSTIME, as a number
    set_0_time, time_offset,
    inSrvcIo,       \* is PC in the I/O service routine?
    moved,          \* by how much it has moved timer 2, and not yet ACCESSTIME
    adj_time_pending,
    timers,         \* RUN_TIMER and IDLE_TIMER
    asleep,         \* in do_shutdown
    waited,         \* history: ticks since timer 2 was last corrected
    setting,        \* history: has the user set the time, and no correction looked for it?
    settings,       \* how often he has
    spent           \* history: ticks awake and asleep

clock == <<long, now, timer2, accesstime, set_0_time, time_offset, inSrvcIo, moved,
           adj_time_pending, timers, asleep, waited, setting, settings, spent>>

----------------------------------------------------------------------------
(* The timers that measure real time.                                      *)

Timers == {"RUN", "IDLE"}
Reset == [run |-> FALSE, start |-> Zero, value |-> Zero]

\* Mutant: the part of the time that is added stays to be added once more.
CountedOn(L, t, stop) == [t EXCEPT !.value = add_64(L, sub_64(L, t.start, stop), @)]

\* add_sub_64
Counted(L, t, stop) ==
    [t EXCEPT !.value = add_64(L, sub_64(L, t.start, stop), @), !.start = stop]

start_timer(t) == IF t.run THEN t ELSE [t EXCEPT !.run = TRUE, !.start = Word(long, now)]
stop_timer(t) ==
    IF t.run THEN [Counted(long, t, Word(long, now)) EXCEPT !.run = FALSE] ELSE t
get_timer(t) == IF t.run THEN Counted(long, t, Word(long, now)) ELSE t

----------------------------------------------------------------------------
(* ACCESSTIME.                                                             *)

\* What is written nibble by nibble, hi being shifted into lo from above: there it meets
\* what lo holds beyond 32 bits, a carry at most.
Written(w) ==
    LET hi == w.hi % W
    IN  (w.lo % W) + W * (IF w.lo \div W # 0 /\ hi % 2 = 0 THEN hi + 1 ELSE hi)

set_accesstime(t2, offset) ==
    Written(add_64(long, SignExtended(long, t2), add_64(long, offset, Word(long, now))))

----------------------------------------------------------------------------
(* get_t1_t2                                                               *)

Size(L, adj) == IF (adj.hi \div SIGN) % 2 = 1 THEN sub_64(L, adj, Zero) ELSE adj

\* Mutant: timer 2 is corrected whether it is behind or ahead.
AlwaysBehind(t2, access) == TRUE

\* "check OK": timer 2 has further to go than there is time.
IsBehind(t2, access) ==
    \/ t2 >= 0 /\ (access.lo \div (W \div 2)) % 2 = 1
    \/ t2 % long > access.lo

get_t1_t2 ==
    LET stop == add_64(long, time_offset, Word(long, now))
        access == sub_64(long, stop, Word(long, accesstime))
        adj == sub_64(long, SignExtended(long, timer2), access)
        delta == Size(long, adj)
        adjusts == ~adj_time_pending /\ (delta.hi # 0 \/ delta.lo > HALF_MINUTE)
        left == IF adjusts THEN sub_64(long, adj, access) ELSE access
    IN  [t2 |-> IF IsBehind(timer2, left) THEN Signed(left.lo, long) ELSE timer2,
         adj_time |-> IF adjusts THEN adj ELSE Zero]

\* Timer 2 is given what get_t1_t2 says.
Corrected ==
    LET r == get_t1_t2
    IN  /\ timer2' = r.t2
        /\ set_0_time' = add_64(long, r.adj_time, set_0_time)
        /\ time_offset' = add_64(long, r.adj_time, time_offset)
        /\ waited' = 0 /\ setting' = (setting /\ adj_time_pending)

----------------------------------------------------------------------------
(* The specification.                                                      *)

\* emulate, before its loop, in a new process with timer 2 read from a file.
ClockInit ==
    /\ long \in Longs /\ now \in Boot
    /\ timer2 \in Timeout \cup {-t : t \in Timeout}
    /\ set_0_time = Zero
    /\ time_offset = add_64(long, Zero, Word(long, unix_0_time))
    /\ accesstime = set_accesstime(timer2, time_offset)
    /\ inSrvcIo = FALSE /\ moved = 0 /\ adj_time_pending = FALSE /\ asleep = FALSE
    /\ timers = [t \in Timers |-> IF t = "RUN" THEN start_timer(Reset) ELSE Reset]
    /\ waited = 0 /\ setting = FALSE /\ settings = 0
    /\ spent = [t \in Timers |-> 0]

\* emulate once more in the same process.
Restart ==
    /\ ~inSrvcIo /\ ~asleep
    /\ time_offset' = add_64(long, set_0_time, Word(long, unix_0_time))
    /\ accesstime' = set_accesstime(timer2, time_offset')
    /\ timers' = [t \in Timers |-> IF t = "RUN" THEN start_timer(Reset) ELSE Reset]
    /\ waited' = 0 /\ setting' = FALSE /\ spent' = [t \in Timers |-> 0]
    /\ UNCHANGED <<long, now, timer2, set_0_time, inSrvcIo, moved, adj_time_pending,
                   asleep, settings>>

TimePasses ==
    /\ now \notin Ends /\ waited < MaxWait /\ timer2 > -MaxBelow
    /\ now' = now + 1 /\ waited' = waited + 1
    /\ spent' = [spent EXCEPT ![IF asleep THEN "IDLE" ELSE "RUN"] = @ + 1]
    /\ UNCHANGED <<long, timer2, accesstime, set_0_time, time_offset, inSrvcIo, moved,
                   adj_time_pending, timers, asleep, setting, settings>>

\* What the program shows, and by how much it is ahead of the phone.
Shown == accesstime + moved - timer2
Offset == Signed(Number(set_0_time), W * W)
Lead == Shown - (unix_0_time + now + Offset)

\* schedule counts timer 2, not half a minute ahead: at 0x1ffe instructions per correction
\* that would take hundreds of them, each of which slows timer 2 down.
Count ==
    /\ ~asleep /\ Lead < HALF_MINUTE /\ timer2 > -MaxBelow
    /\ timer2' = timer2 - 1
    /\ UNCHANGED <<long, now, accesstime, set_0_time, time_offset, inSrvcIo, moved,
                   adj_time_pending, timers, asleep, waited, setting, settings, spent>>

\* Mutant: time is corrected in the middle of the I/O service, too.
AdjtimeAnywhere ==
    /\ ~asleep
    /\ Corrected /\ adj_time_pending' = FALSE
    /\ UNCHANGED <<long, now, accesstime, inSrvcIo, moved, timers, asleep, settings, spent>>

\* schedule, when sched_adjtime is due.
Adjtime ==
    /\ ~asleep
    /\ IF inSrvcIo
       THEN /\ adj_time_pending' = TRUE
            /\ UNCHANGED <<timer2, set_0_time, time_offset, waited, setting>>
       ELSE Corrected /\ adj_time_pending' = FALSE
    /\ UNCHANGED <<long, now, accesstime, inSrvcIo, moved, timers, asleep, settings, spent>>

\* schedule, when sched_statistics is due.
Statistics ==
    /\ ~asleep
    /\ timers' = [timers EXCEPT !.RUN = get_timer(@)]
    /\ UNCHANGED <<long, now, timer2, accesstime, set_0_time, time_offset, inSrvcIo, moved,
                   adj_time_pending, asleep, waited, setting, settings, spent>>

\* schedule, when sched_instr_rollover is due.
Rollover ==
    /\ ~asleep
    /\ timers' = [RUN |-> start_timer(Reset), IDLE |-> Reset]
    /\ spent' = [t \in Timers |-> 0]
    /\ UNCHANGED <<long, now, timer2, accesstime, set_0_time, time_offset, inSrvcIo, moved,
                   adj_time_pending, asleep, waited, setting, settings>>

\* do_shutdown: its beginning, an alarm in it, and its end.
Sleep ==
    /\ ~asleep /\ ~inSrvcIo
    /\ asleep' = TRUE
    /\ timers' = [RUN |-> stop_timer(timers.RUN), IDLE |-> start_timer(timers.IDLE)]
    /\ UNCHANGED <<long, now, timer2, accesstime, set_0_time, time_offset, inSrvcIo, moved,
                   adj_time_pending, waited, setting, settings, spent>>

Alarm ==
    /\ asleep
    /\ Corrected
    /\ UNCHANGED <<long, now, accesstime, inSrvcIo, moved, adj_time_pending, timers, asleep,
                   settings, spent>>

Wake ==
    /\ asleep
    /\ asleep' = FALSE
    /\ timers' = [RUN |-> start_timer(timers.RUN), IDLE |-> stop_timer(timers.IDLE)]
    /\ UNCHANGED <<long, now, timer2, accesstime, set_0_time, time_offset, inSrvcIo, moved,
                   adj_time_pending, waited, setting, settings, spent>>

\* The program's I/O service gives timer 2 a new timeout and moves ACCESSTIME with it.
BeginService(t) ==
    /\ ~asleep /\ ~inSrvcIo
    /\ inSrvcIo' = TRUE
    /\ timer2' = t /\ moved' = t - timer2
    /\ UNCHANGED <<long, now, accesstime, set_0_time, time_offset, adj_time_pending, timers,
                   asleep, waited, setting, settings, spent>>

EndService ==
    /\ inSrvcIo
    /\ inSrvcIo' = FALSE
    /\ accesstime' = accesstime + moved /\ moved' = 0
    /\ UNCHANGED <<long, now, timer2, set_0_time, time_offset, adj_time_pending, timers,
                   asleep, waited, setting, settings, spent>>

\* The user sets the time, while timer 2 is one the program has set: a correction that is put
\* off and then meets a setting it cannot count may leave any other.
SetTime(d) ==
    /\ ~asleep /\ ~inSrvcIo /\ ~adj_time_pending /\ settings < MaxSettings
    /\ timer2 >= -(MaxBelow + MaxWait) /\ \E t \in Timeout : timer2 <= t
    /\ accesstime' = accesstime + d
    /\ setting' = TRUE /\ settings' = settings + 1
    /\ UNCHANGED <<long, now, timer2, set_0_time, time_offset, inSrvcIo, moved,
                   adj_time_pending, timers, asleep, waited, spent>>

ClockNext ==
    \/ TimePasses \/ Count \/ Adjtime \/ Statistics \/ Rollover
    \/ Sleep \/ Alarm \/ Wake \/ Restart \/ EndService
    \/ \E t \in Timeout : BeginService(t)
    \/ \E d \in Setting : SetTime(d)

ClockSpec == ClockInit /\ [][ClockNext]_clock

----------------------------------------------------------------------------
(* Properties.                                                             *)

\* The calculator's time is moved against the phone's only when the user has set it, or when
\* no correction came for half a minute (onPause stops the alarms of a processor that
\* sleeps): below that, a lag is made up for.
UserAdjusts ==
    [][set_0_time' # set_0_time => setting \/ waited > HALF_MINUTE]_clock

\* The same of a timer 2 that has not run out, "Half a minute" and "Time adjustment from
\* User" (timer.c).  Not so where longs have 64 bits: the size of a negative difference keeps
\* the borrow in its upper bits, which are no part of the number, and any lag is taken for
\* the user's setting.
OnlyTheUserAdjusts ==
    [][set_0_time' # set_0_time => setting \/ waited > HALF_MINUTE \/ timer2 < 0]_clock

\* The time shown never runs back while the emulator runs, unless the user sets it, though
\* it is put together from a counter, a number in memory and the phone's clock, of which one
\* changes at a time.  But a timer that was counted below 0 too early is put back to 0 or
\* above, because negative numbers are compared as large ones.
NeverRunsBack ==
    [][Shown' >= Shown \/ settings' # settings \/ Restart
          \/ (timer2 < 0 /\ timer2' >= 0)]_clock

\* At a start the time shown is the phone's, moved by what the user had set before; after a
\* correction it is not behind that, though one correction moves timer 2, one the offset, and
\* one is put off because the program is moving ACCESSTIME.  Only where what was put off is
\* the first to meet the user's setting, that stays for the next one.
ShowsTheTime ==
    [][/\ Restart => Lead' = 0
       /\ waited' = 0 /\ waited # 0 /\ ~setting' => Lead' >= 0]_clock

\* RUN_TIMER and IDLE_TIMER, read, stopped and started at any time, add up the time spent
\* awake and asleep, and count none of it twice.
TimersAddUp ==
    \A t \in Timers :
        spent[t] = Number(timers[t].value)
                   + IF timers[t].run THEN now - Number(timers[t].start) ELSE 0
=============================================================================
