CONSTANTS
    SCHED_INSTR_ROLLOVER = 6
    SCHED_RECEIVE = 3
    SCHED_ADJTIME = 4
    SCHED_TIMER1 = 3
    SCHED_TIMER2 = 2
    SCHED_STATISTICS = 6
    SCHED_NEVER = 99
    DISP_INSTR_OFF = 4
    Measured = {3, 10}
    T2_PER_T1 = 8
    ShortValues = 16
    MaxT2Tick = 1
SPECIFICATION Spec
INVARIANT OnTime
PROPERTIES AdjustedAfterRti RedrawComes LostOnlyBehind
