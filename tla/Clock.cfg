SPECIFICATION ClockSpec
CONSTANTS
    Half = 6
    Longs = {36}
    Boot = {34}
    unix_0_time = 181
    HALF_MINUTE = 1
    SIGN = 5
    Timeout = {3}
    Setting <- MCSetting
    MaxSetting = 38
    Ends = {36}
    MaxWait = 2
    MaxBelow = 2
    MaxSettings = 1
INVARIANT TimersAddUp
PROPERTIES UserAdjusts NeverRunsBack ShowsTheTime
CHECK_DEADLOCK FALSE
