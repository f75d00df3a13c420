SPECIFICATION ClockSpec
CONSTANTS
    Half = 6
    Longs = {1296}
    Boot = {34}
    unix_0_time = 190
    HALF_MINUTE = 1
    SIGN = 5
    Timeout = {3}
    Setting <- MCSetting
    MaxSetting = 38
    Ends = {36}
    MaxWait = 2
    MaxBelow = 2
    MaxSettings = 1
PROPERTY OnlyTheUserAdjusts
CHECK_DEADLOCK FALSE
