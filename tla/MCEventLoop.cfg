SPECIFICATION Spec
CONSTANTS
    Timers = {reap, reconnect}
    Off = Off
    Delays <- MCDelays
    MaxSpend = 3
    MaxIdle = 3
    MaxStop = 2
    MaxLate = 4
    MsBits = 6
    IntBits = 4
INVARIANTS TypeOK SleepBounded
PROPERTIES TimersFire
