SPECIFICATION TimerSpec
CONSTANTS
    Timers = {t1, t2}
    SingleShot = {t1}
    MaxInterval = 2
INVARIANTS TimersConsistent
PROPERTIES TimersFire EarlyOnlyByStaleEvent
