SPECIFICATION Spec
CONSTANTS
  Posters = {p1, p2}
  MaxEvents = 3
  MaxDepth = 3
  MaxSignals = 2
  WakeRead = 2
\* A loop without timers sleeps when nobody posts to it.
CHECK_DEADLOCK FALSE
INVARIANTS TypeOK NoLostWakeup
PROPERTIES EventsHandled DeliversInOrder LoopsReturn
