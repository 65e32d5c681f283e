SPECIFICATION WTSpec
CONSTANTS
    Clients = {c1, c2}
    MaxTasks = 3
CHECK_DEADLOCK FALSE
INVARIANTS WTTypeOK OneTaskAtATime ErrorAccounted
PROPERTIES WaitMeansDone CallsReturn
