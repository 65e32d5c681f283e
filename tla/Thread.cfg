SPECIFICATION ThreadSpec
CONSTANT Threads = {t1, t2}
\* Nothing is left to do once every owner has let go of its thread.
CHECK_DEADLOCK FALSE
INVARIANTS ThreadTypeOK NoVerifyFailure DestroyedAfterExit LeakedOnlyBySelfJoin
PROPERTIES ThreadsReaped
