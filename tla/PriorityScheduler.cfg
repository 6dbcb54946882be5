CONSTANTS
    Tx = {x1}
    Threads = {t1, t2}
SPECIFICATION SchedulerSpec
INVARIANT NoCircularWait
CHECK_DEADLOCK FALSE
