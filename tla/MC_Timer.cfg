CONSTANTS
    Nodes <- MCNodes
    Alarms <- MCAlarms
    Interval <- MCInterval
    Modes <- MCModes
    n1 = n1
    n2 = n2
    n3 = n3
    a1 = a1
    a2 = a2
    a3 = a3
    NoAlarm = NoAlarm
    Nil = Nil
SPECIFICATION Spec
\* A SIGALRM delivered when the list is empty ends the process (null
\* dereference in run, see MC_Timer_empty_run.cfg): the model stops there.
CHECK_DEADLOCK FALSE
INVARIANTS
    TypeOK
    NodeOwnership
    Sorted
    ItemIsFirst
PROPERTIES
    DueAlarmEventuallyRun
    AbsSafety
    SetTimerArmsNonEmpty
