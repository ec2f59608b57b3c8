CONSTANTS
    Nodes <- MCNodes
    Alarms <- MCAlarms
    Interval <- MCInterval
    n1 = n1
    n2 = n2
    n3 = n3
    a1 = a1
    a2 = a2
    a3 = a3
    NoAlarm = NoAlarm
    Nil = Nil
    Modes = {"SYNC"}
SPECIFICATION Spec
INVARIANT NoRunOnEmptyList
