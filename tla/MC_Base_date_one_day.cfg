CONSTANTS
    VCalls <- OneDayCalls
    SCalls = {}
    NCalls = {}
    HCalls = {}
    f1 = f1
    f2 = f2
    f3 = f3
    Null = Null
    NumFns = 32
SPECIFICATION Spec
\* A call that returned, and u_exit, leave the model with no next step.
CHECK_DEADLOCK FALSE
INVARIANTS
    DateFieldMatchesStrftime
