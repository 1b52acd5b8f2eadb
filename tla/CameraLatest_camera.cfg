SPECIFICATION Spec
CONSTANTS
    Requests = {q1, q2}
    Dial = dial
    Callers = {q1, q2, dial}
    NoCaller = NoCaller
    Count = 2
    MaxShots = 4
    MaxCalls = 3
    MaxFaults = 1
SYMMETRY MCSymmetry
INVARIANTS
    TypeOK
    RefusedTokenGoes
    AnswerComplete
    CacheTrimmed
CHECK_DEADLOCK FALSE
