CONSTANTS
    q1 = q1
    q2 = q2
    q3 = q3
    q4 = q4
    q5 = q5
    r1 = r1
    r2 = r2
    k1 = k1
    k2 = k2
    k3 = k3
    x = x
    None = None
    Requests = {q1, q2, q3, q4, q5}
    Runs = {r1, r2}
    Keys = {k1, k2, k3}
    Inputs = {x}
    RunOf <- MCRunOf
    KeyOf <- MCKeyOf
    InputOf <- MCInputOf
    Mode <- MCMode
    Code <- MCCode
    Verdict <- MCVerdict
    Evidence <- MCEvidence
    AuditPolicy <- MCAuditPolicy
    MaxEvents = 3
    MaxFaults = 1
SPECIFICATION Spec
CHECK_DEADLOCK FALSE
INVARIANTS TaskFollowsExecution RecordsAreEarned FinalRunsAreSound
