CONSTANTS
    p1 = p1
    p2 = p2
    q1 = q1
    q2 = q2
    q3 = q3
    a1 = a1
    a2 = a2
    a3 = a3
    c1 = c1
    c2 = c2
    None = None
    Publishers <- MCPublishers
    Requests <- MCRequests
    Artifacts = {a1, a2, a3}
    Contents = {c1, c2}
    Artifact <- MCArtifact
    Content <- MCContent
    Passed = {q1, q2}
    Previous <- MCPrevious
    MaxFaults = 2
SPECIFICATION Spec
SYMMETRY Symmetry
INVARIANTS VersionsAreBacked ManifestsKeepTheirBlobs
