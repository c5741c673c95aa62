SPECIFICATION RepositorySpec
CONSTANTS
    s1 = s1
    s2 = s2
    v1 = v1
    Nothing = Nothing
    Clients = {c1, c2}
    Specs = {s1, s2}
    Semantics = {v1}
    SemanticOf <- MCSemanticOf
    Stamps = {t1, t2}
    MaxCrashes = 1
INVARIANTS RecordsAreBacked AuditIsComplete
PROPERTY SettledIndexStands
