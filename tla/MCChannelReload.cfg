CONSTANTS
    e1 = e1
    e2 = e2
    r1 = r1
    r2 = r2
    g1 = g1
    Nothing = Nothing
    Editors <- MCEditors
    Readers <- MCReaders
    Groups = {g1}
    MaxWrites = 2
    MaxFailures = 1
SPECIFICATION Spec
INVARIANTS
    EditsReachCaches
CHECK_DEADLOCK FALSE
SYMMETRY Symmetry
