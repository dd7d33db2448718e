CONSTANTS
    Procs = {p1, p2}
    Runs = {r1}
    Configs = {c1, c2}
    Modules <- MCModules
    TablesOf <- MCTablesOf
    Columns <- MCColumns
    Nobody = Nobody
    MaxFaults = 1
SYMMETRY SessionSymmetry
SPECIFICATION Spec
INVARIANTS UsableUnlessCut RefusedForReason WritesConform RunRecordHonest
CHECK_DEADLOCK FALSE
