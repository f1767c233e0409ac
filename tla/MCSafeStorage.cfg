\* The delegate completes each call once (the ReadAllKeys call finds one key).
CONSTANTS
    cw = cw
    cr = cr
    cd = cd
    ca = ca
    Calls = {cw, cr, cd, ca}
    Kind <- MCKind
    Results = {r1, r2}
    ReadAllResults = 1
SPECIFICATION Spec
INVARIANTS TypeOK
\* Every call completes and its completion runs: the storage client stops.
CHECK_DEADLOCK FALSE
