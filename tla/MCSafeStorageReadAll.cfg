\* The delegate invokes the ReadAllKeys callback once per key, for two keys.
CONSTANTS
    cw = cw
    cr = cr
    cd = cd
    ca = ca
    Calls = {cw, cr, cd, ca}
    Kind <- MCKind
    Results = {r1, r2}
    ReadAllResults = 2
SPECIFICATION Spec
INVARIANT CompletionOwnedOnce
CHECK_DEADLOCK FALSE
