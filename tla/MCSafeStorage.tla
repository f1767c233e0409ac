---------------------------- MODULE MCSafeStorage ----------------------------
EXTENDS SafeStorage

CONSTANTS cw, cr, cd, ca

\* One call of each kind.
MCKind == (cw :> "Write") @@ (cr :> "Read") @@ (cd :> "Delete") @@ (ca :> "ReadAll")
=============================================================================
