\* Two objects, so that one request and its status message cover several
\* objects; two application requests (a register then an unregister, or one
\* per object), one lost message.
CONSTANTS
    Objects = {o1, o2}
    ServerCodes = {"SUCCESS", "FAILURE"}
    MaxAppOps = 2
    MaxLosses = 1
    MaxInFlight = 2
SPECIFICATION Spec
PROPERTIES RegistrationsConverge
