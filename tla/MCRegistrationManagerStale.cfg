\* Two requests for one object; nothing is lost.
CONSTANTS
    Objects = {o1}
    ServerCodes = {"SUCCESS", "FAILURE"}
    MaxAppOps = 2
    MaxLosses = 0
    MaxInFlight = 2
SPECIFICATION Spec
INVARIANT LatestConfirmedReportedSuccess
