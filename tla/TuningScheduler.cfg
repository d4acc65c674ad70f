SPECIFICATION Spec
CONSTANTS
    p1 = p1
    p2 = p2
    Params <- TwoParams
    Unset = unset
    Shipped = shipped
    Cost <- Costs
    EvaluateMayFail = TRUE
    ApplierMayFail = {"load", "reload"}
    Iterates = FALSE
    Retries = 3
    Calls = {"Trigger", "Join", "Stop"}
INVARIANTS SchedulerInv AuditOrder
PROPERTY TriggerServed
