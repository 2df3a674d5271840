SPECIFICATION Spec
CONSTANTS
    Rules <- TheRules
    TagsOf <- SharedTag
    Repairs = {"lost"}
    Risky = {"lost"}
    AutoResolve = {"lost"}
    Approvers = {a1, a2}
    Overlaps <- Withstood
    Grace <- TheGrace
    Cooldown = 1
    MaxAttempts = 2
    MaxAlerts = 2
    MaxClock = 2
    MaxChanges = 2
    MaxRequests = 2
INVARIANTS VetoHolds BudgetHeld TagsFollowAlerts ApprovedOnce
PROPERTIES CooldownRespected
SYMMETRY Symmetry
CHECK_DEADLOCK FALSE
