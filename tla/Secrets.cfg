\* Two passwords and one of somebody else's, an administrator and a flow,
\* two commands and any two disturbances.
CONSTANTS
    Passwords = {p1, p2}
    NoPassword = NoPassword
    Foreign = Foreign
    Callers = {"admin", "flow"}
    Overlaps = {}
    MaxTasks = 2
    MaxEvents = 2
SYMMETRY PasswordSymmetry
SPECIFICATION Spec
INVARIANTS EscrowHolds  
CHECK_DEADLOCK FALSE
