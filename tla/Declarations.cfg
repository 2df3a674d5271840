\* Three declarations (one scoped to a tag, one held back by a rollout, one
\* the device does not support), three of the callers (a flow's is the console's without its reset), any two disturbances.
CONSTANTS
    Items = {"a", "b", "c"}
    Tagged = {"c"}
    Waves = {"a"}
    Exotic = {"b"}
    Callers = {"reconcile", "force", "command"}
    Overlaps = {}
    MaxEvents = 2
SPECIFICATION Spec
INVARIANTS PublishedWasSent SettledIsTrue
 
CHECK_DEADLOCK FALSE
