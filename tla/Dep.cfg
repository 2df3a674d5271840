\* Two serial numbers, any four operations at Apple, by administrators or faults.
CONSTANTS
    Serials = {"x", "y"}
    Invalid = {2}
    Syncers = {"tick", "admin"}
    Overlaps = {}
    MaxEvents = 4
SPECIFICATION Spec
INVARIANTS CursorCovers
PROPERTIES Converges
CHECK_DEADLOCK FALSE
