\* Every flow of three steps with at most two slips; the Mac enrolls twice.
CONSTANTS
    Sizes = {5}
    Palette = {"install_profiles", "wait_for", "branch", "release_device"}
    Ungateable = {"install_profiles"}
    Signals = {"profile_installed", "app_installed"}
    Careful = {}
    MaxSlips = 2
    MAX_NODES_PER_ADVANCE = 7
    MaxRuns = 2
    Mishaps = {"byHand", "stop"}
SPECIFICATION BoardSpec
INVARIANTS AcceptedRuns ReleaseAccountedFor EmptyBarrierNeverParks 
CHECK_DEADLOCK FALSE
