\* One Mac enrolled before the cutover, with up to two later certificates.
CONSTANTS
    Certs = {1, 2, 3}
    FirstKinds = {"legacy"}
    LaterKinds = {"renewal", "manual", "stray"}
    MaxTokens = 1
    MaxInbox = 3
    MaxTroubles = 1
SPECIFICATION Spec
INVARIANTS PemNamesIdentity NoLockout FlagTrue
PROPERTIES CopyOutlives RolledBackStays
\* The bounds stop the system.
CHECK_DEADLOCK FALSE
