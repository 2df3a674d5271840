\* Two worker tasks, two saves, four requests, two failures.
CONSTANTS
    Workers = {w1, w2}
    NoWorker = NoWorker
    MaxVersions = 2
    MaxRequests = 4
    MaxMishaps = 2
SPECIFICATION CoalescerSpec
INVARIANTS OneRun RequestCarried
PROPERTIES EveryEditApplied ImplementsSingleFlight
CHECK_DEADLOCK FALSE
