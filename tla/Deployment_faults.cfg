\* One process, every kind of disturbance, one of them.
CONSTANTS
    TaskIds = {t1, t2}
    NoTask = NoTask
    Versions = {v1, v2}
    NoVersion = NoVersion
    Procs = {controller}
    Faults <- AllFaults
    MaxFaults = 1
    RetryTicks = 1
    RetryMaxTicks = 2
    TimeoutTicks = 1
    Backlog = FALSE
    MaxAge = 2
    MaxAttempts = 1
SPECIFICATION Spec
INVARIANTS PushedOnce
PROPERTIES EveryTaskSettles RowConverges DeviceConverges RecordFollowsScope
