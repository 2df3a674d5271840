\* One run of a small flow, three processes; two of them stop, or the run is superseded.
CONSTANTS
    Runs = {r1}
    NoRun = NoRun
    Refs = {p1, p2}
    NoRef = NoRef
    s = s
    i = i
    w = w
    g1 = g1
    g2 = g2
    d = d
    e = e
    p1 = p1
    p2 = p2
    Nodes <- NodesDef
    NoNode = NoNode
    Start = s
    Event = "checkin"
    Kind <- KindDef
    After <- AfterDef
    OnTimeout <- TimeoutDef
    Choices <- ChoicesDef
    Installs <- InstallsDef
    Webhook = Webhook
    Sweeper = Sweeper
    Admins = {admin}
    Rungs = 1
    MaxTroubles = 2
SPECIFICATION Spec
INVARIANTS OneAdvancer
PROPERTIES CompletedStays EscalationPinned EveryRunEnds
CHECK_DEADLOCK FALSE
