\* Two devices, two commands a tick, which leaves room for every pass; two disturbances.
CONSTANTS
    Devices = {1, 2}
    Cap = 2
    Base = 2
    Longest = 3
    Window = 3
    MaxHold = 2
    Far = 4
    MaxEvents = 2
SPECIFICATION Spec
PROPERTY EveryDeviceAsked
