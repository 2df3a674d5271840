\* Two versions and three disturbances; only a first download fails in silence.
CONSTANTS
    Tasks = {t1, t2}
    NoTask = NoTask
    MaxVersion = 2
    Mishaps = FALSE
    MaxEvents = 3
SPECIFICATION Spec
PROPERTY Converges
CHECK_DEADLOCK FALSE
