\* Two editors of one document, a console and a command line among them.
CONSTANTS
    Ids = {a, b}
    First = a
    Passwords = {p, q}
    NoPassword = NoPassword
    Sentinel = Sentinel
    Clients = {c1, c2}
    MaxEvents = 3
SYMMETRY Interchangeable
SPECIFICATION FilesSpec
INVARIANTS WellFormed SetupStepsScoped
 
CHECK_DEADLOCK FALSE
