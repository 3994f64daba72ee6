SPECIFICATION Spec
CONSTANTS
    a = a
    b = b
    c = c
    d = d
    NoPath = NoPath
    Paths <- Two
    Killers <- NoKiller
    MaxAttempts = 2
    BatchSize = 2
    Trashed = {}
    Terminal = {}
    Flaky = {a}
    Rejected = {}
    Uncertain = {}
    Textless = {}
    Long = {}
    Faults = {}
    Initial = {}
    Leftover = {}
    Events = {"deliver"}
    MaxVersion = 2
    MaxEvents = 4
INVARIANTS
    DeadSinceAdmitted
CHECK_DEADLOCK FALSE
