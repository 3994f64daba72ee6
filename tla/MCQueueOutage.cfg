SPECIFICATION Spec
CONSTANTS
    a = a
    b = b
    c = c
    d = d
    NoPath = NoPath
    Paths <- Two
    Killers <- NoKiller
    MaxAttempts = 2
    BatchSize = 2
    Trashed = {}
    Terminal = {}
    Flaky = {}
    Rejected = {}
    Uncertain = {}
    Textless = {}
    Long = {}
    Faults = {"failing"}
    Initial = {}
    Leftover = {}
    Events = {"outage", "deliver"}
    MaxVersion = 1
    MaxEvents = 6
INVARIANTS
    NoOutageDeadLetters
CHECK_DEADLOCK FALSE
