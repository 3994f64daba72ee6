SPECIFICATION Spec
CONSTANTS
    a = a
    b = b
    c = c
    d = d
    NoPath = NoPath
    Paths <- Four
    Killers <- NoKiller
    MaxAttempts = 2
    BatchSize = 2
    Trashed = {c}
    Terminal = {d}
    Flaky = {a}
    Rejected = {b}
    Uncertain = {b}
    Textless = {a}
    Long = {a}
    Faults = {"unreachable", "failing", "throttling", "misconfigured"}
    Initial = {a, c}
    Leftover = {}
    Events = {"crash", "outage", "deliver", "vanish", "requeue", "reparse"}
    MaxVersion = 2
    MaxEvents = 2
INVARIANTS
    TypeOK
    WithinBudget
    
    
    
    IndexedWholeOrQueued
PROPERTIES
    KeepsThePromise
CHECK_DEADLOCK FALSE
