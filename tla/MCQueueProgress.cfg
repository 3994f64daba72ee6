SPECIFICATION FairSpec
CONSTANTS
    a = a
    b = b
    c = c
    d = d
    NoPath = NoPath
    Paths <- Two
    Killers <- AKillsEmbed
    MaxAttempts = 4
    BatchSize = 2
    Trashed = {}
    Terminal = {}
    Flaky = {}
    Rejected = {}
    Uncertain = {}
    Textless = {}
    Long = {b}
    Faults = {"failing", "unreachable"}
    Initial = {b}
    Leftover = {}
    Events = {"crash", "outage", "deliver", "vanish", "requeue", "reparse"}
    MaxVersion = 2
    MaxEvents = 3

    
PROPERTIES
    InnocentsIndexed
    EverythingSettles
CHECK_DEADLOCK FALSE
