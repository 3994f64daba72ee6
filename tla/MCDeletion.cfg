SPECIFICATION Spec
CONSTANTS
    a = a
    b = b
    s = s
    t = t
    inbox = inbox
    label = label
    one = one
    two = two
    None = None
    FolderOf <- Apart
    ThreadOf <- OneThread
    Initial <- BothMail
    Messages = {a, b}
    Slots = {s, t}
    Folders = {inbox, label}
    Threads = {one}
    Tags = {"new", "seen", "trash"}
    Delivered = "new"
    Trash = "trash"
    Mirror = TRUE
    Alike = TRUE
    Floor = 1
    Percent = 50
    Forced = FALSE
    MaxEvents = 2
    Events = {"deliver", "retag", "transfer", "vanish", "replace", "shut", "away", "lose", "crash", "budget", "fail"}
INVARIANTS
    TypeOK
    OneHolderPerPath
    TombstonedIsLost
    BrakeHolds
PROPERTIES
    PartialViewRetiresNothing
