SPECIFICATION FairSpec
CONSTANTS
    a = a
    b = b
    s = s
    t = t
    inbox = inbox
    label = label
    one = one
    two = two
    None = None
    FolderOf <- OneFolder
    ThreadOf <- OneThread
    Initial <- OneMail
    Messages = {a, b}
    Slots = {s}
    Folders = {inbox}
    Threads = {one}
    Tags = {"new", "trash"}
    Delivered = "new"
    Trash = "trash"
    Mirror = TRUE
    Alike = TRUE
    Floor = 1
    Percent = 50
    Forced = FALSE
    MaxEvents = 3
    Events = {"deliver", "retag", "vanish", "away", "lose", "crash"}
INVARIANTS
    GraceRestarts
PROPERTIES
    RestoredIsKept
    IndexMirrorsMaildir
