SPECIFICATION Spec
CONSTANTS
    old = old
    new = new
    inbox = inbox
    label = label
    Messages = {old, new}
    Folders = {inbox, label}
    FolderOf <- OldAndNew
    Standing = {inbox}
    Scenarios <- MailOrFaults
    MaxAttempts = 3
    MaxFaults = 2
INVARIANTS TypeOK UnqueuedIsOwed WalkedIsQueued CurrentIsHonest GenerationsOrderSyncs PublishedIsReadable
PROPERTIES FailureOutlivesOldSyncs
CHECK_DEADLOCK FALSE
