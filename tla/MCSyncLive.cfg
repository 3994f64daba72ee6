SPECIFICATION FairSpec
CONSTANTS
    old = old
    new = new
    inbox = inbox
    label = label
    Messages = {new}
    Folders = {inbox, label}
    FolderOf <- NewOnly
    Standing = {inbox}
    Scenarios <- MailOrFailures
    MaxAttempts = 2
    MaxFaults = 2
PROPERTIES StampsAreAcked MailIsIndexed FailuresEnd
CHECK_DEADLOCK FALSE
