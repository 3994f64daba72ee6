SPECIFICATION Spec
CONSTANTS
    old = old
    new = new
    inbox = inbox
    label = label
    Messages = {old, new}
    Folders = {inbox, label}
    FolderOf <- OldAndNew
    Standing = {inbox}
    Scenarios <- Quiet
    MaxAttempts = 1
    MaxFaults = 0
INVARIANTS AckedIsQueued
CHECK_DEADLOCK FALSE
