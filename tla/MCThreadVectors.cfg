SPECIFICATION FairSpec
CONSTANTS
    early = early
    later = later
    one = one
    attachment = attachment
    letter = letter
    Messages = {early, later}
    ThreadOf <- OneThread
    Payloads = {attachment}
    Body = letter
    Texts = {1}
    Early = {early}
    BatchSize = 2
    Events = {"fail", "crash", "reap", "deliver", "reparse", "garble", "drift"}
    MaxEvents = 3
INVARIANTS TypeOK
PROPERTIES ExactStaysExact LastChunkTakesVector SoundAgain
CHECK_DEADLOCK FALSE
