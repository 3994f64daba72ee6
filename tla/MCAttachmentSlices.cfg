SPECIFICATION Spec
CONSTANTS
    p = p
    pdf = pdf
    text = text
    html = html
    Occurrences <- Copies
    Payload <- Bytes
    Module <- Label
    Parses <- Found
    Shared <- Elsewhere
    Reading <- OneWord
    MaxVersion = 2
    Upgrades = {"extractors", "identification", "limits", "parser", "setting"}
    MaxTroubles = 3
INVARIANTS
    TypeOK
    CompleteMeansIndexed
    AbsenceIsTrue
    SettledSlicesAreExact
    
CHECK_DEADLOCK FALSE
