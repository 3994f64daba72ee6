SPECIFICATION FairSpec
CONSTANTS
    p = p
    pdf = pdf
    text = text
    html = html
    Occurrences <- Copies
    Payload <- Bytes
    Module <- TwoLabels
    Parses <- FoundLess
    Shared <- Elsewhere
    Reading <- TwoWords
    MaxVersion = 2
    Upgrades = {"extractors", "identification", "limits", "parser", "setting"}
    MaxTroubles = 2
PROPERTIES
    DeferralsEnd
CHECK_DEADLOCK FALSE
