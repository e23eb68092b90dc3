SPECIFICATION FairSpec
CONSTANTS
    pin = pin
    nick = nick
    Fields = {pin, nick}
    Attributes <- MCAttributes
    Replace <- MCReplace
    Values = {0, 1, 2, 3}
    Taken = {1}
    MaxChanges = 3
    MayFail = TRUE
INVARIANTS TypeOK ContainersAgree PostedMeets
PROPERTIES SubmissionAnswered
