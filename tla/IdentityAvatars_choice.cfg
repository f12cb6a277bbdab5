SPECIFICATION FairSpec
CONSTANTS
    Sub = sub
    Alias = {uid}
    Choices = {v1}
    Consumers = {h1,h2}
    Calls = {c1}
    NoChoice = NoChoice
    MaxRetries = 3
    MaxSaves = 2
    MaxSlow = 1
    MaxFaults = 1
    MaxCrashes = 1
CHECK_DEADLOCK FALSE
INVARIANT AckedIsAssigned
INVARIANT ChoiceKept
INVARIANT NothingLeft
PROPERTY AvatarAssigned
