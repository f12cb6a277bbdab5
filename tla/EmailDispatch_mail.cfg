SPECIFICATION FairSpec
CONSTANTS
    Ids = {a}
    Mails = {m1,m2}
    Urgent = {m1}
    Callers = {c1,c2}
    Slots = {s1,s2}
    NoSlot = NoSlot
    Attempts = 2
    MaxStalls = 1
    MaxDispatches = 2
CHECK_DEADLOCK FALSE
INVARIANT TypeOK
INVARIANT ResentForCause
INVARIANT AnswersAreTrue
PROPERTY ReceiptSettles
