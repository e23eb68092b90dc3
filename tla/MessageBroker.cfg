SPECIFICATION Spec
CONSTANTS
    Topics = {t1}
    Accounts = {a1, a2, a3}
    Deposit = 2
    MaxMessages = 3
    MaxAdvertised = 1
    MaxJoined = 2
SYMMETRY Symmetry
INVARIANTS TypeOK FeesBalance EntriesCount SoleEntryReceives
PROPERTIES OnlySubscribersPay
CHECK_DEADLOCK FALSE
