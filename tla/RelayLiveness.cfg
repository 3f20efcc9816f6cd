\* Two flows wait for the sequential receiver.
SPECIFICATION FairSpec
CONSTANTS
    Sessions = {s1, s2}
    NoSession = NoSession
    MaxMessages = 1
PROPERTIES
    NobodyWaits
    RelayedArrives
\* Every session may be done.
CHECK_DEADLOCK FALSE
