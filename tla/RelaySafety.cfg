\* Two flows share the receiver; any piece may be altered, any association cut.
SPECIFICATION Spec
CONSTANTS
    Sessions = {s1, s2}
    NoSession = NoSession
    MaxMessages = 2
SYMMETRY Symmetry
INVARIANTS
    TypeOK
    OneConnection
PROPERTIES
    DeliversInOrder
\* Every session may be done.
CHECK_DEADLOCK FALSE
