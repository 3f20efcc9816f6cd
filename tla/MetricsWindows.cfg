\* Three sessions fill windows that are smaller than what they record.
SPECIFICATION Spec
CONSTANTS
    Sessions = {s1, s2, s3}
    LOSS_WINDOW = 3
    FEATURE_WINDOW = 3
    MaxTime = 2
    MaxMessages = 2
SYMMETRY Symmetry
INVARIANTS
    TypeOK
    FeaturesAgree
    OrderedUnlessOvertaken
PROPERTIES
    LossWindowKeepsLast
    PacketWindowKeepsLast
\* Every session may be done and the clock stopped.
CHECK_DEADLOCK FALSE
