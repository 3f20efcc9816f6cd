\* Two sessions overlap with the monitor; descriptors are reused.
SPECIFICATION Spec
CONSTANTS
    Sessions = {s1, s2}
    Fds = {f1, f2}
    NoSession = NoSession
    NoFd = NoFd
    Reports = {"ACTIVE", "INACTIVE"}
    Verdicts = {"LOW", "HIGH"}
    Forecasts = {"STABLE", "UNSTABLE"}
    Enforce = TRUE
    MaxWrites = 1
SYMMETRY Symmetry
INVARIANTS
    TypeOK
    RegisteredFdIsOpen
    DescriptorsAccounted
PROPERTIES
    AssociationMovesForCause
