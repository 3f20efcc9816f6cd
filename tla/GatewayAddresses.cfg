\* The monitor fails over between the two reads of a session that connects.
SPECIFICATION Spec
CONSTANTS
    Sessions = {s1, s2}
    Fds = {f1, f2}
    NoSession = NoSession
    NoFd = NoFd
    Reports = {"ACTIVE", "INACTIVE"}
    Verdicts = {"LOW"}
    Forecasts = {"STABLE"}
    Enforce = FALSE
    MaxWrites = 0
SYMMETRY Symmetry
INVARIANT
    AddressesAreOpposite
