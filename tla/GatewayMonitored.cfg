\* Two flows overlap and the first one ends.
SPECIFICATION Spec
CONSTANTS
    Sessions = {s1, s2}
    Fds = {f1, f2}
    NoSession = NoSession
    NoFd = NoFd
    Reports = {"ACTIVE", "INACTIVE"}
    Verdicts = {"LOW"}
    Forecasts = {"STABLE"}
    Enforce = FALSE
    MaxWrites = 0
SYMMETRY Symmetry
INVARIANT
    FlowIsMonitored
