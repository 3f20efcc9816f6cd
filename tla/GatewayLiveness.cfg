\* Two sessions that overlap, with fair threads; a state and a verdict of each effect.
SPECIFICATION FairSpec
CONSTANTS
    Sessions = {s1, s2}
    Fds = {f1, f2}
    NoSession = NoSession
    NoFd = NoFd
    Reports = {"ACTIVE", "UNKNOWN"}
    Verdicts = {"LOW", "HIGH"}
    Forecasts = {"STABLE"}
    Enforce = FALSE
    MaxWrites = 0
PROPERTIES
    OutageMovesAssociation
    RecoveryRestoresPrimary
    LostAssociationEndsFlow
