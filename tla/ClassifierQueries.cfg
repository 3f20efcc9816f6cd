\* Two sessions, the monitor and the dashboard share two services with a short backlog.
SPECIFICATION FairSpec
CONSTANTS
    Sessions = {s1, s2}
    Monitor = Monitor
    Dashboard = Dashboard
    Gone = Gone
    Backlog = 1
    MaxClicks = 1
INVARIANTS
    TypeOK
    OneConnectionEach
PROPERTIES
    EmptyOnlyAfterFailure
    QueriesReturn
