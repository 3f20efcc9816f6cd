------------------------------ MODULE GatewayProofs ------------------------------
(***************************************************************************)
(* Theorems about Gateway, for any number of sessions and descriptors.     *)
(***************************************************************************)
EXTENDS Gateway, TLAPS

\* The three invariants are inductive together: that a registered descriptor is
\* open rests on who owns the descriptors, and that on the sessions' places.
IInv == TypeOK /\ DescriptorsAccounted /\ RegisteredFdIsOpen

\* The monitor's state at the top of its loop is well typed.
LEMMA AsleepType == Asleep \in MonitorStates /\ Asleep.pc = "sleep"
BY DEF Asleep, MonitorStates, MonitorPlaces, QueryResults, PathStates, ThreatLabels,
       NetPolicies, TransportActions

\* The gateway starts with nothing open, nothing registered and no session running.
LEMMA InitIInv == Init => IInv
<1> SUFFICES ASSUME Init PROVE IInv
    OBVIOUS
<1> USE DEF Init, SocketsInit, MonitorInit
<1>1. TypeOK
    BY ReportsAssumption, AsleepType DEF TypeOK, SessionPlaces
<1>2. DescriptorsAccounted
    BY DEF DescriptorsAccounted, Holding
<1>3. RegisteredFdIsOpen
    BY DEF RegisteredFdIsOpen
<1> QED
    BY <1>1, <1>2, <1>3 DEF IInv

--------------------------------------------------------------------------------
\* A step of the monitor keeps the state well typed: its locals only ever hold what a
\* query, a classifier or a decision returns.
LEMMA MonitorStepTypeOK ==
    ASSUME TypeOK, MonitorStep, UNCHANGED <<sessionVars, resetVars>>
    PROVE  TypeOK'
<1> USE DEF TypeOK, sessionVars, resetVars, socketVars
<1> USE DEF MonitorStates, MonitorPlaces, QueryResults, TransportActions, Addresses
<1>1. CASE SafeFd
    <2>1. activeFd \in Fds /\ owner[activeFd] \in Sessions \cup {NoSession}
        BY <1>1 DEF SafeFd
    <2> QED
        BY <1>1, <2>1 DEF SafeFd
<1>2. CASE QueryPrimary
    BY <1>2, ReportsAssumption DEF QueryPrimary
<1>3. CASE QuerySecondary
    <2>1. CASE mon.primary = "failed"
        BY <1>3, <2>1, AsleepType DEF QuerySecondary
    <2>2. CASE mon.primary # "failed"
        <3>1. PathKnown(mon.fd, "secondary") \in BOOLEAN
            BY DEF PathKnown
        <3> QED
            BY <1>3, <2>2, <3>1 DEF QuerySecondary
    <2> QED
        BY <2>1, <2>2
<1>4. CASE AskClassifiers
    <2>1. \A label : netstate_to_policy(label) \in NetPolicies
        BY DEF netstate_to_policy, NetPolicies
    <2>2. PICK v \in Verdicts, n \in Forecasts :
              mon' = [mon EXCEPT !.pc = "decide", !.verdict = v, !.policy = netstate_to_policy(n)]
        BY <1>4 DEF AskClassifiers
    <2>3. v \in ThreatLabels \cup {NoReply} /\ netstate_to_policy(n) \in NetPolicies
        BY <2>1, VerdictsAssumption
    <2>4. mon' \in MonitorStates
        BY <2>2, <2>3
    <2> QED
        BY <1>4, <2>4 DEF AskClassifiers
<1>5. CASE DecideTransport
    BY <1>5 DEF DecideTransport, decide_transport
<1>6. CASE SwitchPath
    BY <1>6 DEF SwitchPath, switch_primary_path
<1>7. CASE MarkPreference
    BY <1>7 DEF MarkPreference
<1>8. CASE CheckForecast
    BY <1>8, AsleepType DEF CheckForecast
<1>9. CASE ForecastSwitch
    BY <1>9 DEF ForecastSwitch, switch_primary_path
<1>10. CASE ForecastMark
    BY <1>10, AsleepType DEF ForecastMark
<1> QED
    BY <1>1, <1>2, <1>3, <1>4, <1>5, <1>6, <1>7, <1>8, <1>9, <1>10 DEF MonitorStep

\* A step of the monitor leaves the descriptor table and the registration alone.
LEMMA MonitorStepFrame ==
    ASSUME MonitorStep
    PROVE  UNCHANGED <<activeFd, owner, paths, primaryState>>
BY DEF MonitorStep, SafeFd, QueryPrimary, QuerySecondary, AskClassifiers,
       DecideTransport, SwitchPath, MarkPreference, CheckForecast, ForecastSwitch,
       ForecastMark, socketVars

--------------------------------------------------------------------------------
\* A step of a session, or of its client, keeps the state well typed.
LEMMA SessionStepTypeOK ==
    ASSUME TypeOK, DescriptorsAccounted, NEW s \in Sessions,
           SessionStep(s) \/ ClientStep(s)
    PROVE  TypeOK'
<1> USE DEF TypeOK, Goto, SessionPlaces, Addresses, Other
<1> USE DEF socketVars, monitorVars, resetVars
<1>1. CASE Accept(s) \/ Receive(s) \/ Classify(s)
    BY <1>1 DEF Accept, Receive, Classify
<1>9. CASE ReceiveFirst(s)
    BY <1>9 DEF ReceiveFirst
<1>2. CASE CheckReset(s) \/ RemoveResetFile(s)
    BY <1>2 DEF CheckReset, RemoveResetFile
<1>10. CASE ResetPreference(s)
    <2>1. fires' \in Nat
        BY <1>10 DEF ResetPreference
    <2>2. at' \in [Sessions -> SessionPlaces]
        BY <1>10 DEF ResetPreference
    <2> QED
        BY <1>10, <2>1, <2>2 DEF ResetPreference, path_monitor_reset_preference
<1>3. CASE ReadFirst(s) \/ ReadSecond(s) \/ ConnectFails(s)
    BY <1>3 DEF ReadFirst, ReadSecond, ConnectFails, path_monitor_preferred_primary,
                path_monitor_preferred_secondary
<1>4. ASSUME NEW f \in Fds, Connect(s, f)
      PROVE  TypeOK'
    BY <1>4 DEF Connect, multihome_client_connect
<1>5. CASE Register(s)
    BY <1>5 DEF Register, path_monitor_register
<1>6. CASE Handshake(s) \/ HandshakeFails(s) \/ Send(s)
    BY <1>6 DEF Handshake, HandshakeFails, Send
<1>7. CASE Unregister(s)
    BY <1>7 DEF Unregister, path_monitor_unregister
<1>8. CASE Close(s)
    BY <1>8 DEF Close, CloseSocket
<1> QED
    BY <1>1, <1>2, <1>3, <1>4, <1>5, <1>6, <1>7, <1>8, <1>9, <1>10 DEF SessionStep, ClientStep

--------------------------------------------------------------------------------
\* Only Connect and Close change the owners; they, and the steps that change the
\* session's place across the border of Holding, are the cases that matter.
LEMMA SessionStepDescriptors ==
    ASSUME TypeOK, DescriptorsAccounted, NEW s \in Sessions,
           SessionStep(s) \/ ClientStep(s)
    PROVE  DescriptorsAccounted'
<1> USE DEF TypeOK, DescriptorsAccounted, Holding, Goto
<1> USE DEF socketVars, monitorVars, resetVars
<1> USE NoSessionAssumption
<1>1. CASE Accept(s) \/ ReceiveFirst(s) \/ Receive(s) \/ Classify(s)
    BY <1>1 DEF Accept, ReceiveFirst, Receive, Classify
<1>2. CASE CheckReset(s) \/ ResetPreference(s) \/ RemoveResetFile(s)
    BY <1>2 DEF CheckReset, ResetPreference, RemoveResetFile
<1>3. CASE ReadFirst(s) \/ ReadSecond(s) \/ ConnectFails(s)
    BY <1>3 DEF ReadFirst, ReadSecond, ConnectFails
<1>4. ASSUME NEW f \in Fds, Connect(s, f)
      PROVE  DescriptorsAccounted'
    BY <1>4 DEF Connect, multihome_client_connect
<1>5. CASE Register(s) \/ Handshake(s) \/ HandshakeFails(s)
    BY <1>5 DEF Register, Handshake, HandshakeFails
<1>6. CASE Send(s) \/ Unregister(s)
    BY <1>6 DEF Send, Unregister
<1>7. CASE Close(s)
    BY <1>7 DEF Close, CloseSocket
<1> QED
    BY <1>1, <1>2, <1>3, <1>4, <1>5, <1>6, <1>7 DEF SessionStep, ClientStep

\* Close is the case that needs DescriptorsAccounted: were the closed descriptor
\* still registered, its owner would be the closing session, which is past Registered.
LEMMA SessionStepRegistered ==
    ASSUME IInv, NEW s \in Sessions, SessionStep(s) \/ ClientStep(s)
    PROVE  RegisteredFdIsOpen'
<1> USE DEF IInv, TypeOK, RegisteredFdIsOpen, Registered, Goto
<1> USE DEF socketVars, monitorVars, resetVars
<1> USE NoSessionAssumption, NoFdAssumption
<1>1. CASE Accept(s) \/ ReceiveFirst(s) \/ Receive(s) \/ Classify(s)
    BY <1>1 DEF Accept, ReceiveFirst, Receive, Classify
<1>2. CASE CheckReset(s) \/ ResetPreference(s) \/ RemoveResetFile(s)
    BY <1>2 DEF CheckReset, ResetPreference, RemoveResetFile
<1>3. CASE ReadFirst(s) \/ ReadSecond(s) \/ ConnectFails(s)
    BY <1>3 DEF ReadFirst, ReadSecond, ConnectFails
<1>4. ASSUME NEW f \in Fds, Connect(s, f)
      PROVE  RegisteredFdIsOpen'
    BY <1>4 DEF Connect, multihome_client_connect
<1>5. CASE Register(s)
    BY <1>5 DEF Register, path_monitor_register, DescriptorsAccounted, Holding
<1>6. CASE Handshake(s) \/ HandshakeFails(s) \/ Send(s)
    BY <1>6 DEF Handshake, HandshakeFails, Send
<1>7. CASE Unregister(s)
    BY <1>7 DEF Unregister, path_monitor_unregister
<1>8. CASE Close(s)
    <2>1. activeFd # NoFd => activeFd # sfd[s] /\ at[s] \notin Registered
        BY <1>8 DEF Close, DescriptorsAccounted, Holding
    <2> QED
        BY <1>8, <2>1 DEF Close, CloseSocket
<1> QED
    BY <1>1, <1>2, <1>3, <1>4, <1>5, <1>6, <1>7, <1>8 DEF SessionStep, ClientStep

--------------------------------------------------------------------------------
\* Every step of the gateway preserves the invariant.
LEMMA NextIInv == IInv /\ [Next]_vars => IInv'
<1> SUFFICES ASSUME IInv, [Next]_vars PROVE IInv'
    OBVIOUS
<1>1. CASE MonitorStep /\ UNCHANGED <<sessionVars, resetVars>>
    <2>1. TypeOK'
        BY <1>1, MonitorStepTypeOK DEF IInv
    <2>2. UNCHANGED <<activeFd, owner, at, sfd, tcp>>
        BY <1>1, MonitorStepFrame DEF sessionVars
    <2> QED
        BY <2>1, <2>2 DEF IInv, DescriptorsAccounted, RegisteredFdIsOpen
<1>2. ASSUME NEW s \in Sessions, SessionStep(s) \/ ClientStep(s)
      PROVE  IInv'
    BY <1>2, SessionStepTypeOK, SessionStepDescriptors, SessionStepRegistered DEF IInv
<1>3. CASE WriteResetFile
    BY <1>3 DEF WriteResetFile, IInv, TypeOK, DescriptorsAccounted, RegisteredFdIsOpen,
                socketVars, monitorVars, sessionVars
<1>4. CASE NetworkStep
    BY <1>4 DEF NetworkStep, PathReportChanges, AssociationAborts, IInv, TypeOK,
                DescriptorsAccounted, RegisteredFdIsOpen, monitorVars, sessionVars,
                resetVars
<1>5. CASE UNCHANGED vars
    BY <1>5 DEF vars, socketVars, monitorVars, sessionVars, resetVars, IInv, TypeOK,
                DescriptorsAccounted, RegisteredFdIsOpen
<1> QED
    BY <1>1, <1>2, <1>3, <1>4, <1>5 DEF Next

\* The inductive invariant holds in every reachable state.
THEOREM Invariance == Spec => []IInv
<1>1. Init => IInv
    BY InitIInv
<1>2. IInv /\ [Next]_vars => IInv'
    BY NextIInv
<1> QED
    BY <1>1, <1>2, PTL DEF Spec

\* The state of the gateway is well typed: no thread leaves its program, and the
\* monitor only ever queries and switches descriptors, never the -1 of "none".
THEOREM TypeCorrect == Spec => []TypeOK
<1>1. IInv => TypeOK
    BY DEF IInv
<1> QED
    BY <1>1, Invariance, PTL

\* Whatever the sessions and the monitor interleave, the registered descriptor is an
\* open association of a session that is between register and unregister
\* (path_monitor.c: active_fd; sctp_gateway.c: handle_client).
THEOREM RegisteredIsOpen == Spec => []RegisteredFdIsOpen
<1>1. IInv => RegisteredFdIsOpen
    BY DEF IInv
<1> QED
    BY <1>1, Invariance, PTL

\* Every path through handle_client closes exactly what it opened.
THEOREM NothingLeaks == Spec => []DescriptorsAccounted
<1>1. IInv => DescriptorsAccounted
    BY DEF IInv
<1> QED
    BY <1>1, Invariance, PTL

--------------------------------------------------------------------------------
\* What the monitor's locals remember of the decision they carry: between reading
\* on_secondary, setting the socket option and setting the flag, other threads may
\* change every shared variable, but not these.
MonitorRemembers ==
    /\ mon.pc \in {"switch", "mark"} =>
          mon.action = decide_transport(mon.verdict, mon.primary, mon.secondaryOk,
                                        mon.secondary)
    /\ mon.pc = "mark" => mon.action \in {"FAILOVER", "RESTORE_PRIMARY"}
    /\ mon.pc \in {"netSwitch", "netMark"} => ForecastMoves /\ mon.secondaryOk

\* What decide_transport's two moving answers imply of its arguments.
LEMMA DecideTransportMoves ==
    ASSUME NEW verdict, NEW state, NEW available, NEW secondary
    PROVE  /\ decide_transport(verdict, state, available, secondary) = "FAILOVER" =>
                 available /\ primary_down(state)
           /\ decide_transport(verdict, state, available, secondary) = "RESTORE_PRIMARY" =>
                 verdict = "LOW" /\ state = "ACTIVE"
<1> DEFINE down == primary_down(state)
<1>1. CASE ~secondary
    <2>1. CASE available /\ down
        BY <1>1, <2>1 DEF decide_transport
    <2>2. CASE ~(available /\ down)
        BY <1>1, <2>2 DEF decide_transport
    <2> QED
        BY <2>1, <2>2
<1>2. CASE secondary
    BY <1>2 DEF decide_transport
<1> QED
    BY <1>1, <1>2

\* The monitor starts at the top of its loop, with nothing to remember.
LEMMA InitRemembers == Init => MonitorRemembers
BY DEF Init, MonitorInit, Asleep, MonitorRemembers

\* No step separates an action the monitor is about to take from what it decided it by.
LEMMA NextRemembers == TypeOK /\ MonitorRemembers /\ [Next]_vars => MonitorRemembers'
<1> SUFFICES ASSUME TypeOK, MonitorRemembers, [Next]_vars PROVE MonitorRemembers'
    OBVIOUS
<1>1. CASE UNCHANGED mon
    BY <1>1 DEF MonitorRemembers, ForecastMoves
<1>2. CASE MonitorStep
    <2> USE DEF TypeOK, MonitorStates, MonitorRemembers, Asleep
    <2>1. CASE SafeFd \/ QueryPrimary \/ QuerySecondary \/ AskClassifiers
        <3>1. mon'.pc \in {"primary", "secondary", "ask", "decide", "sleep"}
            <4>1. CASE SafeFd \/ QueryPrimary
                BY <4>1 DEF SafeFd, QueryPrimary
            <4>2. CASE QuerySecondary
                BY <4>2 DEF QuerySecondary
            <4>3. CASE AskClassifiers
                BY <4>3 DEF AskClassifiers
            <4> QED
                BY <2>1, <4>1, <4>2, <4>3
        <3> QED
            BY <3>1
    <2>2. CASE DecideTransport
        BY <1>2, <2>2 DEF DecideTransport
    <2>3. CASE SwitchPath
        BY <2>3 DEF SwitchPath
    <2>5. CASE MarkPreference \/ ForecastMark
        BY <2>5 DEF MarkPreference, ForecastMark
    <2>6. CASE ForecastSwitch
        BY <2>6 DEF ForecastSwitch, ForecastMoves
    <2>4. CASE CheckForecast
        BY <1>2, <2>4 DEF CheckForecast, ForecastMoves
    <2> QED
        BY <1>2, <2>1, <2>2, <2>3, <2>4, <2>5, <2>6 DEF MonitorStep
<1>3. ASSUME NEW s \in Sessions, SessionStep(s) \/ ClientStep(s)
      PROVE  UNCHANGED mon
    BY <1>3 DEF SessionStep, ClientStep, Accept, ReceiveFirst, Receive, Classify,
                CheckReset, ResetPreference, RemoveResetFile, ReadFirst, ReadSecond,
                Connect, ConnectFails, Register, Handshake, HandshakeFails, Send,
                Unregister, Close, monitorVars
<1>4. CASE WriteResetFile \/ NetworkStep \/ UNCHANGED vars
    BY <1>1, <1>4 DEF WriteResetFile, NetworkStep, vars, monitorVars
<1> QED
    BY <1>1, <1>2, <1>3, <1>4 DEF Next

\* A step of a session opens or closes a descriptor, and never moves an association.
LEMMA SessionsMoveNothing ==
    ASSUME TypeOK, DescriptorsAccounted, NEW s \in Sessions,
           SessionStep(s) \/ ClientStep(s), NEW f \in Fds, owner[f] = owner'[f]
    PROVE  primaryOf'[f] = primaryOf[f]
<1> USE DEF TypeOK, socketVars
<1> USE NoSessionAssumption
<1>1. ASSUME NEW g \in Fds, Connect(s, g)
      PROVE  primaryOf'[f] = primaryOf[f]
    BY <1>1 DEF Connect, multihome_client_connect
<1>2. CASE Close(s)
    BY <1>2 DEF Close, CloseSocket, DescriptorsAccounted, Holding
<1>3. CASE UNCHANGED primaryOf
    BY <1>3
<1>4. CASE Accept(s) \/ ReceiveFirst(s) \/ Receive(s) \/ Classify(s) \/ CheckReset(s)
           \/ ResetPreference(s) \/ RemoveResetFile(s) \/ ReadFirst(s) \/ ReadSecond(s)
           \/ ConnectFails(s) \/ Register(s) \/ Handshake(s) \/ HandshakeFails(s)
           \/ Send(s) \/ Unregister(s)
    BY <1>4 DEF Accept, ReceiveFirst, Receive, Classify, CheckReset, ResetPreference,
                RemoveResetFile, ReadFirst, ReadSecond, ConnectFails, Register,
                Handshake, HandshakeFails, Send, Unregister
<1> QED
    BY <1>1, <1>2, <1>4 DEF SessionStep, ClientStep

\* A step of the monitor moves at most the association it has queried, and only for
\* a reason its locals still hold.
LEMMA MonitorMovesForCause ==
    ASSUME TypeOK, MonitorRemembers, MonitorStep, NEW f \in Fds,
           primaryOf[f] # primaryOf'[f]
    PROVE  f = mon.fd /\ MoveAllowed(primaryOf'[f])
<1> USE DEF TypeOK, socketVars, MoveAllowed, switch_primary_path
<1>1. CASE SwitchPath
    <2>1. CASE mon.action = "FAILOVER"
        <3>1. mon.secondaryOk /\ primary_down(mon.primary)
            BY <1>1, <2>1, DecideTransportMoves DEF SwitchPath, MonitorRemembers
        <3> QED
            BY <1>1, <2>1, <3>1 DEF SwitchPath
    <2>2. CASE mon.action = "RESTORE_PRIMARY"
        <3>1. mon.verdict = "LOW" /\ mon.primary = "ACTIVE"
            BY <1>1, <2>2, DecideTransportMoves DEF SwitchPath, MonitorRemembers
        <3> QED
            BY <1>1, <2>2, <3>1 DEF SwitchPath
    <2> QED
        BY <1>1, <2>1, <2>2 DEF SwitchPath
<1>2. CASE ForecastSwitch
    BY <1>2 DEF ForecastSwitch, MonitorRemembers, ForecastMoves
<1>3. CASE SafeFd \/ QueryPrimary \/ QuerySecondary \/ AskClassifiers \/ DecideTransport
           \/ MarkPreference \/ CheckForecast \/ ForecastMark
    BY <1>3 DEF SafeFd, QueryPrimary, QuerySecondary, AskClassifiers, DecideTransport,
                MarkPreference, CheckForecast, ForecastMark
<1> QED
    BY <1>1, <1>2, <1>3 DEF MonitorStep

\* The flag changes for the reasons an association is moved for, which the monitor's
\* locals still hold when it sets the flag, or in a session that found the reset file.
LEMMA FlagChangesForCause ==
    ASSUME TypeOK, MonitorRemembers, Next, onSecondary # onSecondary'
    PROVE  \/ MoveAllowed(IF onSecondary' THEN "secondary" ELSE "primary")
           \/ ~onSecondary' /\ \E s \in Sessions : at[s] = "reset"
<1> USE DEF TypeOK, MoveAllowed
<1>1. CASE MarkPreference
    <2>1. CASE mon.action = "FAILOVER"
        <3>1. mon.secondaryOk /\ primary_down(mon.primary)
            BY <1>1, <2>1, DecideTransportMoves DEF MarkPreference, MonitorRemembers
        <3>2. onSecondary' = TRUE
            BY <1>1, <2>1 DEF MarkPreference
        <3> QED
            BY <3>1, <3>2
    <2>2. CASE mon.action = "RESTORE_PRIMARY"
        <3>1. mon.verdict = "LOW" /\ mon.primary = "ACTIVE"
            BY <1>1, <2>2, DecideTransportMoves DEF MarkPreference, MonitorRemembers
        <3>2. onSecondary' = FALSE
            BY <1>1, <2>2 DEF MarkPreference
        <3> QED
            BY <3>1, <3>2
    <2> QED
        BY <1>1, <2>1, <2>2 DEF MarkPreference, MonitorRemembers
<1>2. CASE ForecastMark
    BY <1>2 DEF ForecastMark, MonitorRemembers, ForecastMoves
<1>3. ASSUME NEW s \in Sessions, ResetPreference(s)
      PROVE  ~onSecondary' /\ at[s] = "reset"
    BY <1>3 DEF ResetPreference, path_monitor_reset_preference
<1>4. CASE SafeFd \/ QueryPrimary \/ QuerySecondary \/ AskClassifiers \/ DecideTransport
           \/ SwitchPath \/ CheckForecast \/ ForecastSwitch
    BY <1>4 DEF SafeFd, QueryPrimary, QuerySecondary, AskClassifiers, DecideTransport,
                SwitchPath, CheckForecast, ForecastSwitch
<1>5. ASSUME NEW s \in Sessions, SessionStep(s) \/ ClientStep(s)
      PROVE  ResetPreference(s)
    BY <1>5 DEF SessionStep, ClientStep, Accept, ReceiveFirst, Receive, Classify,
                CheckReset, RemoveResetFile, ReadFirst, ReadSecond, Connect,
                ConnectFails, Register, Handshake, HandshakeFails, Send, Unregister,
                Close, monitorVars
<1>6. ~WriteResetFile /\ ~NetworkStep
    BY DEF WriteResetFile, NetworkStep, monitorVars
<1> QED
    BY <1>1, <1>2, <1>3, <1>4, <1>5, <1>6 DEF Next, MonitorStep

\* No flood and no advisory forecast ever moves an association or the preference, and
\* no association is moved but the one the monitor queried (path_monitor.c: the switch
\* on action and the enforced block; transport_policy.c: decide_transport).
THEOREM OnlyCauseMoves == Spec => AssociationMovesForCause
<1>1. Init => MonitorRemembers
    BY InitRemembers
<1>2. TypeOK /\ MonitorRemembers /\ [Next]_vars => MonitorRemembers'
    BY NextRemembers
<1>3. IInv /\ MonitorRemembers /\ Next => MovesForCause
    <2> SUFFICES ASSUME IInv, MonitorRemembers, Next, NEW f \in Fds,
                        owner[f] = owner'[f], primaryOf[f] # primaryOf'[f]
                 PROVE  f = mon.fd /\ MoveAllowed(primaryOf'[f])
        BY DEF MovesForCause
    <2> USE DEF IInv
    <2>1. CASE MonitorStep
        BY <2>1, MonitorMovesForCause
    <2>2. ASSUME NEW s \in Sessions, SessionStep(s) \/ ClientStep(s)
          PROVE  FALSE
        BY <2>2, SessionsMoveNothing
    <2>3. CASE WriteResetFile \/ NetworkStep
        BY <2>3 DEF WriteResetFile, NetworkStep, PathReportChanges, AssociationAborts,
                    socketVars
    <2> QED
        BY <2>1, <2>2, <2>3 DEF Next
<1>4. IInv /\ MonitorRemembers /\ Next => PrefersForCause
    BY FlagChangesForCause DEF PrefersForCause, IInv
<1>5. IInv /\ MonitorRemembers /\ [Next]_vars => [MovesForCause /\ PrefersForCause]_vars
    BY <1>3, <1>4
<1>6. IInv => TypeOK
    BY DEF IInv
<1> QED
    BY <1>1, <1>2, <1>5, <1>6, Invariance, PTL DEF Spec, AssociationMovesForCause

================================================================================
