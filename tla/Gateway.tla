--------------------------------- MODULE Gateway ---------------------------------
(***************************************************************************)
(* gateway/sctp_gateway.c: one thread per client connection (handle_client)*)
(* next to the path monitor's thread.  A session thread consumes the       *)
(* operator's reset file, asks the monitor for the pair of addresses,      *)
(* connects, registers its association, runs the handshake, relays, and    *)
(* tears down.  The threads share active_fd and on_secondary, the reset    *)
(* file and the process's descriptor table.                                *)
(***************************************************************************)
EXTENDS PathMonitor, Naturals

CONSTANT MaxWrites   \* bound: how often the operator writes the reset file

ASSUME MaxWritesAssumption == MaxWrites \in Nat

VARIABLES
    at,          \* where each session thread is in handle_client
    sfd,         \* its sctp_fd
    first,       \* the two addresses it passes to multihome_client_connect, from
    second,      \*   when each was asked for until the call returns
    tcp,         \* its TCP connection is open
    resetFile,   \* GW_PATH_RESET_FILE exists
    writes,      \* how often the operator has written it
    fires        \* how often a session has reset the preference because of it

sessionVars == <<at, sfd, first, second, tcp>>
resetVars == <<resetFile, writes, fires>>
vars == <<socketVars, monitorVars, sessionVars, resetVars>>

SessionPlaces == {"idle", "receive", "classify", "check", "reset", "remove", "connect",
                  "register", "handshake", "send", "recv", "unregister", "close", "done"}

\* The session's thread has an SCTP socket, and the monitor may know of it.
Holding == {"register", "handshake", "send", "recv", "unregister", "close"}
Registered == {"handshake", "send", "recv", "unregister"}
Relaying == {"send", "recv"}

Goto(s, place) == at' = [at EXCEPT ![s] = place]

Init ==
    /\ SocketsInit
    /\ MonitorInit
    /\ at = [s \in Sessions |-> "idle"]
    /\ sfd = [s \in Sessions |-> NoFd]
    /\ first = [s \in Sessions |-> NoAddress]
    /\ second = [s \in Sessions |-> NoAddress]
    /\ tcp = [s \in Sessions |-> FALSE]
    /\ resetFile = FALSE
    /\ writes = 0
    /\ fires = 0

--------------------------------------------------------------------------------
\* start_gateway's loop: accept a client and start its thread.
Accept(s) ==
    /\ at[s] = "idle"
    /\ Goto(s, "receive")
    /\ tcp' = [tcp EXCEPT ![s] = TRUE]
    /\ UNCHANGED <<sfd, first, second, socketVars, monitorVars, resetVars>>

\* The first recv: a client that sends nothing ends the thread here.
ReceiveFirst(s) ==
    /\ at[s] = "receive"
    /\ \/ Goto(s, "classify") /\ tcp' = tcp
       \/ Goto(s, "done") /\ tcp' = [tcp EXCEPT ![s] = FALSE]
    /\ UNCHANGED <<sfd, first, second, socketVars, monitorVars, resetVars>>

\* query_ai (the verdict is only logged and reported) and the KEM level, which
\* depends on the data classification alone.
Classify(s) ==
    /\ at[s] = "classify"
    /\ Goto(s, "check")
    /\ UNCHANGED <<sfd, first, second, tcp, socketVars, monitorVars, resetVars>>

\* maybe_reset_path_preference: access(), the reset, and remove() are three steps.
CheckReset(s) ==
    /\ at[s] = "check"
    /\ Goto(s, IF resetFile THEN "reset" ELSE "connect")
    /\ UNCHANGED <<sfd, first, second, tcp, socketVars, monitorVars, resetVars>>

ResetPreference(s) ==
    /\ at[s] = "reset"
    /\ path_monitor_reset_preference
    /\ fires' = fires + 1
    /\ Goto(s, "remove")
    /\ UNCHANGED <<sfd, first, second, tcp, socketVars, activeFd, mon, resetFile, writes>>

RemoveResetFile(s) ==
    /\ at[s] = "remove"
    /\ resetFile' = FALSE
    /\ Goto(s, "connect")
    /\ UNCHANGED <<sfd, first, second, tcp, socketVars, monitorVars, writes, fires>>

\* The two arguments of multihome_client_connect: each takes state_lock on its own,
\* in the order the compiler evaluates them.
ReadFirst(s) ==
    /\ at[s] = "connect"
    /\ first[s] = NoAddress
    /\ first' = [first EXCEPT ![s] = path_monitor_preferred_primary]
    /\ UNCHANGED <<at, sfd, second, tcp, socketVars, monitorVars, resetVars>>

ReadSecond(s) ==
    /\ at[s] = "connect"
    /\ second[s] = NoAddress
    /\ second' = [second EXCEPT ![s] = path_monitor_preferred_secondary]
    /\ UNCHANGED <<at, sfd, first, tcp, socketVars, monitorVars, resetVars>>

Connect(s, f) ==
    /\ at[s] = "connect"
    /\ first[s] # NoAddress /\ second[s] # NoAddress
    /\ multihome_client_connect(s, f, first[s])
    /\ sfd' = [sfd EXCEPT ![s] = f]
    /\ first' = [first EXCEPT ![s] = NoAddress]
    /\ second' = [second EXCEPT ![s] = NoAddress]
    /\ Goto(s, "register")
    /\ UNCHANGED <<tcp, monitorVars, resetVars>>

ConnectFails(s) ==
    /\ at[s] = "connect"
    /\ first[s] # NoAddress /\ second[s] # NoAddress
    /\ first' = [first EXCEPT ![s] = NoAddress]
    /\ second' = [second EXCEPT ![s] = NoAddress]
    /\ tcp' = [tcp EXCEPT ![s] = FALSE]
    /\ Goto(s, "done")
    /\ UNCHANGED <<sfd, socketVars, monitorVars, resetVars>>

Register(s) ==
    /\ at[s] = "register"
    /\ path_monitor_register(sfd[s])
    /\ Goto(s, "handshake")
    /\ UNCHANGED <<sfd, first, second, tcp, socketVars, onSecondary, mon, resetVars>>

\* pqc_initiator_handshake_timed, whose own steps are module Handshake's.
Handshake(s) ==
    /\ at[s] = "handshake"
    /\ paths[sfd[s]] # {}
    /\ Goto(s, "send")
    /\ UNCHANGED <<sfd, first, second, tcp, socketVars, monitorVars, resetVars>>

\* Mutated form: the failed handshake returns without closing what is open.
HandshakeFailsAndReturns(s) ==
    /\ at[s] = "handshake"
    /\ path_monitor_unregister
    /\ tcp' = [tcp EXCEPT ![s] = FALSE]
    /\ Goto(s, "done")
    /\ UNCHANGED <<sfd, first, second, socketVars, onSecondary, mon, resetVars>>

HandshakeFails(s) ==
    /\ at[s] = "handshake"
    /\ Goto(s, "unregister")
    /\ UNCHANGED <<sfd, first, second, tcp, socketVars, monitorVars, resetVars>>

\* Mutated form: the relay goes on after a frame could not be written.
SendRetries(s) ==
    /\ at[s] = "send"
    /\ Goto(s, IF paths[sfd[s]] # {} THEN "recv" ELSE "send")
    /\ UNCHANGED <<sfd, first, second, tcp, socketVars, monitorVars, resetVars>>

\* encrypt_data_gcm and frame_write: a failure ends the flow.
Send(s) ==
    /\ at[s] = "send"
    /\ \/ paths[sfd[s]] # {} /\ Goto(s, "recv")
       \/ Goto(s, "unregister")
    /\ UNCHANGED <<sfd, first, second, tcp, socketVars, monitorVars, resetVars>>

\* The client sends more, or closes (or breaks) the stream.
Receive(s) ==
    /\ at[s] = "recv"
    /\ Goto(s, "send") \/ Goto(s, "unregister")
    /\ UNCHANGED <<sfd, first, second, tcp, socketVars, monitorVars, resetVars>>

Unregister(s) ==
    /\ at[s] = "unregister"
    /\ path_monitor_unregister
    /\ Goto(s, "close")
    /\ UNCHANGED <<sfd, first, second, tcp, socketVars, onSecondary, mon, resetVars>>

Close(s) ==
    /\ at[s] = "close"
    /\ CloseSocket(sfd[s])
    /\ tcp' = [tcp EXCEPT ![s] = FALSE]
    /\ sfd' = [sfd EXCEPT ![s] = NoFd]
    /\ Goto(s, "done")
    /\ UNCHANGED <<first, second, monitorVars, resetVars>>

SessionStep(s) ==
    \/ Classify(s)
    \/ CheckReset(s) \/ ResetPreference(s) \/ RemoveResetFile(s)
    \/ ReadFirst(s) \/ ReadSecond(s) \/ ConnectFails(s)
    \/ \E f \in Fds : Connect(s, f)
    \/ Register(s) \/ Handshake(s) \/ HandshakeFails(s)
    \/ Send(s) \/ Unregister(s) \/ Close(s)

\* What clients decide: to connect, to send, to close.
ClientStep(s) == Accept(s) \/ ReceiveFirst(s) \/ Receive(s)

\* The operator (or the dashboard) asks for a fresh start.
WriteResetFile ==
    /\ writes < MaxWrites
    /\ resetFile' = TRUE
    /\ writes' = writes + 1
    /\ UNCHANGED <<fires, socketVars, monitorVars, sessionVars>>

NetworkStep ==
    /\ PathReportChanges \/ \E f \in Fds : AssociationAborts(f)
    /\ UNCHANGED <<monitorVars, sessionVars, resetVars>>

Next ==
    \/ MonitorStep /\ UNCHANGED <<sessionVars, resetVars>>
    \/ \E s \in Sessions : SessionStep(s) \/ ClientStep(s)
    \/ WriteResetFile
    \/ NetworkStep

Spec == Init /\ [][Next]_vars

(***************************************************************************)
(* The threads are scheduled: the monitor takes its steps (its classifiers *)
(* answer), and a session whose call can return returns.  Nothing is       *)
(* assumed of clients, of the operator, of the network.                    *)
(***************************************************************************)
Fairness ==
    /\ WF_vars(MonitorStep /\ UNCHANGED <<sessionVars, resetVars>>)
    /\ \A s \in Sessions : WF_vars(SessionStep(s))

FairSpec == Spec /\ Fairness

--------------------------------------------------------------------------------
TypeOK ==
    /\ owner \in [Fds -> Sessions \cup {NoSession}]
    /\ paths \in [Fds -> SUBSET Addresses]
    /\ primaryOf \in [Fds -> Addresses \cup {NoAddress}]
    /\ primaryState \in Reports
    /\ activeFd \in Fds \cup {NoFd}
    /\ onSecondary \in BOOLEAN
    /\ mon \in MonitorStates
    /\ mon.pc # "sleep" => mon.fd \in Fds
    /\ at \in [Sessions -> SessionPlaces]
    /\ sfd \in [Sessions -> Fds \cup {NoFd}]
    /\ first \in [Sessions -> Addresses \cup {NoAddress}]
    /\ second \in [Sessions -> Addresses \cup {NoAddress}]
    /\ tcp \in [Sessions -> BOOLEAN]
    /\ resetFile \in BOOLEAN
    /\ writes \in Nat
    /\ fires \in Nat

(***************************************************************************)
(* The descriptor the monitor is given is always the open association of a *)
(* session that has registered and not yet unregistered, whatever other    *)
(* sessions register, unregister and close meanwhile (path_monitor.h: "call *)
(* just before close(sctp_fd)").                                           *)
(***************************************************************************)
RegisteredFdIsOpen ==
    activeFd # NoFd =>
        \E s \in Sessions : /\ owner[activeFd] = s
                            /\ sfd[s] = activeFd
                            /\ at[s] \in Registered

(***************************************************************************)
(* Every exit of handle_client gives back what it took: a session thread   *)
(* works only on the descriptor it opened, no descriptor outlives its      *)
(* thread, and the TCP connection is open exactly while the thread runs.   *)
(***************************************************************************)
DescriptorsAccounted ==
    /\ \A s \in Sessions : at[s] \in Holding => sfd[s] \in Fds /\ owner[sfd[s]] = s
    /\ \A f \in Fds : owner[f] # NoSession =>
          sfd[owner[f]] = f /\ at[owner[f]] \in Holding
    /\ \A s \in Sessions : tcp[s] <=> at[s] \notin {"idle", "done"}

(***************************************************************************)
(* What moves an association (transport_policy.h, rationale): towards the  *)
(* secondary only an outage of the primary seen in this iteration, or a    *)
(* forecast that is enforced, and only when the secondary answered; back   *)
(* to the primary only a LOW verdict with the primary active.  A flood     *)
(* (HIGH on a healthy path) moves nothing, however the loop is interleaved *)
(* with the sessions (README.md:173 says otherwise: "AI == HIGH",          *)
(* "autonomous changeover to secondary").  The preference that later       *)
(* connections start from changes for the same causes, or because a        *)
(* session consumed the reset file.                                        *)
(***************************************************************************)
MoveAllowed(to) ==
    IF to = "secondary"
    THEN /\ mon.secondaryOk
         /\ primary_down(mon.primary) \/ (Enforce /\ MovesToBackup(mon.policy))
    ELSE mon.verdict = "LOW" /\ mon.primary = "ACTIVE"

MovesForCause ==
    \A f \in Fds :
        (owner[f] = owner'[f] /\ primaryOf[f] # primaryOf'[f]) =>
            f = mon.fd /\ MoveAllowed(primaryOf'[f])

PrefersForCause ==
    onSecondary # onSecondary' =>
        \/ MoveAllowed(IF onSecondary' THEN "secondary" ELSE "primary")
        \/ ~onSecondary' /\ \E s \in Sessions : at[s] = "reset"

AssociationMovesForCause == [][MovesForCause /\ PrefersForCause]_vars

--------------------------------------------------------------------------------
\* An association that spans both paths stays registered, and its primary path stays
\* down; or stays healthy, with nothing that speaks against the primary.
Watched(f) == activeFd = f /\ Addresses \subseteq paths[f]

Outage(f) == Watched(f) /\ primary_down(primaryState)

Healthy(f) ==
    /\ Watched(f)
    /\ primaryState = "ACTIVE"
    /\ mon.pc = "decide" => mon.verdict = "LOW" /\ ~ForecastMoves
    /\ \A s \in Sessions : at[s] # "reset"

(***************************************************************************)
(* An outage that lasts moves the registered association for good: when    *)
(* the monitor, about to look at it, prefers the primary, and the primary  *)
(* stays down from then on, the association ends up on the secondary,      *)
(* whatever the classifiers reply and other sessions do.  What the monitor *)
(* prefers is a condition, although transport_policy.h:10 says             *)
(* "unconditional": the flag may be there for another session's            *)
(* association, and this one then stays where it is.                       *)
(***************************************************************************)
OutageMovesAssociation ==
    \A f \in Fds :
        (mon.pc = "sleep" /\ ~onSecondary /\ []Outage(f))
            ~> [](primaryOf[f] = "secondary")

(***************************************************************************)
(* Once the primary stays healthy, the classifier stays at LOW, no         *)
(* enforced forecast speaks against it and no reset interferes, a monitor  *)
(* that prefers the secondary takes the association it watches back to the *)
(* primary, and prefers the primary, for good.  An association made with   *)
(* the secondary first, and registered after another one was taken back,   *)
(* is not: the flag is clear by then.                                      *)
(***************************************************************************)
RecoveryRestoresPrimary ==
    \A f \in Fds :
        (mon.pc = "sleep" /\ onSecondary /\ []Healthy(f))
            ~> [](~onSecondary /\ primaryOf[f] = "primary")

(***************************************************************************)
(* No session keeps an association that is gone: from register to close it *)
(* goes on, by a frame or a flight that fails, to unregister, close and    *)
(* end, whatever the other sessions lose meanwhile.  It may only wait for  *)
(* its client, in recv.                                                    *)
(***************************************************************************)
LostAssociationEndsFlow ==
    []<>(\A s \in Sessions : at[s] \in Holding \ {"recv"} => paths[sfd[s]] # {})

--------------------------------------------------------------------------------
(***************************************************************************)
(* path_monitor.h:38, "the IP for the secondary slot (opposite of          *)
(* preferred primary)": the pair a session connects with is two different  *)
(* addresses.                                                              *)
(***************************************************************************)
AddressesAreOpposite ==
    \A s \in Sessions :
        (first[s] # NoAddress /\ second[s] # NoAddress) => first[s] # second[s]

(***************************************************************************)
(* sctp_gateway.c:162, "stays registered for the whole flow": while some   *)
(* session relays, the monitor has an association to watch.                *)
(***************************************************************************)
FlowIsMonitored ==
    (\E s \in Sessions : at[s] \in Relaying) => activeFd # NoFd

(***************************************************************************)
(* sctp_gateway.c:57-58, the reset file "fires exactly once per write".    *)
(***************************************************************************)
ResetFiresOncePerWrite == fires <= writes

(***************************************************************************)
(* transport_policy.h:32, currently_secondary is "association is currently *)
(* using the secondary path": when the monitor decides about a live        *)
(* association, the flag it decides with says which path that association  *)
(* has been set to.                                                        *)
(***************************************************************************)
FlagDescribesAssociation ==
    [][(mon.pc = "decide" /\ mon'.pc = "switch" /\ paths[mon.fd] # {}) =>
          (mon'.secondary <=> primaryOf[mon.fd] = "secondary")]_vars

================================================================================
