------------------------------- MODULE PathMonitor -------------------------------
(***************************************************************************)
(* gateway/path_monitor.c: the state behind state_lock, the functions the  *)
(* session threads call, and the monitor thread.  Every region between     *)
(* lock and unlock is one action, and so is every system call and every    *)
(* exchange with a classifier; what a step has read stays in the monitor's *)
(* local variables while the other threads run.                            *)
(***************************************************************************)
EXTENDS SctpSockets, TransportPolicy

CONSTANTS
    Verdicts,    \* the replies of the threat classifier in the instance checked
    Forecasts,   \* the replies of the network-condition classifier
    Enforce      \* net_policy_enforced(): GW_TRANSPORT_ENFORCE is set

ASSUME ReportsAssumption == Reports \subseteq PathStates /\ Reports # {}
ASSUME VerdictsAssumption == Verdicts \subseteq ThreatLabels \cup {NoReply}
ASSUME ForecastsAssumption == Forecasts \subseteq NetworkLabels \cup {NoReply}
ASSUME EnforceAssumption == Enforce \in BOOLEAN

VARIABLES
    activeFd,      \* active_fd
    onSecondary,   \* on_secondary
    mon            \* the monitor thread: its place in the loop and its locals

monitorVars == <<activeFd, onSecondary, mon>>

MonitorPlaces == {"sleep", "primary", "secondary", "ask", "decide",
                  "switch", "mark", "net", "netSwitch", "netMark"}

\* primary_ps.state, or that the query failed.
QueryResults == PathStates \cup {"failed"}

\* The top of the loop: no local of an iteration outlives it.
Asleep == [pc |-> "sleep", fd |-> NoFd, primary |-> "failed", secondaryOk |-> FALSE,
           verdict |-> NoReply, policy |-> "NORMAL", secondary |-> FALSE,
           action |-> "NORMAL"]

MonitorStates ==
    [pc : MonitorPlaces, fd : Fds \cup {NoFd}, primary : QueryResults,
     secondaryOk : BOOLEAN, verdict : ThreatLabels \cup {NoReply},
     policy : NetPolicies, secondary : BOOLEAN, action : TransportActions]

MonitorInit ==
    /\ activeFd = NoFd
    /\ onSecondary = FALSE
    /\ mon = Asleep

--------------------------------------------------------------------------------
\* Called by the session threads; each is one region of state_lock.

path_monitor_register(f) == activeFd' = f

\* Mutated form: the registration outlives the flow.
UnregisterNothing == activeFd' = activeFd

path_monitor_unregister == activeFd' = NoFd

path_monitor_reset_preference == onSecondary' = FALSE

path_monitor_preferred_primary == IF onSecondary THEN "secondary" ELSE "primary"

path_monitor_preferred_secondary == Other(path_monitor_preferred_primary)

--------------------------------------------------------------------------------
\* The monitor's loop.  Each step leaves the session threads alone.

\* Mutated form: the iteration goes on when nothing is registered.
SafeFdUnchecked ==
    /\ mon.pc = "sleep"
    /\ mon' = [mon EXCEPT !.pc = "primary", !.fd = activeFd]
    /\ UNCHANGED <<activeFd, onSecondary, socketVars>>

\* After the interval, safe_fd(): nothing registered, nothing to do.
SafeFd ==
    /\ mon.pc = "sleep"
    /\ activeFd # NoFd
    /\ mon' = [mon EXCEPT !.pc = "primary", !.fd = activeFd]
    /\ UNCHANGED <<activeFd, onSecondary, socketVars>>

\* get_path_status for the configured primary.
QueryPrimary ==
    /\ mon.pc = "primary"
    /\ mon' = [mon EXCEPT !.pc = "secondary",
                          !.primary = IF PathKnown(mon.fd, "primary")
                                      THEN primaryState ELSE "failed"]
    /\ UNCHANGED <<activeFd, onSecondary, socketVars>>

\* get_path_status for the configured secondary; only its success matters.  When
\* the first query failed, the iteration ends here.
QuerySecondary ==
    /\ mon.pc = "secondary"
    /\ mon' = IF mon.primary = "failed"
              THEN Asleep
              ELSE [mon EXCEPT !.pc = "ask",
                               !.secondaryOk = PathKnown(mon.fd, "secondary")]
    /\ UNCHANGED <<activeFd, onSecondary, socketVars>>

\* query_ai, then query_netcond.  Neither socket has a timeout, so this step lasts
\* as long as the model server takes.
AskClassifiers ==
    /\ mon.pc = "ask"
    /\ \E v \in Verdicts, n \in Forecasts :
          mon' = [mon EXCEPT !.pc = "decide", !.verdict = v,
                             !.policy = netstate_to_policy(n)]
    /\ UNCHANGED <<activeFd, onSecondary, socketVars>>

\* Read on_secondary under the lock and decide.
DecideTransport ==
    /\ mon.pc = "decide"
    /\ mon' = [mon EXCEPT !.pc = "switch", !.secondary = onSecondary,
                          !.action = decide_transport(mon.verdict, mon.primary,
                                                      mon.secondaryOk, onSecondary)]
    /\ UNCHANGED <<activeFd, onSecondary, socketVars>>

\* TA_FAILOVER and TA_RESTORE_PRIMARY: the socket option is set on the descriptor
\* read at the top of the loop, and its failure is not looked at.  The other actions
\* (TA_NORMAL, TA_RATE_LIMIT, TA_ALERT) are printed at most.
SwitchPath ==
    /\ mon.pc = "switch"
    /\ \/ /\ mon.action = "FAILOVER"
          /\ switch_primary_path(mon.fd, "secondary")
          /\ mon' = [mon EXCEPT !.pc = "mark"]
       \/ /\ mon.action = "RESTORE_PRIMARY"
          /\ switch_primary_path(mon.fd, "primary")
          /\ mon' = [mon EXCEPT !.pc = "mark"]
       \/ /\ mon.action \notin {"FAILOVER", "RESTORE_PRIMARY"}
          /\ mon' = [mon EXCEPT !.pc = "net"]
          /\ UNCHANGED primaryOf
    /\ UNCHANGED <<activeFd, onSecondary, owner, paths, primaryState>>

\* Mutated form: the branch of TA_RESTORE_PRIMARY sets the flag as the other one does.
MarksAlike ==
    /\ mon.pc = "mark"
    /\ onSecondary' = TRUE
    /\ mon' = [mon EXCEPT !.pc = "net"]
    /\ UNCHANGED <<activeFd, socketVars>>

\* on_secondary is set, under the lock, to what was decided.
MarkPreference ==
    /\ mon.pc = "mark"
    /\ onSecondary' = (mon.action = "FAILOVER")
    /\ mon' = [mon EXCEPT !.pc = "net"]
    /\ UNCHANGED <<activeFd, socketVars>>

\* A forecast that is acted upon.
ForecastMoves == Enforce /\ MovesToBackup(mon.policy)

\* The second driver: on_secondary is read again.
CheckForecast ==
    /\ mon.pc = "net"
    /\ mon' = IF ForecastMoves /\ ~onSecondary /\ mon.secondaryOk
              THEN [mon EXCEPT !.pc = "netSwitch"]
              ELSE Asleep
    /\ UNCHANGED <<activeFd, onSecondary, socketVars>>

ForecastSwitch ==
    /\ mon.pc = "netSwitch"
    /\ switch_primary_path(mon.fd, "secondary")
    /\ mon' = [mon EXCEPT !.pc = "netMark"]
    /\ UNCHANGED <<activeFd, onSecondary, owner, paths, primaryState>>

ForecastMark ==
    /\ mon.pc = "netMark"
    /\ onSecondary' = TRUE
    /\ mon' = Asleep
    /\ UNCHANGED <<activeFd, socketVars>>

MonitorStep ==
    \/ SafeFd \/ QueryPrimary \/ QuerySecondary \/ AskClassifiers
    \/ DecideTransport \/ SwitchPath \/ MarkPreference
    \/ CheckForecast \/ ForecastSwitch \/ ForecastMark

================================================================================
