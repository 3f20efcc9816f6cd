------------------------------- MODULE Classifiers -------------------------------
(***************************************************************************)
(* The exchanges between gateway/ai_bridge.c and ai_module/model_server.py *)
(* over two Unix sockets.  A gateway thread connects, writes one line and  *)
(* waits for the answer, without a timeout; the dashboard does the same    *)
(* with one.  Each service is one Python thread that serves one connection *)
(* after the other; both services are in one process, which may end and be *)
(* started again.                                                          *)
(*                                                                         *)
(* Feature vectors and labels are left out: an answer is there or it is    *)
(* not.                                                                    *)
(***************************************************************************)
EXTENDS Naturals, Sequences

CONSTANTS
    Sessions,     \* threads of handle_client: each asks the threat service once
    Monitor,      \* the path monitor: asks the threat service, then netcond
    Dashboard,    \* the simulation page: asks netcond when the operator clicks
    Gone,         \* stands for a connection whose client has closed it
    Backlog,      \* connections a service's socket holds before accept
    MaxClicks     \* bound: how often the operator clicks

ASSUME ClientsAssumption ==
    /\ Monitor # Dashboard
    /\ Monitor \notin Sessions /\ Dashboard \notin Sessions
    /\ Gone \notin Sessions \cup {Monitor, Dashboard}
ASSUME BoundsAssumption == Backlog \in Nat \ {0} /\ MaxClicks \in Nat

Services == {"threat", "netcond"}
GatewayThreads == Sessions \cup {Monitor}
Clients == GatewayThreads \cup {Dashboard}
Peers == Clients \cup {Gone}

VARIABLES
    at,        \* where each client is in its query
    to,        \* the service it asks, or asked last
    written,   \* it has written its line
    inbox,     \* what is at its end of the connection: nothing, an answer, the end
    answer,    \* the response the last query returned: a label, or "" for none
    server,    \* where each service is, and with whom
    queue,     \* the connections waiting for accept
    clicks,    \* how often the operator clicked
    troubled   \* history: the gateway's threads whose query met a failure: the handler's or
               \*   the end of the process while it is under way, or one of socket()

clientVars == <<at, to, written, inbox, answer>>
serverVars == <<server, queue>>
vars == <<clientVars, serverVars, clicks, troubled>>

ClientPlaces == {"idle", "connect", "send", "recv", "done"}
ServerPlaces == {"down", "accept", "recv", "reply", "close"}

Down == [pc |-> "down", peer |-> Gone]
Accepting == [pc |-> "accept", peer |-> Gone]

\* The gateway may be started before the services are.
Init ==
    /\ at = [c \in Clients |-> "idle"]
    /\ to = [c \in Clients |-> IF c \in Sessions THEN "threat" ELSE "netcond"]
    /\ written = [c \in Clients |-> FALSE]
    /\ inbox = [c \in Clients |-> "nothing"]
    /\ answer = [c \in Clients |-> ""]
    /\ server \in [Services -> {Down, Accepting}]
    /\ queue = [k \in Services |-> <<>>]
    /\ clicks = 0
    /\ troubled = {}

--------------------------------------------------------------------------------
\* query_sock.
Goto(c, place) == at' = [at EXCEPT ![c] = place]

\* The monitor alternates between the two services.
Ask(c) ==
    /\ at[c] = "idle"
    /\ c = Dashboard => clicks < MaxClicks
    /\ clicks' = IF c = Dashboard THEN clicks + 1 ELSE clicks
    /\ to' = IF c = Monitor
             THEN [to EXCEPT ![c] = IF @ = "threat" THEN "netcond" ELSE "threat"]
             ELSE to
    /\ answer' = [answer EXCEPT ![c] = ""]
    /\ troubled' = troubled \ {c}
    /\ Goto(c, "connect")
    /\ UNCHANGED <<written, inbox, serverVars>>

Left(q, c) == [i \in DOMAIN q |-> IF q[i] = c THEN Gone ELSE q[i]]

\* Mutated form: the descriptor is not closed on return.
KeepsEnd(c) == UNCHANGED serverVars

\* The client closes its end; the service may not have noticed.
CloseEnd(c) ==
    /\ server' = [k \in Services |->
          IF server[k].peer = c THEN [server[k] EXCEPT !.peer = Gone] ELSE server[k]]
    /\ queue' = [k \in Services |-> Left(queue[k], c)]

\* query_sock returns with its descriptor closed.  A session goes on with its flow; it
\* does not ask again.
Return(c, response) ==
    /\ answer' = [answer EXCEPT ![c] = response]
    /\ written' = [written EXCEPT ![c] = FALSE]
    /\ inbox' = [inbox EXCEPT ![c] = "nothing"]
    /\ CloseEnd(c)
    /\ Goto(c, IF c \in Sessions THEN "done" ELSE "idle")

\* Mutated form: the backlog has no end.
ConnectAtOnce(c) ==
    /\ at[c] = "connect"
    /\ server[to[c]].pc # "down"
    /\ queue' = [queue EXCEPT ![to[c]] = Append(@, c)]
    /\ Goto(c, "send")
    /\ UNCHANGED <<to, written, inbox, answer, server, clicks, troubled>>

\* connect waits while the backlog is full.
Connect(c) ==
    /\ at[c] = "connect"
    /\ server[to[c]].pc # "down"
    /\ Len(queue[to[c]]) < Backlog
    /\ queue' = [queue EXCEPT ![to[c]] = Append(@, c)]
    /\ Goto(c, "send")
    /\ UNCHANGED <<to, written, inbox, answer, server, clicks, troubled>>

ConnectRefused(c) ==
    /\ at[c] = "connect"
    /\ server[to[c]].pc = "down"
    /\ Return(c, "")
    /\ UNCHANGED <<to, clicks, troubled>>

\* socket() fails, which it does before connect: nothing is sent anywhere.
SocketFails(c) ==
    /\ c \in GatewayThreads
    /\ at[c] = "connect"
    /\ Return(c, "")
    /\ troubled' = troubled \cup {c}
    /\ UNCHANGED <<to, clicks>>

\* What send returns is not looked at.
SendLine(c) ==
    /\ at[c] = "send"
    /\ written' = [written EXCEPT ![c] = TRUE]
    /\ Goto(c, "recv")
    /\ UNCHANGED <<to, inbox, answer, serverVars, clicks, troubled>>

\* recv returns the answer, or 0 or -1 when the other end is closed.
RecvAnswer(c) ==
    /\ at[c] = "recv"
    /\ inbox[c] # "nothing"
    /\ Return(c, IF inbox[c] = "answer" THEN "label" ELSE "")
    /\ troubled' = troubled \ {c}
    /\ UNCHANGED <<to, clicks>>

QueryStep(c) == Connect(c) \/ ConnectRefused(c) \/ SendLine(c) \/ RecvAnswer(c)

\* The dashboard's socket times out, in whichever call.
DashboardTimeout ==
    /\ at[Dashboard] \in {"connect", "send", "recv"}
    /\ Return(Dashboard, "")
    /\ UNCHANGED <<to, clicks, troubled>>

--------------------------------------------------------------------------------
\* _serve.
Serve(k, place, peer) == server' = [server EXCEPT ![k] = [pc |-> place, peer |-> peer]]

AcceptClient(k) ==
    /\ server[k].pc = "accept"
    /\ queue[k] # <<>>
    /\ Serve(k, "recv", Head(queue[k]))
    /\ queue' = [queue EXCEPT ![k] = Tail(@)]
    /\ UNCHANGED <<clientVars, clicks, troubled>>

\* Mutated form: the accepted connection has a timeout, and is closed when the line is late.
ReadLineInTime(k) ==
    /\ server[k].pc = "recv"
    /\ \/ /\ server[k].peer # Gone => written[server[k].peer]
          /\ Serve(k, "reply", server[k].peer)
       \/ /\ server[k].peer # Gone => ~written[server[k].peer]
          /\ Serve(k, "close", server[k].peer)
    /\ UNCHANGED <<clientVars, queue, clicks, troubled>>

\* recv returns the line; of a connection that is gone, the line or nothing.
ReadLine(k) ==
    /\ server[k].pc = "recv"
    /\ \/ /\ server[k].peer # Gone => written[server[k].peer]
          /\ Serve(k, "reply", server[k].peer)
       \/ /\ server[k].peer = Gone
          /\ Serve(k, "close", Gone)
    /\ UNCHANGED <<clientVars, queue, clicks, troubled>>

\* The handler's label is sent; to a connection that is gone it is lost, and the
\* exception that may raise is caught.
Answer(k) ==
    /\ server[k].pc = "reply"
    /\ inbox' = IF server[k].peer = Gone THEN inbox
                ELSE [inbox EXCEPT ![server[k].peer] = "answer"]
    /\ Serve(k, "close", server[k].peer)
    /\ UNCHANGED <<at, to, written, answer, queue, clicks, troubled>>

\* Mutated form: a connection whose handler failed is not closed.
HandlerFailsOpen(k) ==
    /\ server[k].pc = "reply"
    /\ troubled' = troubled \cup ({server[k].peer} \cap GatewayThreads)
    /\ server' = [server EXCEPT ![k] = Accepting]
    /\ UNCHANGED <<clientVars, queue, clicks>>

\* The handler raises an exception: no bytes are sent.
HandlerFails(k) ==
    /\ server[k].pc = "reply"
    /\ troubled' = troubled \cup ({server[k].peer} \cap GatewayThreads)
    /\ Serve(k, "close", server[k].peer)
    /\ UNCHANGED <<clientVars, queue, clicks>>

\* An answer that was sent before can still be read.
Ended(c) == IF inbox[c] = "nothing" THEN "end" ELSE inbox[c]

CloseConnection(k) ==
    /\ server[k].pc = "close"
    /\ inbox' = IF server[k].peer = Gone THEN inbox
                ELSE [inbox EXCEPT ![server[k].peer] = Ended(server[k].peer)]
    /\ server' = [server EXCEPT ![k] = Accepting]
    /\ UNCHANGED <<at, to, written, answer, queue, clicks, troubled>>

ServiceStep(k) ==
    AcceptClient(k) \/ ReadLine(k) \/ Answer(k) \/ HandlerFails(k) \/ CloseConnection(k)

\* The process ends: every connection with it does.
Connections(k) == {queue[k][i] : i \in DOMAIN queue[k]} \cup {server[k].peer}

Attached == {c \in Clients : \E k \in Services : c \in Connections(k)}

ServerEnds ==
    /\ \E k \in Services : server[k] # Down
    /\ inbox' = [c \in Clients |-> IF c \in Attached THEN Ended(c) ELSE inbox[c]]
    /\ server' = [k \in Services |-> Down]
    /\ queue' = [k \in Services |-> <<>>]
    /\ troubled' = troubled \cup (Attached \cap GatewayThreads)
    /\ UNCHANGED <<at, to, written, answer, clicks>>

\* It is started again; without a trained model, netcond is not served.
ServerStarts ==
    /\ \A k \in Services : server[k] = Down
    /\ \E up \in {Services, {"threat"}} :
          server' = [k \in Services |-> IF k \in up THEN Accepting ELSE Down]
    /\ UNCHANGED <<clientVars, queue, clicks, troubled>>

Next ==
    \/ \E c \in Clients : Ask(c) \/ QueryStep(c) \/ SocketFails(c)
    \/ DashboardTimeout
    \/ \E k \in Services : ServiceStep(k)
    \/ ServerEnds \/ ServerStarts

Spec == Init /\ [][Next]_vars

\* Threads of running processes are scheduled.  The dashboard's is one of them: a page
\* that stopped between connect and send would hold its service, and the monitor with it.
\* connect is strongly fair: the kernel wakes those who wait for a place in the backlog in
\* their order.  Nobody has to ask, to click, or to start the services.
Fairness ==
    /\ \A c \in Clients : WF_vars(QueryStep(c))
    /\ \A c \in GatewayThreads : SF_vars(Connect(c))
    /\ \A k \in Services : WF_vars(ServiceStep(k))

FairSpec == Spec /\ Fairness

--------------------------------------------------------------------------------
TypeOK ==
    /\ at \in [Clients -> ClientPlaces]
    /\ to \in [Clients -> Services]
    /\ written \in [Clients -> BOOLEAN]
    /\ inbox \in [Clients -> {"nothing", "answer", "end"}]
    /\ answer \in [Clients -> {"", "label"}]
    /\ server \in [Services -> [pc : ServerPlaces, peer : Peers]]
    /\ queue \in [Services -> Seq(Peers)]
    /\ \A k \in Services : Len(queue[k]) <= Backlog
    /\ clicks \in 0..MaxClicks
    /\ troubled \subseteq GatewayThreads

(***************************************************************************)
(* A client has one connection at most, with the service it asks, and the  *)
(* service writes and closes only the connections of clients that wait     *)
(* for it: nothing of one query is left for the next one.                  *)
(***************************************************************************)
Held(c) ==
    {x \in Services \X (0..Backlog) :
        LET k == x[1]
            i == x[2]
        IN  IF i = 0 THEN server[k].peer = c ELSE i <= Len(queue[k]) /\ queue[k][i] = c}

OneConnectionEach ==
    \A c \in Clients :
        /\ \A x, y \in Held(c) : x = y
        /\ \A x \in Held(c) : x[1] = to[c]
        /\ at[c] \in {"idle", "connect", "done"} => inbox[c] = "nothing"

(***************************************************************************)
(* ai_bridge.c, "On any failure the response is set to an empty string":   *)
(* and only then.  However many threads ask at once, whether the backlog   *)
(* is full, whoever else's query fails and whenever the dashboard walks    *)
(* away in the middle of its own, a query of the gateway returns a label   *)
(* unless this query met a failure, or found the service not there.        *)
(***************************************************************************)
Returned(c) == IF c \in Sessions THEN at[c] = "done" ELSE at[c] = "idle"

EmptyOnlyAfterFailure ==
    [][\A c \in GatewayThreads :
          /\ (at[c] = "recv" /\ Returned(c)') => answer'[c] = "label" \/ c \in troubled
          /\ (at[c] = "connect" /\ Returned(c)') =>
                server[to[c]].pc = "down" \/ c \in troubled']_vars

(***************************************************************************)
(* recv has no timeout and each service is sequential; still every query   *)
(* of a gateway thread returns, whether a handler fails, the dashboard     *)
(* leaves, the process ends at any moment or is never started.  The        *)
(* gateway's fairness rests on it: AskClassifiers is one step there.       *)
(***************************************************************************)
QueriesReturn ==
    \A c \in GatewayThreads : at[c] = "connect" ~> Returned(c)

================================================================================
