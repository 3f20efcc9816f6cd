----------------------------- MODULE ClassifiersProofs -----------------------------
(***************************************************************************)
(* Theorems about Classifiers, for any number of sessions, any backlog and *)
(* any number of clicks.                                                   *)
(***************************************************************************)
EXTENDS Classifiers, SequenceTheorems, TLAPS

\* A client that has a connection with service k: it has connected and not returned.
Waits(c, k) == at[c] \in {"send", "recv"} /\ to[c] = k

\* The connections of service k are those of clients that wait for it, each at one place.
QueueOK(k) ==
    /\ \A i \in 1..Len(queue[k]) : queue[k][i] # Gone =>
          /\ Waits(queue[k][i], k)
          /\ inbox[queue[k][i]] = "nothing"
          /\ server[k].peer # queue[k][i]
    /\ \A i, j \in 1..Len(queue[k]) :
          (queue[k][i] # Gone /\ queue[k][i] = queue[k][j]) => i = j

\* What the served client has before it: nothing until the answer, then not yet the end.
ServedOK(k) ==
    /\ server[k].pc \in {"down", "accept"} => server[k].peer = Gone
    /\ server[k].peer # Gone =>
          /\ Waits(server[k].peer, k)
          /\ inbox[server[k].peer] # "end"
          /\ server[k].pc # "close" => inbox[server[k].peer] = "nothing"

Connected == \A k \in Services : QueueOK(k) /\ ServedOK(k)

NothingLeft == \A c \in Clients : at[c] \in {"idle", "connect", "done"} => inbox[c] = "nothing"

\* The end comes before an answer, or is about to, only to a query that met a failure.
Untroubled ==
    /\ \A c \in GatewayThreads : inbox[c] = "end" => c \in troubled
    /\ \A k \in Services :
          (server[k].pc = "close" /\ server[k].peer \in GatewayThreads) =>
              inbox[server[k].peer] = "answer" \/ server[k].peer \in troubled

IInv == TypeOK /\ Connected /\ NothingLeft /\ Untroubled

--------------------------------------------------------------------------------
\* A queue from which a client has gone.
LEMMA LeftFacts ==
    ASSUME NEW q \in Seq(Peers), NEW c
    PROVE  /\ Left(q, c) \in Seq(Peers) /\ Len(Left(q, c)) = Len(q) /\ Len(q) \in Nat
           /\ \A i \in 1..Len(q) :
                 /\ q[i] \in Peers
                 /\ Left(q, c)[i] = IF q[i] = c THEN Gone ELSE q[i]
<1>1. Len(q) \in Nat /\ DOMAIN q = 1..Len(q) /\ \A i \in 1..Len(q) : q[i] \in Peers
    BY LenProperties, ElementOfSeq
<1>2. Left(q, c) = [i \in 1..Len(q) |-> IF q[i] = c THEN Gone ELSE q[i]]
    BY <1>1 DEF Left
<1>3. \A i \in 1..Len(q) : (IF q[i] = c THEN Gone ELSE q[i]) \in Peers
    BY <1>1 DEF Peers
<1>4. Left(q, c) \in [1..Len(q) -> Peers]
    BY <1>2, <1>3
<1>5. Left(q, c) \in Seq(Peers) /\ Len(Left(q, c)) = Len(q)
    BY <1>1, <1>4
<1> QED
    BY <1>1, <1>2, <1>5

LEMMA ClientFacts ==
    /\ Sessions \subseteq Clients /\ Monitor \in Clients /\ Dashboard \in Clients
    /\ Clients \subseteq Peers /\ Gone \in Peers /\ Gone \notin Clients
    /\ \A c \in Peers : c # Gone => c \in Clients
    /\ GatewayThreads \subseteq Clients /\ Dashboard \notin GatewayThreads
BY ClientsAssumption DEF Clients, GatewayThreads, Peers

LEMMA InitIInv == Init => IInv
<1> SUFFICES ASSUME Init PROVE IInv
    OBVIOUS
<1>1. /\ server \in [Services -> {Down, Accepting}]
      /\ \A k \in Services : queue[k] = <<>> /\ server[k].peer = Gone
    <2>1. Down.peer = Gone /\ Accepting.peer = Gone
        BY DEF Down, Accepting
    <2> QED
        BY <2>1 DEF Init
<1>2. Down \in [pc : ServerPlaces, peer : Peers] /\ Accepting \in [pc : ServerPlaces, peer : Peers]
    BY ClientFacts DEF Down, Accepting, ServerPlaces
<1>3. TypeOK
    <2>1. server \in [Services -> [pc : ServerPlaces, peer : Peers]]
        BY <1>1, <1>2
    <2>2. queue \in [Services -> Seq(Peers)]
        <3>1. <<>> \in Seq(Peers)
            OBVIOUS
        <3> QED
            BY <3>1 DEF Init
    <2>3. \A k \in Services : Len(queue[k]) <= Backlog
        BY <1>1, BoundsAssumption
    <2>4. /\ at \in [Clients -> ClientPlaces] /\ to \in [Clients -> Services]
          /\ written \in [Clients -> BOOLEAN] /\ answer \in [Clients -> {"", "label"}]
          /\ inbox \in [Clients -> {"nothing", "answer", "end"}]
        BY DEF Init, ClientPlaces, Services
    <2>5. clicks \in 0..MaxClicks /\ troubled \subseteq GatewayThreads
        <3>1. clicks \in 0..MaxClicks
            <4>1. clicks = 0
                BY Zenon DEF Init
            <4> QED
                BY <4>1, BoundsAssumption
        <3>2. troubled \subseteq GatewayThreads
            BY Zenon DEF Init
        <3> QED
            BY <3>1, <3>2
    <2> QED
        BY <2>1, <2>2, <2>3, <2>4, <2>5 DEF TypeOK
<1>4. Connected
    BY <1>1 DEF Connected, QueueOK, ServedOK
<1>5. NothingLeft
    BY DEF Init, NothingLeft
<1>6. Untroubled
    <2>1. \A c \in GatewayThreads : inbox[c] = "nothing"
        BY ClientFacts DEF Init
    <2>2. \A k \in Services : server[k].peer \notin GatewayThreads
        BY <1>1, ClientFacts
    <2> QED
        BY <2>1, <2>2 DEF Untroubled
<1> QED
    BY <1>3, <1>4, <1>5, <1>6 DEF IInv

--------------------------------------------------------------------------------
\* A service stays in order when it and those that wait for it are left alone.
KeepsWaiters(k) == \A c \in Clients : Waits(c, k) => Waits(c, k)' /\ inbox'[c] = inbox[c]

LEMMA QueueElements ==
    ASSUME TypeOK, NEW k \in Services
    PROVE  /\ queue[k] \in Seq(Peers) /\ Len(queue[k]) \in Nat
           /\ \A i \in 1..Len(queue[k]) : queue[k][i] # Gone => queue[k][i] \in Clients
           /\ server[k].peer # Gone => server[k].peer \in Clients
<1>1. queue[k] \in Seq(Peers) /\ server[k].peer \in Peers
    BY DEF TypeOK
<1>2. Len(queue[k]) \in Nat /\ \A i \in 1..Len(queue[k]) : queue[k][i] \in Peers
    BY <1>1, LenProperties, ElementOfSeq
<1> QED
    BY <1>1, <1>2, ClientFacts

LEMMA ServedKept ==
    ASSUME TypeOK, NEW k \in Services, ServedOK(k), KeepsWaiters(k), server'[k] = server[k]
    PROVE  ServedOK(k)'
BY QueueElements DEF ServedOK, KeepsWaiters, Waits

LEMMA QueueKept ==
    ASSUME TypeOK, NEW k \in Services, QueueOK(k), KeepsWaiters(k), queue'[k] = queue[k],
           server'[k].peer = server[k].peer
    PROVE  QueueOK(k)'
BY QueueElements DEF QueueOK, KeepsWaiters, Waits

\* A client that is not connected has no place anywhere.
LEMMA NotThere ==
    ASSUME TypeOK, Connected, NEW c \in Clients, at[c] \notin {"send", "recv"}, NEW k \in Services
    PROVE  server[k].peer # c /\ \A i \in 1..Len(queue[k]) : queue[k][i] # c
BY ClientFacts DEF Connected, QueueOK, ServedOK, Waits

--------------------------------------------------------------------------------
\* The steps of the clients.  In each, whoever waits for a service goes on waiting, but for
\* the client that steps.
LEMMA OthersWait ==
    ASSUME TypeOK, NEW c \in Clients, NEW place, Goto(c, place),
           \A d \in Clients : d # c => to'[d] = to[d] /\ inbox'[d] = inbox[d]
    PROVE  \A k \in Services, d \in Clients : (d # c /\ Waits(d, k)) =>
              Waits(d, k)' /\ inbox'[d] = inbox[d]
BY DEF TypeOK, Goto, Waits

LEMMA GotoType ==
    ASSUME TypeOK, NEW c \in Clients, NEW place \in ClientPlaces, Goto(c, place)
    PROVE  at' \in [Clients -> ClientPlaces] /\ at'[c] = place
           /\ \A d \in Clients : d # c => at'[d] = at[d]
BY DEF TypeOK, Goto

LEMMA AskStep == ASSUME IInv, NEW c \in Clients, Ask(c) PROVE IInv'
<1>1. /\ at[c] = "idle" /\ (c = Dashboard => clicks < MaxClicks)
      /\ clicks' = IF c = Dashboard THEN clicks + 1 ELSE clicks
      /\ to' = IF c = Monitor
               THEN [to EXCEPT ![c] = IF @ = "threat" THEN "netcond" ELSE "threat"] ELSE to
      /\ answer' = [answer EXCEPT ![c] = ""] /\ Goto(c, "connect")
      /\ UNCHANGED <<written, inbox, server, queue>> /\ troubled' = troubled \ {c}
    BY DEF Ask, serverVars
<1>2. TypeOK /\ Connected /\ NothingLeft /\ Untroubled /\ "connect" \in ClientPlaces
    BY DEF IInv, ClientPlaces
<1>3. /\ at' \in [Clients -> ClientPlaces] /\ at'[c] = "connect"
      /\ \A d \in Clients : d # c => at'[d] = at[d]
    BY <1>1, <1>2, GotoType
<1>4. to' \in [Clients -> Services] /\ \A d \in Clients : d # c => to'[d] = to[d]
    BY <1>1, <1>2 DEF TypeOK, Services
<1>5. TypeOK'
    <2>1. clicks' \in 0..MaxClicks
        <3>1. clicks \in 0..MaxClicks /\ MaxClicks \in Nat
            BY <1>2, BoundsAssumption DEF TypeOK
        <3>2. clicks' = clicks \/ (clicks < MaxClicks /\ clicks' = clicks + 1)
            BY <1>1
        <3> QED
            BY <3>1, <3>2
    <2>2. answer' \in [Clients -> {"", "label"}]
        BY <1>1, <1>2 DEF TypeOK
    <2> QED
        BY <1>1, <1>2, <1>3, <1>4, <2>1, <2>2 DEF TypeOK
<1>6. Connected'
    <2>1. \A k \in Services : KeepsWaiters(k)
        BY <1>1, <1>3, <1>4 DEF KeepsWaiters, Waits
    <2> QED
        BY <1>1, <1>2, <2>1, QueueKept, ServedKept DEF Connected
<1>7. NothingLeft'
    BY <1>1, <1>2, <1>3 DEF NothingLeft
<1>8. Untroubled'
    <2>1. inbox[c] = "nothing" /\ \A k \in Services : server[k].peer # c
        BY <1>1, <1>2, NotThere DEF NothingLeft
    <2> QED
        BY <1>1, <1>2, <2>1 DEF Untroubled
<1> QED
    BY <1>5, <1>6, <1>7, <1>8 DEF IInv

LEMMA ConnectStep == ASSUME IInv, NEW c \in Clients, Connect(c) PROVE IInv'
<1>0. PICK h \in Services : h = to[c]
    BY DEF IInv, TypeOK
<1>1. /\ at[c] = "connect" /\ server[h].pc # "down" /\ Len(queue[h]) < Backlog
      /\ queue' = [queue EXCEPT ![h] = Append(@, c)] /\ Goto(c, "send")
      /\ UNCHANGED <<to, written, inbox, answer, server, clicks, troubled>>
    BY <1>0 DEF Connect
<1>2. /\ TypeOK /\ Connected /\ NothingLeft /\ Untroubled /\ "send" \in ClientPlaces
    BY DEF IInv, ClientPlaces
<1>3. /\ at' \in [Clients -> ClientPlaces] /\ at'[c] = "send"
      /\ \A d \in Clients : d # c => at'[d] = at[d]
    BY <1>1, <1>2, GotoType
<1>4. /\ queue[h] \in Seq(Peers) /\ Len(queue[h]) \in Nat
      /\ Append(queue[h], c) \in Seq(Peers) /\ Len(Append(queue[h], c)) = Len(queue[h]) + 1
      /\ Append(queue[h], c)[Len(queue[h]) + 1] = c
      /\ \A i \in 1..Len(queue[h]) : Append(queue[h], c)[i] = queue[h][i]
    <2>1. queue[h] \in Seq(Peers) /\ c \in Peers
        BY <1>2, QueueElements, ClientFacts
    <2> QED
        BY <2>1, AppendProperties, LenProperties
<1>5. /\ queue'[h] = Append(queue[h], c)
      /\ \A k \in Services : k # h => queue'[k] = queue[k]
      /\ queue' \in [Services -> Seq(Peers)]
    BY <1>1, <1>2, <1>4 DEF TypeOK
<1>6. TypeOK'
    <2>1. \A k \in Services : Len(queue'[k]) <= Backlog
        <3>1. \A k \in Services : Len(queue[k]) <= Backlog
            BY <1>2 DEF TypeOK
        <3>2. Len(queue'[h]) <= Backlog
            BY <1>1, <1>4, <1>5, BoundsAssumption
        <3> QED
            BY <1>5, <3>1, <3>2
    <2> QED
        BY <1>1, <1>2, <1>3, <1>5, <2>1 DEF TypeOK
<1>7. \A k \in Services : KeepsWaiters(k)
    BY <1>1, <1>3 DEF KeepsWaiters, Waits
<1>8. \A k \in Services : ServedOK(k)'
    BY <1>1, <1>2, <1>7, ServedKept DEF Connected
<1>9. \A k \in Services : k # h => QueueOK(k)'
    BY <1>1, <1>2, <1>5, <1>7, QueueKept DEF Connected
<1>10. QueueOK(h)'
    <2>1. server[h].peer # c /\ \A i \in 1..Len(queue[h]) : queue[h][i] # c
        BY <1>1, <1>2, NotThere
    <2>2. Waits(c, h)' /\ inbox'[c] = "nothing" /\ c # Gone
        BY <1>0, <1>1, <1>2, <1>3, ClientFacts DEF Waits, NothingLeft
    <2>3. QueueOK(h) /\ KeepsWaiters(h)
        BY <1>2, <1>7 DEF Connected
    <2>q. PICK q : q = queue[h]
        OBVIOUS
    <2>r. PICK r : r = queue'[h]
        OBVIOUS
    <2>4. /\ Len(q) \in Nat /\ Len(r) = Len(q) + 1 /\ r[Len(q) + 1] = c
          /\ \A i \in 1..Len(q) : r[i] = q[i] /\ q[i] # c
          /\ \A i \in 1..Len(q) : q[i] # Gone => q[i] \in Clients
        BY <1>2, <1>4, <1>5, <2>1, <2>q, <2>r, QueueElements
    <2>5. \A i \in 1..Len(r) : i \in 1..Len(q) \/ i = Len(q) + 1
        BY <2>4
    <2>6. ASSUME NEW i \in 1..Len(r), r[i] # Gone
          PROVE  Waits(r[i], h)' /\ inbox'[r[i]] = "nothing" /\ server'[h].peer # r[i]
        <3>1. CASE i = Len(q) + 1
            <4>1. r[i] = c
                BY <2>4, <3>1
            <4> QED
                BY <1>1, <2>1, <2>2, <4>1
        <3>2. CASE i \in 1..Len(q)
            <4>1. r[i] = q[i] /\ q[i] \in Clients
                BY <2>4, <2>6, <3>2
            <4>2. Waits(q[i], h) /\ inbox[q[i]] = "nothing" /\ server[h].peer # q[i]
                BY <2>3, <2>6, <2>q, <3>2, <4>1 DEF QueueOK
            <4> QED
                BY <1>1, <2>3, <4>1, <4>2 DEF KeepsWaiters
        <3> QED
            BY <2>5, <3>1, <3>2
    <2>7. ASSUME NEW i \in 1..Len(r), NEW j \in 1..Len(r), r[i] # Gone, r[i] = r[j]
          PROVE  i = j
        <3>1. CASE i \in 1..Len(q) /\ j \in 1..Len(q)
            BY <2>3, <2>4, <2>7, <2>q, <3>1 DEF QueueOK
        <3>2. CASE i = Len(q) + 1 \/ j = Len(q) + 1
            BY <2>4, <2>5, <2>7, <3>2
        <3> QED
            BY <2>5, <3>1, <3>2
    <2> QED
        BY <2>6, <2>7, <2>r DEF QueueOK
<1>11. Connected'
    BY <1>8, <1>9, <1>10, <1>1 DEF Connected
<1>12. NothingLeft'
    BY <1>1, <1>2, <1>3 DEF NothingLeft
<1>13. Untroubled'
    BY <1>1, <1>2 DEF Untroubled
<1> QED
    BY <1>6, <1>11, <1>12, <1>13 DEF IInv

LEMMA SendLineStep == ASSUME IInv, NEW c \in Clients, SendLine(c) PROVE IInv'
<1>1. /\ at[c] = "send" /\ written' = [written EXCEPT ![c] = TRUE] /\ Goto(c, "recv")
      /\ UNCHANGED <<to, inbox, answer, server, queue, clicks, troubled>>
    BY DEF SendLine, serverVars
<1>2. TypeOK /\ Connected /\ NothingLeft /\ Untroubled /\ "recv" \in ClientPlaces
    BY DEF IInv, ClientPlaces
<1>3. /\ at' \in [Clients -> ClientPlaces] /\ at'[c] = "recv"
      /\ \A d \in Clients : d # c => at'[d] = at[d]
    BY <1>1, <1>2, GotoType
<1>4. TypeOK'
    <2>1. written' \in [Clients -> BOOLEAN]
        BY <1>1, <1>2 DEF TypeOK
    <2> QED
        BY <1>1, <1>2, <1>3, <2>1 DEF TypeOK
<1>5. Connected'
    <2>1. \A k \in Services : KeepsWaiters(k)
        BY <1>1, <1>3 DEF KeepsWaiters, Waits
    <2> QED
        BY <1>1, <1>2, <2>1, QueueKept, ServedKept DEF Connected
<1>6. NothingLeft'
    BY <1>1, <1>2, <1>3 DEF NothingLeft
<1>7. Untroubled'
    BY <1>1, <1>2 DEF Untroubled
<1> QED
    BY <1>4, <1>5, <1>6, <1>7 DEF IInv

\* A query that returns leaves nothing behind: not its connection, not an answer.
LEMMA ReturnStep ==
    ASSUME IInv, NEW c \in Clients, NEW response \in {"", "label"}, Return(c, response),
           UNCHANGED <<to, clicks>>, troubled' \subseteq GatewayThreads,
           \A d \in troubled : d # c => d \in troubled'
    PROVE  IInv'
<1> DEFINE place == IF c \in Sessions THEN "done" ELSE "idle"
<1>1. /\ answer' = [answer EXCEPT ![c] = response]
      /\ written' = [written EXCEPT ![c] = FALSE]
      /\ inbox' = [inbox EXCEPT ![c] = "nothing"]
      /\ server' = [k \in Services |->
            IF server[k].peer = c THEN [server[k] EXCEPT !.peer = Gone] ELSE server[k]]
      /\ queue' = [k \in Services |-> Left(queue[k], c)]
      /\ Goto(c, place)
    BY DEF Return, CloseEnd
<1>2. TypeOK /\ Connected /\ NothingLeft /\ Untroubled /\ place \in ClientPlaces
    BY DEF IInv, ClientPlaces
<1>3. /\ at' \in [Clients -> ClientPlaces] /\ at'[c] = place
      /\ \A d \in Clients : d # c => at'[d] = at[d]
    BY <1>1, <1>2, GotoType
<1>4. /\ inbox' \in [Clients -> {"nothing", "answer", "end"}] /\ inbox'[c] = "nothing"
      /\ \A d \in Clients : d # c => inbox'[d] = inbox[d]
    BY <1>1, <1>2 DEF TypeOK
<1>5. \A d \in Clients, k \in Services : (d # c /\ Waits(d, k)) => Waits(d, k)' /\ inbox'[d] = inbox[d]
    BY <1>3, <1>4 DEF Waits
<1>6. ASSUME NEW k \in Services
      PROVE  /\ server'[k] \in [pc : ServerPlaces, peer : Peers]
             /\ server'[k].pc = server[k].pc
             /\ server'[k].peer = IF server[k].peer = c THEN Gone ELSE server[k].peer
    <2>1. server[k] \in [pc : ServerPlaces, peer : Peers]
        BY <1>2 DEF TypeOK
    <2>2. server'[k] = IF server[k].peer = c THEN [server[k] EXCEPT !.peer = Gone] ELSE server[k]
        BY <1>1
    <2> QED
        BY <2>1, <2>2, ClientFacts
<1>7. ASSUME NEW k \in Services
      PROVE  /\ queue'[k] \in Seq(Peers) /\ Len(queue'[k]) = Len(queue[k]) /\ Len(queue[k]) \in Nat
             /\ \A i \in 1..Len(queue[k]) :
                   /\ queue[k][i] \in Peers
                   /\ queue'[k][i] = IF queue[k][i] = c THEN Gone ELSE queue[k][i]
    <2>1. queue[k] \in Seq(Peers) /\ queue'[k] = Left(queue[k], c)
        BY <1>1, <1>2 DEF TypeOK
    <2>2. PICK q \in Seq(Peers) : q = queue[k]
        BY <2>1
    <2>3. /\ Left(q, c) \in Seq(Peers) /\ Len(Left(q, c)) = Len(q) /\ Len(q) \in Nat
          /\ \A i \in 1..Len(q) :
                /\ q[i] \in Peers
                /\ Left(q, c)[i] = IF q[i] = c THEN Gone ELSE q[i]
        BY LeftFacts
    <2> QED
        BY <2>1, <2>2, <2>3
<1>8. TypeOK'
    <2>1. answer' \in [Clients -> {"", "label"}] /\ written' \in [Clients -> BOOLEAN]
        BY <1>1, <1>2 DEF TypeOK
    <2>2. server' \in [Services -> [pc : ServerPlaces, peer : Peers]]
        <3>1. server' = [k \in Services |-> server'[k]]
            BY <1>1
        <3> QED
            BY <1>6, <3>1
    <2>3. queue' \in [Services -> Seq(Peers)] /\ \A k \in Services : Len(queue'[k]) <= Backlog
        <3>1. queue' = [k \in Services |-> queue'[k]]
            BY <1>1
        <3>2. \A k \in Services : Len(queue[k]) <= Backlog
            BY <1>2 DEF TypeOK
        <3> QED
            BY <1>7, <3>1, <3>2
    <2> QED
        BY <1>2, <1>3, <1>4, <2>1, <2>2, <2>3 DEF TypeOK
<1>9. ASSUME NEW k \in Services PROVE QueueOK(k)' /\ ServedOK(k)'
    <2>1. QueueOK(k) /\ ServedOK(k)
        BY <1>2 DEF Connected
    <2>2. ServedOK(k)'
        <3>1. /\ server'[k].pc = server[k].pc
              /\ server'[k].peer # Gone =>
                    server'[k].peer = server[k].peer /\ server[k].peer \in Clients
                    /\ server[k].peer # c
              /\ server[k].peer = Gone => server'[k].peer = Gone
            BY <1>2, <1>6, QueueElements
        <3> QED
            BY <1>5, <2>1, <3>1 DEF ServedOK
    <2>3. PICK q : q = queue[k]
        OBVIOUS
    <2>4. PICK r : r = queue'[k]
        OBVIOUS
    <2>5. /\ Len(r) = Len(q)
          /\ \A i \in 1..Len(q) : r[i] # Gone => r[i] = q[i] /\ q[i] \in Clients /\ q[i] # c
        BY <1>7, <2>3, <2>4, ClientFacts
    <2>6. ASSUME NEW i \in 1..Len(r), r[i] # Gone
          PROVE  Waits(r[i], k)' /\ inbox'[r[i]] = "nothing" /\ server'[k].peer # r[i]
        <3>1. r[i] = q[i] /\ q[i] \in Clients /\ q[i] # c
            BY <2>5, <2>6
        <3>2. Waits(q[i], k) /\ inbox[q[i]] = "nothing" /\ server[k].peer # q[i]
            BY <2>1, <2>3, <2>5, <2>6, <3>1 DEF QueueOK
        <3>3. server'[k].peer # q[i]
            BY <1>6, <2>6, <3>1, <3>2
        <3> QED
            BY <1>5, <3>1, <3>2, <3>3
    <2>7. ASSUME NEW i \in 1..Len(r), NEW j \in 1..Len(r), r[i] # Gone, r[i] = r[j]
          PROVE  i = j
        <3>1. q[i] # Gone /\ q[i] = q[j] /\ i \in 1..Len(q) /\ j \in 1..Len(q)
            BY <2>5, <2>7
        <3> QED
            BY <2>1, <2>3, <3>1 DEF QueueOK
    <2>8. QueueOK(k)'
        BY <2>4, <2>6, <2>7 DEF QueueOK
    <2> QED
        BY <2>2, <2>8
<1>10. Connected'
    BY <1>9 DEF Connected
<1>11. NothingLeft'
    BY <1>2, <1>3, <1>4 DEF NothingLeft
<1>12. Untroubled'
    <2>1. \A d \in GatewayThreads : inbox'[d] = "end" => d \in troubled'
        BY <1>2, <1>4, ClientFacts DEF Untroubled
    <2>2. ASSUME NEW k \in Services, server'[k].pc = "close", server'[k].peer \in GatewayThreads
          PROVE  inbox'[server'[k].peer] = "answer" \/ server'[k].peer \in troubled'
        <3>1. PICK d \in GatewayThreads : d = server[k].peer /\ d = server'[k].peer /\ d # c
            BY <1>6, <2>2, ClientFacts
        <3>2. inbox[d] = "answer" \/ d \in troubled
            BY <1>2, <1>6, <2>2, <3>1 DEF Untroubled
        <3> QED
            BY <1>4, <3>1, <3>2, ClientFacts
    <2> QED
        BY <2>1, <2>2 DEF Untroubled
<1> QED
    BY <1>8, <1>10, <1>11, <1>12 DEF IInv

LEMMA ClientReturns ==
    ASSUME IInv, NEW c \in Clients,
           ConnectRefused(c) \/ RecvAnswer(c) \/ SocketFails(c)
              \/ (c = Dashboard /\ DashboardTimeout)
    PROVE  IInv'
<1>1. troubled \subseteq GatewayThreads
    BY DEF IInv, TypeOK
<1>2. PICK response \in {"", "label"} :
          /\ Return(c, response) /\ UNCHANGED <<to, clicks>>
          /\ troubled' \subseteq GatewayThreads
          /\ \A d \in troubled : d # c => d \in troubled'
    BY <1>1 DEF ConnectRefused, RecvAnswer, SocketFails, DashboardTimeout
<1> QED
    BY <1>2, ReturnStep

--------------------------------------------------------------------------------
\* The steps of the services.  No client moves.
LEMMA ServeFacts ==
    ASSUME TypeOK, NEW k \in Services, NEW place \in ServerPlaces, NEW peer \in Peers,
           server' = [server EXCEPT ![k] = [pc |-> place, peer |-> peer]]
    PROVE  /\ server' \in [Services -> [pc : ServerPlaces, peer : Peers]]
           /\ server'[k].pc = place /\ server'[k].peer = peer
           /\ \A h \in Services : h # k => server'[h] = server[h]
BY DEF TypeOK

\* A service only touches the connection of the client it serves, which waits for no other.
LEMMA ServiceFrame ==
    ASSUME TypeOK, Connected, NEW k \in Services, UNCHANGED <<at, to>>,
           \A c \in Clients : c # server[k].peer => inbox'[c] = inbox[c]
    PROVE  /\ \A h \in Services : h # k => KeepsWaiters(h)
           /\ server[k].peer = Gone => KeepsWaiters(k)
           /\ \A c \in Clients, h \in Services : Waits(c, h) => Waits(c, h)'
<1>1. \A c \in Clients, h \in Services : Waits(c, h) => Waits(c, h)'
    BY DEF Waits
<1>2. ASSUME NEW h \in Services, h # k PROVE KeepsWaiters(h)
    <2>1. \A c \in Clients : Waits(c, h) => c # server[k].peer
        BY <1>2, ClientFacts DEF Connected, ServedOK, Waits
    <2> QED
        BY <1>1, <2>1 DEF KeepsWaiters
<1>3. ASSUME server[k].peer = Gone PROVE KeepsWaiters(k)
    BY <1>1, <1>3, ClientFacts DEF KeepsWaiters
<1> QED
    BY <1>1, <1>2, <1>3

\* A queue is in order whatever the service does to the client it serves.
LEMMA QueueApart ==
    ASSUME TypeOK, NEW k \in Services, QueueOK(k), UNCHANGED <<at, to>>,
           \A c \in Clients : c # server[k].peer => inbox'[c] = inbox[c],
           queue'[k] = queue[k], server'[k].peer \in {server[k].peer, Gone}
    PROVE  QueueOK(k)'
<1>1. PICK q : q = queue[k]
    OBVIOUS
<1>2. ASSUME NEW i \in 1..Len(q), q[i] # Gone
      PROVE  Waits(q[i], k)' /\ inbox'[q[i]] = "nothing" /\ server'[k].peer # q[i]
    <2>1. PICK c \in Clients : c = q[i]
        BY <1>1, <1>2, QueueElements
    <2>2. Waits(c, k) /\ inbox[c] = "nothing" /\ server[k].peer # c
        BY <1>1, <1>2, <2>1 DEF QueueOK
    <2>3. Waits(c, k)' /\ inbox'[c] = "nothing" /\ server'[k].peer # c
        BY <2>2, ClientFacts DEF Waits
    <2> QED
        BY <2>1, <2>3
<1>3. \A i, j \in 1..Len(q) : (q[i] # Gone /\ q[i] = q[j]) => i = j
    BY <1>1 DEF QueueOK
<1> QED
    BY <1>1, <1>2, <1>3 DEF QueueOK

LEMMA ServingStep ==
    ASSUME IInv, NEW k \in Services, NEW place \in ServerPlaces,
           NEW peer \in {server[k].peer, Gone},
           server' = [server EXCEPT ![k] = [pc |-> place, peer |-> peer]],
           inbox' \in [Clients -> {"nothing", "answer", "end"}],
           \A c \in Clients : c # server[k].peer => inbox'[c] = inbox[c],
           UNCHANGED <<at, to, written, answer, queue, clicks>>,
           troubled \subseteq troubled', troubled' \subseteq GatewayThreads,
           place \in {"down", "accept"} => peer = Gone,
           peer # Gone => inbox'[peer] # "end" /\ (place # "close" => inbox'[peer] = "nothing"),
           server[k].peer \in GatewayThreads \ troubled' => inbox'[server[k].peer] # "end",
           (place = "close" /\ peer \in GatewayThreads \ troubled') => inbox'[peer] = "answer"
    PROVE  IInv'
<1>1. TypeOK /\ Connected /\ NothingLeft /\ Untroubled /\ server[k].peer \in Peers /\ peer \in Peers
    <2>1. TypeOK /\ Connected /\ NothingLeft /\ Untroubled
        BY DEF IInv
    <2>2. server[k].peer \in Peers
        BY <2>1 DEF TypeOK
    <2> QED
        BY <2>1, <2>2, ClientFacts
<1>2. /\ server' \in [Services -> [pc : ServerPlaces, peer : Peers]]
      /\ server'[k].pc = place /\ server'[k].peer = peer
      /\ \A h \in Services : h # k => server'[h] = server[h]
    BY <1>1, ServeFacts
<1>3. /\ \A h \in Services : h # k => KeepsWaiters(h)
      /\ \A c \in Clients, h \in Services : Waits(c, h) => Waits(c, h)'
    BY <1>1, ServiceFrame
<1>4. TypeOK'
    BY <1>1, <1>2 DEF TypeOK
<1>5. Connected'
    <2>1. ASSUME NEW h \in Services, h # k PROVE QueueOK(h)' /\ ServedOK(h)'
        BY <1>1, <1>2, <1>3, <2>1, QueueKept, ServedKept DEF Connected
    <2>2. QueueOK(k)'
        BY <1>1, <1>2, QueueApart DEF Connected
    <2>3. ServedOK(k)'
        <3>1. peer # Gone => Waits(peer, k)
            BY <1>1 DEF Connected, ServedOK
        <3>2. peer # Gone => Waits(peer, k)'
            BY <3>1 DEF Waits
        <3> QED
            BY <1>2, <3>2 DEF ServedOK
    <2> QED
        BY <2>1, <2>2, <2>3 DEF Connected
<1>6. NothingLeft'
    <2>1. \A c \in Clients : c = server[k].peer => at[c] \in {"send", "recv"}
        BY <1>1, ClientFacts DEF Connected, ServedOK, Waits
    <2> QED
        BY <1>1, <2>1 DEF NothingLeft
<1>7. Untroubled'
    <2>1. \A c \in GatewayThreads : inbox'[c] = "end" => c \in troubled'
        BY <1>1, ClientFacts DEF Untroubled
    <2>2. ASSUME NEW h \in Services, h # k,
                 server'[h].pc = "close", server'[h].peer \in GatewayThreads
          PROVE  inbox'[server'[h].peer] = "answer" \/ server'[h].peer \in troubled'
        <3>1. PICK c \in GatewayThreads : c = server[h].peer /\ server[h].pc = "close"
            BY <1>2, <2>2
        <3>2. inbox[c] = "answer" \/ c \in troubled
            BY <1>1, <3>1 DEF Untroubled
        <3>3. inbox'[c] = inbox[c]
            BY <1>1, <1>3, <2>2, <3>1, ClientFacts DEF KeepsWaiters, Connected, ServedOK
        <3> QED
            BY <1>2, <2>2, <3>1, <3>2, <3>3
    <2> QED
        BY <1>2, <2>1, <2>2 DEF Untroubled
<1> QED
    BY <1>4, <1>5, <1>6, <1>7 DEF IInv

\* What serving needs of the invariant.
LEMMA ServingFacts ==
    ASSUME IInv, NEW k \in Services
    PROVE  /\ server[k].peer # Gone => server[k].peer \in Clients
           /\ server[k].peer # Gone =>
                 /\ inbox[server[k].peer] # "end"
                 /\ server[k].pc # "close" => inbox[server[k].peer] = "nothing"
           /\ (server[k].pc = "close" /\ server[k].peer \in GatewayThreads \ troubled) =>
                 inbox[server[k].peer] = "answer"
           /\ inbox \in [Clients -> {"nothing", "answer", "end"}]
           /\ troubled \subseteq GatewayThreads /\ Gone \notin GatewayThreads
BY QueueElements, ClientFacts DEF IInv, TypeOK, Connected, ServedOK, Untroubled

LEMMA ReadLineStep == ASSUME IInv, NEW k \in Services, ReadLine(k) PROVE IInv'
<1>1. /\ server[k].pc = "recv"
      /\ UNCHANGED <<at, to, written, inbox, answer, queue, clicks, troubled>>
      /\ \/ server' = [server EXCEPT ![k] = [pc |-> "reply", peer |-> server[k].peer]]
         \/ server' = [server EXCEPT ![k] = [pc |-> "close", peer |-> Gone]]
    BY DEF ReadLine, Serve, clientVars
<1>2. "reply" \in ServerPlaces /\ "close" \in ServerPlaces
    BY DEF ServerPlaces
<1>3. CASE server' = [server EXCEPT ![k] = [pc |-> "reply", peer |-> server[k].peer]]
    BY <1>1, <1>2, <1>3, ServingFacts, ServingStep
<1>4. CASE server' = [server EXCEPT ![k] = [pc |-> "close", peer |-> Gone]]
    BY <1>1, <1>2, <1>4, ServingFacts, ServingStep
<1> QED
    BY <1>1, <1>3, <1>4

LEMMA AnswerStep == ASSUME IInv, NEW k \in Services, Answer(k) PROVE IInv'
<1>1. PICK p : p = server[k].peer
    OBVIOUS
<1>2. /\ server[k].pc = "reply"
      /\ inbox' = IF p = Gone THEN inbox ELSE [inbox EXCEPT ![p] = "answer"]
      /\ server' = [server EXCEPT ![k] = [pc |-> "close", peer |-> p]]
      /\ UNCHANGED <<at, to, written, answer, queue, clicks, troubled>>
    BY <1>1 DEF Answer, Serve
<1>3. /\ inbox' \in [Clients -> {"nothing", "answer", "end"}]
      /\ \A c \in Clients : c # p => inbox'[c] = inbox[c]
      /\ p # Gone => inbox'[p] = "answer"
    BY <1>1, <1>2, ServingFacts
<1>4. "close" \in ServerPlaces
    BY DEF ServerPlaces
<1>5. troubled \subseteq troubled' /\ troubled' \subseteq GatewayThreads
    BY <1>2, ServingFacts
<1>6. p \in {server[k].peer, Gone} /\ (p # Gone => inbox'[p] # "end")
    BY <1>1, <1>3
<1>7. UNCHANGED <<at, to, written, answer, queue, clicks>>
    BY <1>2
<1>8. server' = [server EXCEPT ![k] = [pc |-> "close", peer |-> p]]
    BY <1>2
<1>9. p \in GatewayThreads => p # Gone /\ inbox'[p] = "answer"
    BY <1>3, ServingFacts
<1> QED
    BY <1>1, <1>3, <1>4, <1>5, <1>6, <1>7, <1>8, <1>9, ServingStep

LEMMA HandlerFailsStep == ASSUME IInv, NEW k \in Services, HandlerFails(k) PROVE IInv'
<1>1. /\ server[k].pc = "reply"
      /\ troubled' = troubled \cup ({server[k].peer} \cap GatewayThreads)
      /\ server' = [server EXCEPT ![k] = [pc |-> "close", peer |-> server[k].peer]]
      /\ UNCHANGED <<at, to, written, inbox, answer, queue, clicks>>
    BY DEF HandlerFails, Serve, clientVars
<1>2. "close" \in ServerPlaces
    BY DEF ServerPlaces
<1> QED
    BY <1>1, <1>2, ServingFacts, ServingStep

LEMMA CloseConnectionStep == ASSUME IInv, NEW k \in Services, CloseConnection(k) PROVE IInv'
<1>1. PICK p : p = server[k].peer
    OBVIOUS
<1>2. /\ server[k].pc = "close"
      /\ inbox' = IF p = Gone THEN inbox ELSE [inbox EXCEPT ![p] = Ended(p)]
      /\ server' = [server EXCEPT ![k] = [pc |-> "accept", peer |-> Gone]]
      /\ UNCHANGED <<at, to, written, answer, queue, clicks, troubled>>
    BY <1>1 DEF CloseConnection, Accepting
<1>3. /\ inbox' \in [Clients -> {"nothing", "answer", "end"}]
      /\ \A c \in Clients : c # p => inbox'[c] = inbox[c]
      /\ (p # Gone /\ inbox[p] = "answer") => inbox'[p] = "answer"
    <2>1. p \in Clients => Ended(p) \in {"nothing", "answer", "end"}
        BY ServingFacts DEF Ended
    <2>2. p # Gone => p \in Clients
        BY <1>1, ServingFacts
    <2>3. inbox[p] = "answer" => Ended(p) = "answer"
        BY DEF Ended
    <2> QED
        BY <1>2, <2>1, <2>2, <2>3, ServingFacts
<1>4. "accept" \in ServerPlaces
    BY DEF ServerPlaces
<1>5. troubled \subseteq troubled' /\ troubled' \subseteq GatewayThreads
    BY <1>2, ServingFacts
<1>6. p \in GatewayThreads \ troubled' => inbox'[p] = "answer"
    BY <1>1, <1>2, <1>3, ServingFacts
<1> QED
    BY <1>1, <1>2, <1>3, <1>4, <1>5, <1>6, ServingStep

LEMMA AcceptClientStep == ASSUME IInv, NEW k \in Services, AcceptClient(k) PROVE IInv'
<1>1. PICK q : q = queue[k]
    OBVIOUS
<1>2. /\ server[k].pc = "accept" /\ q # <<>>
      /\ server' = [server EXCEPT ![k] = [pc |-> "recv", peer |-> Head(q)]]
      /\ queue' = [queue EXCEPT ![k] = Tail(@)]
      /\ UNCHANGED <<at, to, written, inbox, answer, clicks, troubled>>
    BY <1>1 DEF AcceptClient, Serve, clientVars
<1>3. TypeOK /\ Connected /\ NothingLeft /\ Untroubled /\ "recv" \in ServerPlaces
    BY DEF IInv, ServerPlaces
<1>4. q \in Seq(Peers) /\ Len(q) \in Nat
    BY <1>1, <1>3, QueueElements
<1>5. /\ Len(q) >= 1 /\ Head(q) = q[1] /\ q[1] \in Peers /\ Tail(q) \in Seq(Peers)
      /\ Len(Tail(q)) = Len(q) - 1
      /\ \A i \in 1..Len(q) - 1 : Tail(q)[i] = q[i + 1]
    <2>1. Len(q) # 0
        BY <1>2, <1>4, EmptySeq
    <2>2. Len(q) >= 1
        BY <1>4, <2>1
    <2> QED
        BY <1>2, <1>4, <2>2, HeadTailProperties, ElementOfSeq
<1>6. /\ server' \in [Services -> [pc : ServerPlaces, peer : Peers]]
      /\ server'[k].pc = "recv" /\ server'[k].peer = q[1]
      /\ \A h \in Services : h # k => server'[h] = server[h]
    BY <1>2, <1>3, <1>5, ServeFacts
<1>7. /\ queue' \in [Services -> Seq(Peers)] /\ queue'[k] = Tail(q)
      /\ \A h \in Services : h # k => queue'[h] = queue[h]
    BY <1>1, <1>2, <1>3, <1>5 DEF TypeOK
<1>8. TypeOK'
    <2>1. \A h \in Services : Len(queue[h]) <= Backlog
        BY <1>3 DEF TypeOK
    <2>2. Len(queue'[k]) <= Backlog
        BY <1>1, <1>4, <1>5, <1>7, <2>1, BoundsAssumption
    <2>3. \A h \in Services : Len(queue'[h]) <= Backlog
        BY <1>7, <2>1, <2>2
    <2> QED
        BY <1>2, <1>3, <1>6, <1>7, <2>3 DEF TypeOK
<1>9. QueueOK(k) /\ \A h \in Services : KeepsWaiters(h)
    BY <1>2, <1>3 DEF Connected, KeepsWaiters, Waits
<1>10. ASSUME NEW h \in Services, h # k PROVE QueueOK(h)' /\ ServedOK(h)'
    BY <1>3, <1>6, <1>7, <1>9, <1>10, QueueKept, ServedKept DEF Connected
<1>11. \A i \in 1..Len(q) : q[i] # Gone =>
          q[i] \in Clients /\ Waits(q[i], k) /\ inbox[q[i]] = "nothing"
    BY <1>1, <1>3, <1>9, QueueElements DEF QueueOK
<1>12. \A i, j \in 1..Len(q) : (q[i] # Gone /\ q[i] = q[j]) => i = j
    BY <1>1, <1>9 DEF QueueOK
<1>13. QueueOK(k)'
    <2>1. PICK r : r = Tail(q)
        OBVIOUS
    <2>2. /\ Len(r) = Len(q) - 1
          /\ \A i \in 1..Len(r) : i + 1 \in 1..Len(q) /\ r[i] = q[i + 1]
        BY <1>4, <1>5, <2>1
    <2>3. ASSUME NEW i \in 1..Len(r), r[i] # Gone
          PROVE  Waits(r[i], k)' /\ inbox'[r[i]] = "nothing" /\ server'[k].peer # r[i]
        <3>1. PICK c \in Clients : c = r[i] /\ c = q[i + 1]
            BY <1>11, <2>2, <2>3
        <3>2. Waits(c, k) /\ inbox[c] = "nothing"
            BY <1>11, <2>2, <2>3, <3>1
        <3>3. q[1] # c
            <4>1. 1 \in 1..Len(q) /\ i + 1 \in 1..Len(q) /\ i + 1 # 1
                BY <1>4, <1>5, <2>2
            <4> QED
                BY <1>12, <2>3, <3>1, <4>1
        <3>4. Waits(c, k)' /\ inbox'[c] = "nothing" /\ server'[k].peer # c
            BY <1>2, <1>6, <3>2, <3>3 DEF Waits
        <3> QED
            BY <3>1, <3>4
    <2>4. ASSUME NEW i \in 1..Len(r), NEW j \in 1..Len(r), r[i] # Gone, r[i] = r[j]
          PROVE  i = j
        <3>1. i + 1 = j + 1
            BY <1>12, <2>2, <2>4
        <3> QED
            BY <1>4, <2>2, <3>1
    <2> QED
        BY <1>7, <2>1, <2>3, <2>4 DEF QueueOK
<1>14. ServedOK(k)'
    <2>1. PICK c : c = q[1]
        OBVIOUS
    <2>2. c # Gone => c \in Clients /\ Waits(c, k) /\ inbox[c] = "nothing"
        <3>1. 1 \in 1..Len(q)
            BY <1>4, <1>5
        <3> QED
            BY <1>11, <2>1, <3>1
    <2>3. c # Gone => Waits(c, k)' /\ inbox'[c] = "nothing"
        BY <1>2, <2>2 DEF Waits
    <2> QED
        BY <1>6, <2>1, <2>3 DEF ServedOK
<1>15. Connected'
    BY <1>10, <1>13, <1>14 DEF Connected
<1>16. NothingLeft'
    BY <1>2, <1>3 DEF NothingLeft
<1>17. Untroubled'
    BY <1>2, <1>3, <1>6 DEF Untroubled
<1> QED
    BY <1>8, <1>15, <1>16, <1>17 DEF IInv

LEMMA ServerEndsStep == ASSUME IInv, ServerEnds PROVE IInv'
<1>1. /\ inbox' = [c \in Clients |->
            IF c \in Attached THEN Ended(c) ELSE inbox[c]]
      /\ server' = [k \in Services |-> Down] /\ queue' = [k \in Services |-> <<>>]
      /\ troubled' = troubled \cup (Attached \cap GatewayThreads)
      /\ UNCHANGED <<at, to, written, answer, clicks>>
    BY DEF ServerEnds
<1>2. TypeOK /\ Connected /\ NothingLeft /\ Untroubled
    BY DEF IInv
<1>3. \A k \in Services : server'[k].pc = "down" /\ server'[k].peer = Gone /\ queue'[k] = <<>>
    BY <1>1 DEF Down
<1>4. ASSUME NEW c \in Clients
      PROVE  /\ inbox'[c] \in {"nothing", "answer", "end"}
             /\ at[c] \in {"idle", "connect", "done"} => inbox'[c] = inbox[c]
    <2>1. inbox[c] \in {"nothing", "answer", "end"} /\ Ended(c) \in {"nothing", "answer", "end"}
        BY <1>2 DEF TypeOK, Ended
    <2>2. inbox'[c] \in {inbox[c], Ended(c)}
        BY <1>1
    <2>3. ASSUME at[c] \in {"idle", "connect", "done"}, NEW k \in Services PROVE c \notin Connections(k)
        <3>1. server[k].peer # c /\ \A i \in 1..Len(queue[k]) : queue[k][i] # c
            BY <1>2, <2>3, NotThere
        <3>2. DOMAIN queue[k] = 1..Len(queue[k])
            BY <1>2, QueueElements, LenProperties
        <3> QED
            BY <3>1, <3>2 DEF Connections
    <2>4. at[c] \in {"idle", "connect", "done"} => inbox'[c] = inbox[c]
        BY <1>1, <2>3 DEF Attached
    <2> QED
        BY <2>1, <2>2, <2>4
<1>5. TypeOK'
    <2>1. server' \in [Services -> [pc : ServerPlaces, peer : Peers]]
        <3>1. Down \in [pc : ServerPlaces, peer : Peers]
            BY ClientFacts DEF Down, ServerPlaces
        <3> QED
            BY <1>1, <3>1
    <2>2. queue' \in [Services -> Seq(Peers)] /\ \A k \in Services : Len(queue'[k]) <= Backlog
        <3>1. <<>> \in Seq(Peers) /\ Len(<<>>) = 0
            OBVIOUS
        <3> QED
            BY <1>1, <3>1, BoundsAssumption
    <2>3. inbox' \in [Clients -> {"nothing", "answer", "end"}]
        <3>1. inbox' = [c \in Clients |-> inbox'[c]]
            BY <1>1
        <3> QED
            BY <1>4, <3>1
    <2> QED
        BY <1>1, <1>2, <2>1, <2>2, <2>3 DEF TypeOK
<1>6. Connected'
    BY <1>3 DEF Connected, QueueOK, ServedOK
<1>7. NothingLeft'
    BY <1>1, <1>2, <1>4 DEF NothingLeft
<1>8. Untroubled'
    <2>1. \A c \in GatewayThreads : inbox'[c] = "end" => c \in troubled'
        BY <1>1, <1>2, ClientFacts DEF Untroubled
    <2> QED
        BY <1>3, <2>1 DEF Untroubled
<1> QED
    BY <1>5, <1>6, <1>7, <1>8 DEF IInv

LEMMA ServerStartsStep == ASSUME IInv, ServerStarts PROVE IInv'
<1>1. /\ \A k \in Services : server[k] = Down
      /\ UNCHANGED <<at, to, written, inbox, answer, queue, clicks, troubled>>
    BY DEF ServerStarts, clientVars
<1>2. PICK up : server' = [k \in Services |-> IF k \in up THEN Accepting ELSE Down]
    BY DEF ServerStarts
<1>3. TypeOK /\ Connected /\ NothingLeft /\ Untroubled
    BY DEF IInv
<1>4. \A k \in Services : server'[k].peer = Gone /\ server[k].peer = Gone /\ server[k].pc = "down"
    BY <1>1, <1>2 DEF Accepting, Down
<1>5. TypeOK'
    <2>1. Down \in [pc : ServerPlaces, peer : Peers] /\ Accepting \in [pc : ServerPlaces, peer : Peers]
        BY ClientFacts DEF Down, Accepting, ServerPlaces
    <2>2. server' \in [Services -> [pc : ServerPlaces, peer : Peers]]
        BY <1>2, <2>1
    <2> QED
        BY <1>1, <1>3, <2>2 DEF TypeOK
<1>6. Connected'
    <2>1. \A k \in Services : KeepsWaiters(k)
        BY <1>1 DEF KeepsWaiters, Waits
    <2>2. \A k \in Services : QueueOK(k)'
        BY <1>1, <1>3, <1>4, <2>1, QueueKept DEF Connected
    <2>3. \A k \in Services : ServedOK(k)'
        BY <1>4 DEF ServedOK
    <2> QED
        BY <2>2, <2>3 DEF Connected
<1>7. NothingLeft'
    BY <1>1, <1>3 DEF NothingLeft
<1>8. Untroubled'
    BY <1>1, <1>3, <1>4, ClientFacts DEF Untroubled
<1> QED
    BY <1>5, <1>6, <1>7, <1>8 DEF IInv

--------------------------------------------------------------------------------
LEMMA NextIInv == IInv /\ [Next]_vars => IInv'
<1> SUFFICES ASSUME IInv, [Next]_vars PROVE IInv'
    OBVIOUS
<1>1. ASSUME NEW c \in Clients, Ask(c) PROVE IInv'
    BY <1>1, AskStep
<1>2. ASSUME NEW c \in Clients, Connect(c) PROVE IInv'
    BY <1>2, ConnectStep
<1>3. ASSUME NEW c \in Clients, SendLine(c) PROVE IInv'
    BY <1>3, SendLineStep
<1>4. ASSUME NEW c \in Clients, ConnectRefused(c) \/ RecvAnswer(c) PROVE IInv'
    BY <1>4, ClientReturns
<1>14. ASSUME NEW c \in Clients, SocketFails(c) PROVE IInv'
    BY <1>14, ClientReturns
<1>5. CASE DashboardTimeout
    BY <1>5, ClientReturns, ClientFacts
<1>6. ASSUME NEW k \in Services, AcceptClient(k) PROVE IInv'
    BY <1>6, AcceptClientStep
<1>7. ASSUME NEW k \in Services, ReadLine(k) PROVE IInv'
    BY <1>7, ReadLineStep
<1>8. ASSUME NEW k \in Services, Answer(k) PROVE IInv'
    BY <1>8, AnswerStep
<1>9. ASSUME NEW k \in Services, HandlerFails(k) PROVE IInv'
    BY <1>9, HandlerFailsStep
<1>10. ASSUME NEW k \in Services, CloseConnection(k) PROVE IInv'
    BY <1>10, CloseConnectionStep
<1>11. CASE ServerEnds
    BY <1>11, ServerEndsStep
<1>12. CASE ServerStarts
    BY <1>12, ServerStartsStep
<1>13. CASE UNCHANGED vars
    <2>1. UNCHANGED <<at, to, written, inbox, answer, server, queue, clicks, troubled>>
        BY <1>13 DEF vars, clientVars, serverVars
    <2>2. \A k \in Services : KeepsWaiters(k)
        BY <2>1 DEF KeepsWaiters, Waits
    <2>3. Connected'
        BY <2>1, <2>2, QueueKept, ServedKept DEF IInv, Connected
    <2> QED
        BY <2>1, <2>3 DEF IInv, TypeOK, NothingLeft, Untroubled
<1> QED
    BY <1>1, <1>2, <1>3, <1>4, <1>5, <1>6, <1>7, <1>8, <1>9, <1>10, <1>11, <1>12, <1>13,
       <1>14
    DEF Next, QueryStep, ServiceStep

\* The inductive invariant holds throughout.
THEOREM Invariance == Spec => []IInv
BY InitIInv, NextIInv, PTL DEF Spec

\* The variables keep their types, and no backlog holds more than listen allows
\* (model_server.py, _serve).
THEOREM TypeCorrect == Spec => []TypeOK
<1>1. IInv => TypeOK
    BY DEF IInv
<1> QED
    BY <1>1, Invariance, PTL

\* A client has one connection at most, with the service it asks, and nothing of one query
\* is left for the next (ai_bridge.c, query_sock; model_server.py, _serve).
THEOREM OneConnection == Spec => []OneConnectionEach
<1>1. IInv => OneConnectionEach
    <2>1. SUFFICES ASSUME IInv, NEW c \in Clients
                   PROVE  /\ \A x, y \in Held(c) : x = y
                          /\ \A x \in Held(c) : x[1] = to[c]
                          /\ at[c] \in {"idle", "connect", "done"} => inbox[c] = "nothing"
        BY DEF OneConnectionEach
    <2>2. TypeOK /\ Connected /\ NothingLeft /\ c # Gone
        <3>1. c # Gone
            BY <2>1, ClientFacts
        <3> QED
            BY <2>1, <3>1 DEF IInv
    <2>3. ASSUME NEW x \in Held(c)
          PROVE  /\ x[1] \in Services /\ x[2] \in Nat /\ x = <<x[1], x[2]>>
                 /\ x[2] = 0 => server[x[1]].peer = c
                 /\ x[2] # 0 => x[2] \in 1..Len(queue[x[1]]) /\ queue[x[1]][x[2]] = c
        <3>1. x \in Services \X (0..Backlog)
            BY DEF Held
        <3>2. x[1] \in Services /\ x[2] \in 0..Backlog /\ x = <<x[1], x[2]>>
            BY <3>1
        <3>3. Len(queue[x[1]]) \in Nat
            BY <2>2, <3>2, QueueElements
        <3>4. IF x[2] = 0 THEN server[x[1]].peer = c
              ELSE x[2] <= Len(queue[x[1]]) /\ queue[x[1]][x[2]] = c
            BY DEF Held
        <3> QED
            BY <3>2, <3>3, <3>4
    <2>4. ASSUME NEW x \in Held(c) PROVE x[1] = to[c]
        <3>1. QueueOK(x[1]) /\ ServedOK(x[1])
            BY <2>2, <2>3 DEF Connected
        <3>2. Waits(c, x[1])
            BY <2>2, <2>3, <3>1 DEF QueueOK, ServedOK
        <3> QED
            BY <3>2 DEF Waits
    <2>5. ASSUME NEW x \in Held(c), NEW y \in Held(c) PROVE x = y
        <3>1. PICK k \in Services : k = x[1] /\ k = y[1]
            BY <2>3, <2>4
        <3>2. QueueOK(k)
            BY <2>2 DEF Connected
        <3>3. PICK i \in Nat, j \in Nat : i = x[2] /\ j = y[2]
            BY <2>3
        <3>4. /\ i = 0 => server[k].peer = c
              /\ i # 0 => i \in 1..Len(queue[k]) /\ queue[k][i] = c
              /\ j = 0 => server[k].peer = c
              /\ j # 0 => j \in 1..Len(queue[k]) /\ queue[k][j] = c
            BY <2>3, <3>1, <3>3
        <3>5. i = j
            <4>1. CASE i # 0 /\ j # 0
                BY <2>2, <3>2, <3>4, <4>1 DEF QueueOK
            <4>2. CASE i = 0 /\ j # 0
                BY <2>2, <3>2, <3>4, <4>2 DEF QueueOK
            <4>3. CASE i # 0 /\ j = 0
                BY <2>2, <3>2, <3>4, <4>3 DEF QueueOK
            <4> QED
                BY <4>1, <4>2, <4>3
        <3> QED
            BY <2>3, <3>1, <3>3, <3>5
    <2> QED
        BY <2>2, <2>4, <2>5 DEF NothingLeft
<1> QED
    BY <1>1, Invariance, PTL

\* A query of the gateway returns a label unless this query met a failure of socket(), of
\* its handler or of the process that served it, or found the service not there
\* (ai_bridge.c, query_sock), however many threads ask at once, whoever else's query
\* fails and whenever the dashboard walks away from a query of its own.
THEOREM LabelUnlessFailure == Spec => EmptyOnlyAfterFailure
<1> DEFINE Promise(c) ==
              /\ (at[c] = "recv" /\ Returned(c)') => answer'[c] = "label" \/ c \in troubled
              /\ (at[c] = "connect" /\ Returned(c)') =>
                    server[to[c]].pc = "down" \/ c \in troubled'
<1>1. IInv /\ [Next]_vars => [\A c \in GatewayThreads : Promise(c)]_vars
    <2>1. SUFFICES ASSUME IInv, Next, NEW c \in GatewayThreads, at[c] \in {"connect", "recv"},
                          Returned(c)'
                   PROVE  Promise(c)
        OBVIOUS
    <2>2. TypeOK /\ Untroubled /\ c \in Clients /\ c # Dashboard
        BY <2>1, ClientFacts DEF IInv
    <2>3. at'[c] \in {"done", "idle"} /\ at'[c] # at[c]
        BY <2>1 DEF Returned
    <2>4. \A d \in Clients : \A place : Goto(d, place) =>
              c = d /\ place \in {"done", "idle"}
        BY <2>2, <2>3 DEF Goto, TypeOK
    <2>5. ~ UNCHANGED at
        BY <2>3
    <2>6. ConnectRefused(c) \/ RecvAnswer(c) \/ SocketFails(c)
        <3>1. \A d \in Clients : ~Ask(d) /\ ~Connect(d) /\ ~SendLine(d)
            <4>1. \A d \in Clients : ~Goto(d, "connect") /\ ~Goto(d, "send") /\ ~Goto(d, "recv")
                BY <2>4
            <4> QED
                BY <4>1 DEF Ask, Connect, SendLine
        <3>2. ~DashboardTimeout
            BY <2>2, <2>4, ClientFacts DEF DashboardTimeout, Return
        <3>3. \A k \in Services : ~ServiceStep(k)
            BY <2>5 DEF ServiceStep, AcceptClient, ReadLine, Answer, HandlerFails, CloseConnection,
                clientVars
        <3>4. ~ServerEnds /\ ~ServerStarts
            BY <2>5 DEF ServerEnds, ServerStarts, clientVars
        <3>5. \A d \in Clients :
                  (ConnectRefused(d) \/ RecvAnswer(d) \/ SocketFails(d)) => c = d
            BY <2>4 DEF ConnectRefused, RecvAnswer, SocketFails, Return
        <3> QED
            BY <2>1, <3>1, <3>2, <3>3, <3>4, <3>5 DEF Next, QueryStep
    <2>7. CASE ConnectRefused(c)
        BY <2>7 DEF ConnectRefused
    <2>8. CASE SocketFails(c)
        BY <2>8 DEF SocketFails
    <2>9. CASE RecvAnswer(c)
        <3>1. /\ at[c] = "recv" /\ inbox[c] \in {"answer", "end"}
              /\ answer' = [answer EXCEPT ![c] = IF inbox[c] = "answer" THEN "label" ELSE ""]
            BY <2>2, <2>9 DEF RecvAnswer, Return, TypeOK
        <3>2. inbox[c] = "end" => c \in troubled
            BY <2>1, <2>2 DEF Untroubled
        <3>3. inbox[c] = "answer" => answer'[c] = "label"
            BY <2>2, <3>1 DEF TypeOK
        <3> QED
            BY <3>1, <3>2, <3>3
    <2> QED
        BY <2>6, <2>7, <2>8, <2>9
<1> QED
    BY <1>1, Invariance, PTL DEF Spec, EmptyOnlyAfterFailure

================================================================================
