------------------------------- MODULE RelayProofs -------------------------------
(***************************************************************************)
(* Theorems about Relay, for any number of flows and messages.             *)
(***************************************************************************)
EXTENDS Relay, SequenceTheorems, TLAPS

\* A session that may still write counts less than the bound.
MessagesLeft ==
    \A s \in Sessions :
        gw[s] \in {"idle", "handshake", "seal", "header", "payload"} =>
            msg_count[s] < MaxMessages

\* The backlog holds the associations that are queued, each once; a receiver that died
\* has none.
BacklogOK ==
    /\ \A s \in Sessions : far[s] = "queued" <=> \E i \in 1..Len(backlog) : backlog[i] = s
    /\ \A i, j \in 1..Len(backlog) : backlog[i] = backlog[j] => i = j
    /\ rx.pc = "dead" => backlog = <<>>

\* Of a session that did not connect, nothing is there.
NothingYet ==
    \A s \in Sessions : gw[s] = "idle" =>
        far[s] = "none" /\ stream[s] = <<>> /\ received[s] = <<>> /\ msg_count[s] = 0

\* The payloads of a stream come in the order they were counted in, after the last
\* message that was received.
InOrder(s) ==
    /\ D!LastOf(s) <= msg_count[s]
    /\ \A i \in 1..Len(stream[s]) : stream[s][i].kind = "payload" =>
          D!LastOf(s) < stream[s][i].n /\ stream[s][i].n <= msg_count[s]
    /\ \A i, j \in 1..Len(stream[s]) :
          (i < j /\ stream[s][i].kind = "payload" /\ stream[s][j].kind = "payload") =>
              stream[s][i].n < stream[s][j].n

PayloadsInOrder == \A s \in Sessions : InOrder(s)

\* The place of a piece among all pieces of its flow, and how many the receiver has read
\* when no record was dropped.
Rank(piece) == IF piece.kind = "header" THEN 2 * piece.n - 1 ELSE 2 * piece.n
AtPayload(s) == rx.s = s /\ rx.pc = "payload"
PiecesRead(s) == 2 * D!LastOf(s) + (IF AtPayload(s) THEN 1 ELSE 0)
PiecesWritten(s) == 2 * msg_count[s] + (IF gw[s] = "payload" THEN 1 ELSE 0)

\* Where nothing was altered, the stream of a flow that is read goes on exactly where the
\* receiver is, and while it can be written it goes on to where the gateway is.
Connectible(s) == far[s] \in {"queued", "open"}
Writing(s) == gw[s] \in {"handshake", "seal", "header", "payload", "recv"}

Complete(s) ==
    ~spoiled[s] =>
        /\ sameKey[s]
        /\ rx.s = s => rx.pc # "adrift"
        /\ \A i \in 1..Len(stream[s]) : stream[s][i].state = "intact"
        /\ Connectible(s) =>
              \A i \in 1..Len(stream[s]) : Rank(stream[s][i]) = PiecesRead(s) + i
        /\ (Connectible(s) /\ ~lost[s] /\ Writing(s)) =>
              PiecesRead(s) + Len(stream[s]) = PiecesWritten(s)

NothingMissing == \A s \in Sessions : Complete(s)

IInv ==
    /\ TypeOK /\ OneConnection /\ MessagesLeft /\ BacklogOK /\ NothingYet
    /\ PayloadsInOrder /\ NothingMissing

--------------------------------------------------------------------------------
\* What taking the first element leaves.
LEMMA TailFacts ==
    ASSUME NEW S, NEW q \in Seq(S), q # <<>>
    PROVE  /\ Len(q) \in Nat \ {0}
           /\ Head(q) = q[1] /\ q[1] \in S
           /\ Tail(q) \in Seq(S)
           /\ Len(Tail(q)) = Len(q) - 1
           /\ \A i \in 1..Len(q) - 1 : Tail(q)[i] = q[i + 1]
BY HeadTailProperties, LenProperties, EmptySeq

\* The relay starts with nothing connected and nothing written.
LEMMA InitIInv == Init => IInv
<1> SUFFICES ASSUME Init PROVE IInv
    OBVIOUS
<1> USE NoSessionAssumption, MaxMessagesAssumption DEF Init, Idle
<1>1. TypeOK
    BY DEF TypeOK, GwPlaces, FarStates, RxPlaces
<1>2. OneConnection /\ MessagesLeft /\ BacklogOK /\ NothingYet
    BY DEF OneConnection, MessagesLeft, BacklogOK, NothingYet, Connected
<1>3. PayloadsInOrder /\ NothingMissing
    BY DEF PayloadsInOrder, InOrder, NothingMissing, Complete, Connectible, D!LastOf
<1> QED
    BY <1>1, <1>2, <1>3 DEF IInv

--------------------------------------------------------------------------------
\* A step of a session's thread, or of its client, keeps the state well typed.
LEMMA GatewayTypeOK ==
    ASSUME IInv, NEW s \in Sessions,
           Connect(s) \/ ConnectFails(s) \/ GatewayStep(s) \/ CallFails(s) \/ ClientStep(s)
    PROVE  TypeOK'
<1> USE MaxMessagesAssumption DEF IInv, TypeOK, GwPlaces, FarStates, Goto
<1> USE DEF gwVars, rxVars, netVars
<1>1. CASE Connect(s)
    BY <1>1 DEF Connect
<1>2. CASE ConnectFails(s) \/ HandshakeReturns(s) \/ Seal(s) \/ WriteFails(s) \/ CallFails(s)
           \/ ClientStep(s)
    BY <1>2 DEF ConnectFails, HandshakeReturns, Seal, WriteFails, CallFails, ClientStep
<1>3. CASE Close(s)
    BY <1>3 DEF Close
<1>4. ASSUME NEW kind \in {"header", "payload"}, Put(s, kind), msg_count[s] < MaxMessages
      PROVE  stream' \in [Sessions -> Seq(Pieces)]
    <2>1. Piece(kind, msg_count[s] + 1) \in Pieces
        BY <1>4 DEF Piece, Pieces
    <2> QED
        BY <1>4, <2>1 DEF Put
<1>5. CASE WriteHeader(s)
    BY <1>4, <1>5 DEF WriteHeader, MessagesLeft
<1>6. CASE WritePayload(s)
    <2>1. msg_count[s] < MaxMessages /\ Put(s, "payload")
        BY <1>6 DEF WritePayload, MessagesLeft
    <2>2. stream' \in [Sessions -> Seq(Pieces)]
        BY <1>4, <2>1
    <2>3. msg_count' \in [Sessions -> 0..MaxMessages]
        BY <1>6, <2>1 DEF WritePayload
    <2> QED
        BY <1>6, <2>2, <2>3 DEF WritePayload
<1> QED
    BY <1>1, <1>2, <1>3, <1>5, <1>6 DEF GatewayStep

\* What is at the head of a stream is a piece, and taking it leaves a stream.
LEMMA TakeType ==
    ASSUME TypeOK, NEW s \in Sessions, stream[s] # <<>>, Take(s)
    PROVE  /\ Head(stream[s]) \in Pieces
           /\ stream' \in [Sessions -> Seq(Pieces)]
<1>1. stream[s] \in Seq(Pieces)
    BY DEF TypeOK
<1>2. Head(stream[s]) \in Pieces /\ Tail(stream[s]) \in Seq(Pieces)
    BY <1>1, TailFacts
<1> QED
    BY <1>2 DEF Take, TypeOK

\* The receiver goes to another place with the connection it holds, or is idle again.
Receivers == [pc : RxPlaces, s : Sessions \cup {NoSession}]

LEMMA ReceiverMoves ==
    ASSUME TypeOK
    PROVE  /\ \A place \in RxPlaces :
                 /\ [rx EXCEPT !.pc = place] \in Receivers
                 /\ [rx EXCEPT !.pc = place].pc = place
                 /\ [rx EXCEPT !.pc = place].s = rx.s
           /\ Idle \in Receivers
           /\ Idle.pc = "accept" /\ Idle.s = NoSession
BY DEF TypeOK, Receivers, Idle, RxPlaces

\* So does a step of the receiver, or its end and its start.
LEMMA ReceiverTypeOK ==
    ASSUME TypeOK, ReceiverStep \/ ReceiverStarts \/ \E s \in Sessions : ReceiverDies(s)
    PROVE  TypeOK'
<1> USE NoSessionAssumption
<1> USE DEF TypeOK, RxPlaces, FarStates, EndFlow, Idle
<1> USE DEF gwVars, netVars
<1>1. CASE Accept
    BY <1>1, TailFacts DEF Accept
<1>2. ASSUME NEW s \in Sessions, ReceiverHandshakeFails(s)
      PROVE  TypeOK'
    BY <1>2 DEF ReceiverHandshakeFails
<1>3. ASSUME NEW s \in Sessions, ReceiverHandshake(s)
      PROVE  TypeOK'
    <2>1. rx' \in [pc : RxPlaces, s : Sessions \cup {NoSession}]
        BY <1>3, ReceiverMoves DEF ReceiverHandshake, Receivers
    <2>2. rx'.pc \in {"accept", "dead"} <=> rx'.s = NoSession
        BY <1>3 DEF ReceiverHandshake
    <2> QED
        BY <1>3, <2>1, <2>2 DEF ReceiverHandshake
<1>5. ASSUME NEW s \in Sessions, ReadHeader(s)
      PROVE  TypeOK'
    <2>1. Head(stream[s]) \in Pieces /\ stream' \in [Sessions -> Seq(Pieces)]
        BY <1>5, TakeType DEF ReadHeader, Arrived
    <2>2. /\ Head(stream[s]).state \in {"intact", "wrong"} =>
                 rx' \in {[rx EXCEPT !.pc = "payload"], [rx EXCEPT !.pc = "adrift"]} /\ far' = far
          /\ Head(stream[s]).state = "toolong" => EndFlow(s, "failed")
        BY <1>5 DEF ReadHeader
    <2>3. Head(stream[s]).state \in {"intact", "wrong", "toolong"}
        BY <2>1 DEF Pieces
    <2>4. rx' \in [pc : RxPlaces, s : Sessions \cup {NoSession}]
        BY <1>5, <2>2, <2>3, ReceiverMoves DEF ReadHeader, Arrived, Receivers
    <2>5. rx'.pc \in {"accept", "dead"} <=> rx'.s = NoSession
        BY <1>5, <2>2, <2>3 DEF ReadHeader, Arrived
    <2>6. far' \in [Sessions -> FarStates]
        BY <2>2, <2>3
    <2> QED
        BY <1>5, <2>1, <2>4, <2>5, <2>6 DEF ReadHeader
<1>6. ASSUME NEW s \in Sessions, ReadPayload(s)
      PROVE  TypeOK'
    <2>1. Head(stream[s]) \in Pieces /\ stream' \in [Sessions -> Seq(Pieces)]
        BY <1>6, TakeType DEF ReadPayload, Arrived
    <2>2. received' \in [Sessions -> Seq(1..MaxMessages)]
        BY <1>6, <2>1 DEF ReadPayload, Pieces
    <2>3. rx' \in [pc : RxPlaces, s : Sessions \cup {NoSession}]
        BY <1>6 DEF ReadPayload
    <2>4. rx'.pc \in {"accept", "dead"} <=> rx'.s = NoSession
        BY <1>6 DEF ReadPayload, Arrived
    <2> QED
        BY <1>6, <2>1, <2>2, <2>3, <2>4 DEF ReadPayload
<1>7. ASSUME NEW s \in Sessions, ReadAdrift(s)
      PROVE  TypeOK'
    <2>1. stream' \in [Sessions -> Seq(Pieces)]
        BY <1>7, TakeType DEF ReadAdrift
    <2>2. rx' \in [pc : RxPlaces, s : Sessions \cup {NoSession}]
        BY <1>7 DEF ReadAdrift
    <2>3. rx'.pc \in {"accept", "dead"} <=> rx'.s = NoSession
        BY <1>7 DEF ReadAdrift
    <2> QED
        BY <1>7, <2>1, <2>2, <2>3 DEF ReadAdrift
<1>8. ASSUME NEW s \in Sessions, StreamEnds(s)
      PROVE  TypeOK'
    BY <1>8 DEF StreamEnds
<1>9. ASSUME NEW s \in Sessions, ReceiverDies(s)
      PROVE  TypeOK'
    BY <1>9 DEF ReceiverDies
<1>10. CASE ReceiverStarts
    BY <1>10 DEF ReceiverStarts
<1> QED
    BY <1>1, <1>2, <1>3, <1>5, <1>6, <1>7, <1>8, <1>9, <1>10 DEF ReceiverStep

\* And so does a fault.
LEMMA FaultTypeOK ==
    ASSUME TypeOK, NEW s \in Sessions, Fault(s)
    PROVE  TypeOK'
<1> USE DEF TypeOK, gwVars, rxVars, netVars
<1>1. CASE AssociationLost(s)
    <2>1. \A n \in 0..Len(stream[s]) : SubSeq(stream[s], 1, n) \in Seq(Pieces)
        BY SubSeqProperties
    <2> QED
        BY <1>1, <2>1 DEF AssociationLost
<1>2. CASE AlterHandshake(s)
    BY <1>2 DEF AlterHandshake
<1>3. CASE AlterPiece(s)
    <2>1. PICK i \in 1..Len(stream[s]), state \in {"toolong", "wrong"} :
              stream' = [stream EXCEPT ![s][i].state = state]
        BY <1>3 DEF AlterPiece
    <2>2. [stream[s][i] EXCEPT !.state = state] \in Pieces
        <3>1. stream[s][i] \in Pieces
            BY ElementOfSeq
        <3> QED
            BY <3>1 DEF Pieces
    <2>3. [stream[s] EXCEPT ![i].state = state] \in Seq(Pieces)
        BY <2>2
    <2> QED
        BY <1>3, <2>1, <2>3 DEF AlterPiece
<1>4. CASE OpenFails(s)
    BY <1>4, TakeType DEF OpenFails, Arrived, RxPlaces
<1> QED
    BY <1>1, <1>2, <1>3, <1>4 DEF Fault

--------------------------------------------------------------------------------
\* What the steps do to the receiver's bookkeeping: nothing, or the receiver goes on with
\* the connection it holds, or it closes it.
SameBookkeeping == UNCHANGED <<far, backlog, rx>>
GoesOn ==
    /\ UNCHANGED <<far, backlog>>
    /\ rx.pc \notin {"accept", "dead"} /\ rx'.pc \notin {"accept", "dead"}
    /\ rx'.s = rx.s
Ends(s) ==
    /\ rx.s = s
    /\ \E how \in {"failed", "closed"} : far' = [far EXCEPT ![s] = how]
    /\ rx'.pc = "accept" /\ rx'.s = NoSession
    /\ UNCHANGED backlog

LEMMA ReceiverBookkeeping ==
    ASSUME TypeOK, ReceiverStep
    PROVE  Accept \/ GoesOn \/ \E s \in Sessions : Ends(s)
<1> USE DEF TypeOK
<1> SUFFICES ASSUME ~Accept, NEW s \in Sessions,
                    \/ ReceiverHandshakeFails(s) \/ ReceiverHandshake(s)
                    \/ ReadHeader(s) \/ ReadPayload(s) \/ ReadAdrift(s) \/ StreamEnds(s)
             PROVE  GoesOn \/ Ends(s)
    BY DEF ReceiverStep
<1>1. ASSUME NEW how \in {"failed", "closed"}, EndFlow(s, how), rx.s = s, UNCHANGED backlog
      PROVE  Ends(s)
    BY <1>1, ReceiverMoves DEF EndFlow, Ends
<1>2. CASE ReceiverHandshakeFails(s) \/ StreamEnds(s)
    BY <1>1, <1>2 DEF ReceiverHandshakeFails, StreamEnds
<1>3. CASE ReceiverHandshake(s)
    BY <1>1, <1>3, ReceiverMoves DEF ReceiverHandshake, GoesOn, RxPlaces
<1>4. CASE ReadHeader(s)
    <2>1. Head(stream[s]).state \in {"intact", "wrong", "toolong"}
        BY <1>4, TakeType DEF ReadHeader, Arrived, Pieces
    <2>2. CASE Head(stream[s]).state = "toolong"
        <3>1. EndFlow(s, "failed")
            BY <1>4, <2>2 DEF ReadHeader
        <3> QED
            BY <1>1, <1>4, <3>1 DEF ReadHeader, Arrived
    <2>3. CASE Head(stream[s]).state \in {"intact", "wrong"}
        <3>1. /\ far' = far
              /\ \E place \in {"payload", "adrift"} : rx' = [rx EXCEPT !.pc = place]
            BY <1>4, <2>3 DEF ReadHeader
        <3> QED
            BY <1>4, <3>1, ReceiverMoves DEF ReadHeader, Arrived, GoesOn, RxPlaces
    <2> QED
        BY <2>1, <2>2, <2>3
<1>5. CASE ReadPayload(s)
    BY <1>5, ReceiverMoves DEF ReadPayload, Arrived, GoesOn, RxPlaces
<1>6. CASE ReadAdrift(s)
    BY <1>1, <1>6, ReceiverMoves DEF ReadAdrift, GoesOn, RxPlaces
<1> QED
    BY <1>2, <1>3, <1>4, <1>5, <1>6

\* The thread of a session leaves the bookkeeping alone, but for Connect; so does a fault,
\* but for OpenFails, after which the receiver goes on.
LEMMA GatewayBookkeeping ==
    ASSUME NEW s \in Sessions,
           ConnectFails(s) \/ GatewayStep(s) \/ CallFails(s) \/ ClientStep(s)
    PROVE  SameBookkeeping /\ UNCHANGED <<lost, received>>
BY DEF ConnectFails, GatewayStep, CallFails, ClientStep, HandshakeReturns, Seal, WriteHeader,
       WritePayload, WriteFails, Close, SameBookkeeping, rxVars, netVars

LEMMA FaultBookkeeping ==
    ASSUME TypeOK, NEW s \in Sessions, Fault(s)
    PROVE  /\ SameBookkeeping \/ GoesOn
           /\ \A t \in Sessions : lost[t] => lost'[t]
           /\ UNCHANGED <<gw, msg_count, far, received>>
<1> USE DEF gwVars, rxVars
<1>1. CASE AssociationLost(s)
    BY <1>1 DEF AssociationLost, SameBookkeeping, TypeOK
<1>2. CASE AlterHandshake(s) \/ AlterPiece(s)
    BY <1>2 DEF AlterHandshake, AlterPiece, SameBookkeeping
<1>3. CASE OpenFails(s)
    BY <1>3, ReceiverMoves DEF OpenFails, Arrived, GoesOn, RxPlaces
<1> QED
    BY <1>1, <1>2, <1>3 DEF Fault

--------------------------------------------------------------------------------
\* An association is put at the end of the backlog when the session connects, and is
\* taken from its head when the receiver accepts it.
LEMMA ConnectBacklog ==
    ASSUME IInv, NEW s \in Sessions, Connect(s)
    PROVE  BacklogOK'
<1> USE DEF BacklogOK, Connect
<1>1. /\ Len(backlog) \in Nat
      /\ Len(backlog') = Len(backlog) + 1
      /\ backlog'[Len(backlog) + 1] = s
      /\ \A i \in 1..Len(backlog) : backlog'[i] = backlog[i]
    BY AppendProperties, LenProperties DEF IInv, TypeOK
<1>2. \A i \in 1..Len(backlog) : backlog[i] # s
    BY DEF IInv, NothingYet
<1>3. \A i, j \in 1..Len(backlog') : backlog'[i] = backlog'[j] => i = j
    <2> TAKE i, j \in 1..Len(backlog')
    <2>1. \A k \in 1..Len(backlog') : k \in 1..Len(backlog) \/ k = Len(backlog) + 1
        BY <1>1
    <2> QED
        BY <1>1, <1>2, <2>1 DEF IInv
<1>4. \A t \in Sessions : far'[t] = "queued" <=> \E i \in 1..Len(backlog') : backlog'[i] = t
    <2> TAKE t \in Sessions
    <2>1. CASE t = s
        <3>1. Len(backlog) + 1 \in 1..Len(backlog')
            BY <1>1
        <3> QED
            BY <1>1, <2>1, <3>1 DEF IInv, TypeOK
    <2>2. CASE t # s
        <3>1. far'[t] = far[t]
            BY <2>2 DEF IInv, TypeOK
        <3>2. \A i \in 1..Len(backlog) : i \in 1..Len(backlog')
            BY <1>1
        <3>3. \A i \in 1..Len(backlog') : i \in 1..Len(backlog) \/ i = Len(backlog) + 1
            BY <1>1
        <3> QED
            BY <1>1, <2>2, <3>1, <3>2, <3>3 DEF IInv
    <2> QED
        BY <2>1, <2>2
<1>5. rx'.pc # "dead"
    BY DEF rxVars
<1> QED
    BY <1>3, <1>4, <1>5

LEMMA AcceptBacklog ==
    ASSUME IInv, Accept
    PROVE  BacklogOK' /\ far[Head(backlog)] = "queued" /\ Head(backlog) \in Sessions
<1> USE DEF BacklogOK, Accept
<1>1. /\ Len(backlog) \in Nat \ {0}
      /\ Head(backlog) = backlog[1] /\ backlog[1] \in Sessions
      /\ Len(backlog') = Len(backlog) - 1
      /\ \A i \in 1..Len(backlog) - 1 : backlog'[i] = backlog[i + 1]
    BY TailFacts DEF IInv, TypeOK
<1>2. far[Head(backlog)] = "queued"
    BY <1>1 DEF IInv
<1>3. \A i \in 1..Len(backlog') : i + 1 \in 1..Len(backlog) /\ backlog'[i] = backlog[i + 1]
    BY <1>1
<1>4. \A i, j \in 1..Len(backlog') : backlog'[i] = backlog'[j] => i = j
    <2> TAKE i, j \in 1..Len(backlog')
    <2>1. backlog'[i] = backlog'[j] => i + 1 = j + 1
        BY <1>3 DEF IInv
    <2> QED
        BY <1>1, <2>1
<1>5. \A t \in Sessions : far'[t] = "queued" <=> \E i \in 1..Len(backlog') : backlog'[i] = t
    <2> TAKE t \in Sessions
    <2>1. ASSUME NEW i \in 1..Len(backlog'), backlog'[i] = t
          PROVE  far'[t] = "queued"
        <3>1. far[t] = "queued"
            BY <1>3, <2>1 DEF IInv
        <3>2. i + 1 # 1 /\ 1 \in 1..Len(backlog)
            BY <1>1
        <3>3. t # backlog[1]
            BY <1>3, <2>1, <3>2 DEF IInv
        <3> QED
            BY <1>1, <3>1, <3>3 DEF IInv, TypeOK
    <2>2. ASSUME far'[t] = "queued"
          PROVE  \E i \in 1..Len(backlog') : backlog'[i] = t
        <3>1. t # backlog[1] /\ far[t] = "queued"
            BY <1>1, <2>2 DEF IInv, TypeOK
        <3>2. PICK i \in 1..Len(backlog) : backlog[i] = t
            BY <3>1 DEF IInv
        <3>3. i - 1 \in 1..Len(backlog') /\ backlog'[i - 1] = t
            BY <1>1, <3>1, <3>2
        <3> QED
            BY <3>3
    <2> QED
        BY <2>1, <2>2
<1> QED
    BY <1>1, <1>2, <1>4, <1>5

\* Every step keeps the backlog and the one connection in order.
LEMMA NextBacklog ==
    ASSUME IInv, Next
    PROVE  OneConnection' /\ BacklogOK'
<1> USE NoSessionAssumption
<1>1. ASSUME SameBookkeeping \/ GoesOn, \A t \in Sessions : lost[t] => lost'[t]
      PROVE  OneConnection' /\ BacklogOK'
    BY <1>1 DEF SameBookkeeping, GoesOn, IInv, OneConnection, BacklogOK, Connected
<1>2. ASSUME NEW s \in Sessions, Ends(s)
      PROVE  OneConnection' /\ BacklogOK'
    <2>1. far[s] = "open" /\ rx'.pc = "accept" /\ rx'.s = NoSession
        BY <1>2 DEF Ends, IInv, OneConnection
    <2>2. /\ far'[s] \in {"failed", "closed"}
          /\ \A t \in Sessions : t # s => far'[t] = far[t]
        BY <1>2 DEF Ends, IInv, TypeOK
    <2>3. OneConnection'
        BY <1>2, <2>1, <2>2 DEF Ends, IInv, OneConnection
    <2>4. \A t \in Sessions : far'[t] = "queued" <=> far[t] = "queued"
        BY <2>1, <2>2
    <2> QED
        BY <1>2, <2>1, <2>3, <2>4 DEF Ends, IInv, BacklogOK
<1>3. ASSUME NEW s \in Sessions, Connect(s)
      PROVE  OneConnection' /\ BacklogOK'
    <2>1. OneConnection'
        BY <1>3 DEF Connect, IInv, NothingYet, OneConnection, TypeOK, Connected
    <2> QED
        BY <1>3, <2>1, ConnectBacklog
<1>4. CASE Accept
    <2>1. OneConnection'
        <3>1. \A t \in Sessions : far[t] # "open"
            BY <1>4 DEF Accept, IInv, OneConnection, TypeOK
        <3>2. rx'.pc = "handshake" /\ rx'.s = Head(backlog)
            BY <1>4 DEF Accept
        <3> QED
            BY <1>4, <3>1, <3>2, AcceptBacklog DEF Accept, IInv, OneConnection, TypeOK
    <2> QED
        BY <1>4, <2>1, AcceptBacklog
<1>5. ASSUME NEW s \in Sessions, ReceiverDies(s)
      PROVE  OneConnection' /\ BacklogOK'
    <2>1. rx'.pc = "dead" /\ rx'.s = NoSession /\ backlog' = <<>>
        BY <1>5 DEF ReceiverDies
    <2>2. \A t \in Sessions : far'[t] \notin {"queued", "open"}
        BY <1>5 DEF ReceiverDies
    <2> QED
        BY <2>1, <2>2 DEF OneConnection, BacklogOK, Connected
<1>6. CASE ReceiverStarts
    <2>1. rx.s = NoSession /\ rx'.pc = "accept" /\ rx'.s = NoSession
        BY <1>6, ReceiverMoves DEF ReceiverStarts, IInv, TypeOK
    <2> QED
        BY <1>6, <2>1 DEF ReceiverStarts, IInv, OneConnection, BacklogOK, Connected
<1>7. ASSUME NEW s \in Sessions,
             ConnectFails(s) \/ GatewayStep(s) \/ CallFails(s) \/ ClientStep(s)
      PROVE  OneConnection' /\ BacklogOK'
    BY <1>1, <1>7, GatewayBookkeeping
<1>8. ASSUME NEW s \in Sessions, Fault(s)
      PROVE  OneConnection' /\ BacklogOK'
    BY <1>1, <1>8, FaultBookkeeping DEF IInv
<1>9. CASE ReceiverStep
    <2>1. GoesOn => \A t \in Sessions : lost[t] => lost'[t]
        BY <1>9 DEF ReceiverStep, Accept, ReceiverHandshakeFails, ReceiverHandshake,
                    ReadHeader, ReadPayload, ReadAdrift, StreamEnds, netVars
    <2> QED
        BY <1>1, <1>2, <1>4, <1>9, <2>1, ReceiverBookkeeping DEF IInv
<1> QED
    BY <1>3, <1>5, <1>6, <1>7, <1>8, <1>9 DEF Next

\* The receiver changes nothing of the gateway, and of a session that is idle nothing else.
LEMMA ReceiverFrame ==
    ASSUME IInv, ReceiverStep \/ ReceiverStarts \/ \E s \in Sessions : ReceiverDies(s)
    PROVE  /\ UNCHANGED <<gw, msg_count, open, lost, spoiled, sameKey>>
           /\ NothingYet'
<1> USE DEF gwVars, netVars, Take, EndFlow
<1>1. UNCHANGED <<gw, msg_count, open, lost, spoiled, sameKey>>
    BY DEF ReceiverStep, ReceiverStarts, ReceiverDies, Accept, ReceiverHandshakeFails,
           ReceiverHandshake, ReadHeader, ReadPayload, ReadAdrift, StreamEnds
<1>2. SUFFICES ASSUME NEW t \in Sessions, gw[t] = "idle"
               PROVE  far'[t] = far[t] /\ stream'[t] = stream[t] /\ received'[t] = received[t]
    BY <1>1 DEF IInv, NothingYet
<1>3. far[t] = "none" /\ stream[t] = <<>>
    BY <1>2 DEF IInv, NothingYet
<1> USE DEF TypeOK
<1>4. far'[t] = far[t]
    <2>1. CASE Accept
        BY <1>3, <2>1, AcceptBacklog DEF Accept, IInv
    <2>2. ASSUME NEW s \in Sessions, Ends(s)
          PROVE  far'[t] = far[t]
        BY <1>3, <2>2 DEF Ends, IInv, OneConnection
    <2>3. CASE ReceiverStep
        BY <2>1, <2>2, <2>3, ReceiverBookkeeping DEF GoesOn, IInv
    <2>4. CASE ReceiverStarts \/ \E s \in Sessions : ReceiverDies(s)
        BY <1>3, <2>4 DEF ReceiverStarts, ReceiverDies, IInv
    <2> QED
        BY <2>3, <2>4
<1>5. stream'[t] = stream[t] /\ received'[t] = received[t]
    <2>1. CASE Accept \/ ReceiverStarts
        BY <2>1 DEF Accept, ReceiverStarts
    <2>2. ASSUME NEW s \in Sessions,
                 ReceiverHandshakeFails(s) \/ ReceiverHandshake(s) \/ StreamEnds(s) \/ ReceiverDies(s)
          PROVE  stream'[t] = stream[t] /\ received'[t] = received[t]
        BY <2>2 DEF ReceiverHandshakeFails, ReceiverHandshake, StreamEnds, ReceiverDies
    <2>3. ASSUME NEW s \in Sessions, ReadHeader(s) \/ ReadPayload(s) \/ ReadAdrift(s)
          PROVE  stream'[t] = stream[t] /\ received'[t] = received[t]
        <3>1. s # t
            BY <1>3, <2>3 DEF ReadHeader, ReadPayload, ReadAdrift, Arrived
        <3>2. CASE ReadHeader(s) \/ ReadAdrift(s)
            BY <3>1, <3>2 DEF ReadHeader, ReadAdrift, IInv
        <3>3. CASE ReadPayload(s)
            BY <3>1, <3>3 DEF ReadPayload, IInv
        <3> QED
            BY <2>3, <3>2, <3>3
    <2> QED
        BY <2>1, <2>2, <2>3 DEF ReceiverStep
<1> QED
    BY <1>4, <1>5

\* A session's thread leaves idle once and for all; it counts a message when it has
\* written it, and waits for its client before it begins another.
LEMMA NextMessagesLeft ==
    ASSUME IInv, Next
    PROVE  MessagesLeft' /\ NothingYet'
<1> USE DEF IInv, TypeOK, MessagesLeft, NothingYet, Goto
<1>1. ASSUME NEW s \in Sessions, Connect(s)
      PROVE  MessagesLeft' /\ NothingYet'
    BY <1>1 DEF Connect, netVars
<1>2. ASSUME NEW s \in Sessions,
             \/ ConnectFails(s) \/ HandshakeReturns(s) \/ Seal(s) \/ WriteFails(s)
             \/ CallFails(s) \/ ClientStep(s) \/ Close(s)
      PROVE  MessagesLeft' /\ NothingYet'
    BY <1>2 DEF ConnectFails, HandshakeReturns, Seal, WriteFails, CallFails, ClientStep, Close,
                rxVars, netVars
<1>3. ASSUME NEW s \in Sessions, WriteHeader(s)
      PROVE  MessagesLeft' /\ NothingYet'
    BY <1>3 DEF WriteHeader, Put, rxVars
<1>4. ASSUME NEW s \in Sessions, WritePayload(s)
      PROVE  MessagesLeft' /\ NothingYet'
    BY <1>4 DEF WritePayload, Put, rxVars
<1>5. CASE ReceiverStep \/ ReceiverStarts \/ \E s \in Sessions : ReceiverDies(s)
    BY <1>5, ReceiverFrame
<1>6. ASSUME NEW s \in Sessions, Fault(s)
      PROVE  MessagesLeft' /\ NothingYet'
    <2>1. UNCHANGED <<gw, msg_count, far, received>>
        BY <1>6, FaultBookkeeping
    <2>2. \A t \in Sessions : gw[t] = "idle" => stream'[t] = stream[t]
        <3> TAKE t \in Sessions
        <3> HAVE gw[t] = "idle"
        <3>1. stream[t] = <<>>
            OBVIOUS
        <3>2. CASE AssociationLost(s)
            BY <3>2 DEF AssociationLost
        <3>3. CASE AlterHandshake(s)
            BY <3>3 DEF AlterHandshake
        <3>4. CASE AlterPiece(s)
            BY <3>1, <3>4, EmptySeq DEF AlterPiece
        <3>5. CASE OpenFails(s)
            BY <3>1, <3>5 DEF OpenFails, Arrived, Take
        <3> QED
            BY <1>6, <3>2, <3>3, <3>4, <3>5 DEF Fault
    <2> QED
        BY <2>1, <2>2
<1> QED
    BY <1>1, <1>2, <1>3, <1>4, <1>5, <1>6 DEF Next, GatewayStep

--------------------------------------------------------------------------------
\* The last message received, before and after a record is shown.
LEMMA LastOfFacts ==
    ASSUME TypeOK, NEW s \in Sessions
    PROVE  /\ D!LastOf(s) \in Nat
           /\ received'[s] = received[s] => D!LastOf(s)' = D!LastOf(s)
           /\ \A n \in 1..MaxMessages :
                 received'[s] = Append(received[s], n) => D!LastOf(s)' = n
<1>1. received[s] \in Seq(1..MaxMessages)
    BY DEF TypeOK
<1>2. D!LastOf(s) \in Nat
    <2>1. CASE received[s] = <<>>
        BY <2>1 DEF D!LastOf
    <2>2. CASE received[s] # <<>>
        <3>1. Len(received[s]) \in 1..Len(received[s])
            BY <1>1, <2>2, EmptySeq
        <3>2. received[s][Len(received[s])] \in 1..MaxMessages
            BY <1>1, <3>1, ElementOfSeq
        <3> QED
            BY <2>2, <3>2, MaxMessagesAssumption DEF D!LastOf
    <2> QED
        BY <2>1, <2>2
<1>3. ASSUME NEW n \in 1..MaxMessages, received'[s] = Append(received[s], n)
      PROVE  D!LastOf(s)' = n
    BY <1>1, <1>3, AppendProperties DEF D!LastOf
<1> QED
    BY <1>2, <1>3 DEF D!LastOf

\* The pieces that are left after the first k are read, or the rest is lost, or a field
\* of one is altered, are in order still.
Shifted(s, k) ==
    /\ Len(stream'[s]) \in Nat
    /\ \A i \in 1..Len(stream'[s]) :
          /\ i + k \in 1..Len(stream[s])
          /\ stream'[s][i].kind = stream[s][i + k].kind
          /\ stream'[s][i].n = stream[s][i + k].n

LEMMA ShiftedInOrder ==
    ASSUME TypeOK, NEW s \in Sessions, InOrder(s), NEW k \in {0, 1}, Shifted(s, k),
           UNCHANGED msg_count,
           \/ received'[s] = received[s]
           \/ /\ k = 1 /\ stream[s] # <<>> /\ stream[s][1].kind = "payload"
              /\ received'[s] = Append(received[s], stream[s][1].n)
    PROVE  InOrder(s)'
<1>1. /\ Len(stream[s]) \in Nat
      /\ msg_count[s] \in Nat
      /\ \A i \in 1..Len(stream[s]) : stream[s][i].n \in 1..MaxMessages
    <2>1. stream[s] \in Seq(Pieces)
        BY DEF TypeOK
    <2>2. \A i \in 1..Len(stream[s]) : stream[s][i] \in Pieces
        BY <2>1, ElementOfSeq
    <2> QED
        BY <2>1, <2>2, LenProperties DEF Pieces, TypeOK
<1>2. CASE received'[s] = received[s]
    <2>1. D!LastOf(s)' = D!LastOf(s)
        BY <1>2, LastOfFacts
    <2>2. \A i \in 1..Len(stream'[s]) : i + k \in 1..Len(stream[s]) /\ i \in Nat
        BY DEF Shifted
    <2>3. \A i \in 1..Len(stream'[s]) : stream'[s][i].kind = "payload" =>
              D!LastOf(s)' < stream'[s][i].n /\ stream'[s][i].n <= msg_count'[s]
        BY <2>1, <2>2 DEF InOrder, Shifted
    <2>4. \A i, j \in 1..Len(stream'[s]) :
              (i < j /\ stream'[s][i].kind = "payload" /\ stream'[s][j].kind = "payload") =>
                  stream'[s][i].n < stream'[s][j].n
        <3> TAKE i, j \in 1..Len(stream'[s])
        <3>1. i < j => i + k < j + k
            BY <2>2
        <3> QED
            BY <2>2, <3>1 DEF InOrder, Shifted
    <2> QED
        BY <2>1, <2>3, <2>4 DEF InOrder
<1>3. CASE /\ k = 1 /\ stream[s] # <<>> /\ stream[s][1].kind = "payload"
           /\ received'[s] = Append(received[s], stream[s][1].n)
    <2>1. 1 \in 1..Len(stream[s])
        BY <1>1, <1>3, EmptySeq DEF TypeOK
    <2>2. D!LastOf(s)' = stream[s][1].n
        BY <1>1, <1>3, <2>1, LastOfFacts
    <2>3. \A i \in 1..Len(stream'[s]) : i + 1 \in 1..Len(stream[s]) /\ i \in Nat /\ 1 < i + 1
        BY <1>3 DEF Shifted
    <2>4. \A i \in 1..Len(stream'[s]) : stream'[s][i].kind = "payload" =>
              D!LastOf(s)' < stream'[s][i].n /\ stream'[s][i].n <= msg_count'[s]
        BY <1>3, <2>1, <2>2, <2>3 DEF InOrder, Shifted
    <2>5. \A i, j \in 1..Len(stream'[s]) :
              (i < j /\ stream'[s][i].kind = "payload" /\ stream'[s][j].kind = "payload") =>
                  stream'[s][i].n < stream'[s][j].n
        <3> TAKE i, j \in 1..Len(stream'[s])
        <3>1. i < j => i + 1 < j + 1
            BY <2>3
        <3> QED
            BY <1>3, <2>3, <3>1 DEF InOrder, Shifted
    <2>6. D!LastOf(s)' <= msg_count'[s]
        BY <1>3, <2>1, <2>2 DEF InOrder
    <2> QED
        BY <2>4, <2>5, <2>6 DEF InOrder
<1> QED
    BY <1>2, <1>3

\* What a write does to the stream of its flow, when somebody can read it.
LEMMA PutFacts ==
    ASSUME TypeOK, NEW s \in Sessions, NEW kind \in {"header", "payload"}, Put(s, kind)
    PROVE  /\ Len(stream[s]) \in Nat
           /\ \A t \in Sessions : t # s => stream'[t] = stream[t]
           /\ ~Connected(s) => stream'[s] = stream[s]
           /\ Connected(s) =>
                 /\ Len(stream'[s]) = Len(stream[s]) + 1
                 /\ \A i \in 1..Len(stream[s]) : stream'[s][i] = stream[s][i]
                 /\ stream'[s][Len(stream[s]) + 1] = Piece(kind, msg_count[s] + 1)
<1>1. stream[s] \in Seq(Pieces)
    BY DEF TypeOK
<1>2. Len(stream[s]) \in Nat
    BY <1>1, LenProperties
<1>3. ASSUME Connected(s)
      PROVE  stream'[s] = Append(stream[s], Piece(kind, msg_count[s] + 1))
    BY <1>3 DEF Put, TypeOK
<1>4. stream[s] \in Seq(Pieces \cup {Piece(kind, msg_count[s] + 1)})
    BY <1>1, SeqMonotonic
<1>5. Connected(s) =>
          /\ Len(stream'[s]) = Len(stream[s]) + 1
          /\ \A i \in 1..Len(stream[s]) : stream'[s][i] = stream[s][i]
          /\ stream'[s][Len(stream[s]) + 1] = Piece(kind, msg_count[s] + 1)
    BY <1>3, <1>4, AppendProperties
<1> QED
    BY <1>2, <1>5 DEF Put, TypeOK

\* The gateway writes a header before, and a payload when, it counts the message: the
\* payload it appends is above all before it.
LEMMA WriteInOrder ==
    ASSUME TypeOK, NEW s \in Sessions, InOrder(s), WriteHeader(s) \/ WritePayload(s)
    PROVE  InOrder(s)'
<1> DEFINE q == stream[s]  r == stream'[s]
<1>1. /\ Len(q) \in Nat /\ msg_count[s] \in Nat
      /\ \A i \in 1..Len(q) : q[i].n \in 1..MaxMessages
    <2>1. q \in Seq(Pieces)
        BY DEF TypeOK
    <2>2. \A i \in 1..Len(q) : q[i] \in Pieces
        BY <2>1, ElementOfSeq
    <2> QED
        BY <2>1, <2>2, LenProperties DEF Pieces, TypeOK
<1>2. D!LastOf(s)' = D!LastOf(s) /\ D!LastOf(s) \in Nat
    BY LastOfFacts DEF WriteHeader, WritePayload, rxVars
<1>3. CASE WriteHeader(s)
    <2>1. msg_count'[s] = msg_count[s]
        BY <1>3 DEF WriteHeader
    <2>2. CASE ~Connected(s)
        <3>1. r = q
            BY <1>3, <2>2, PutFacts DEF WriteHeader
        <3> QED
            BY <1>2, <2>1, <3>1 DEF InOrder
    <2>3. CASE Connected(s)
        <3>1. /\ Len(r) = Len(q) + 1
              /\ \A i \in 1..Len(q) : r[i] = q[i]
              /\ r[Len(q) + 1].kind = "header"
            <4>1. Put(s, "header")
                BY <1>3 DEF WriteHeader
            <4>2. /\ Len(r) = Len(q) + 1
                  /\ \A i \in 1..Len(q) : r[i] = q[i]
                  /\ r[Len(q) + 1] = Piece("header", msg_count[s] + 1)
                BY <2>3, <4>1, PutFacts
            <4> QED
                BY <4>2 DEF Piece
        <3>2. \A i \in 1..Len(r) : i \in 1..Len(q) \/ i = Len(q) + 1
            BY <1>1, <3>1
        <3> QED
            BY <1>1, <1>2, <2>1, <3>1, <3>2 DEF InOrder
    <2> QED
        BY <2>2, <2>3
<1>4. CASE WritePayload(s)
    <2>1. msg_count'[s] = msg_count[s] + 1
        BY <1>4 DEF WritePayload, TypeOK
    <2>2. CASE ~Connected(s)
        <3>1. r = q
            BY <1>4, <2>2, PutFacts DEF WritePayload
        <3>2. D!LastOf(s) <= msg_count[s] + 1
            BY <1>1, <1>2 DEF InOrder
        <3>3. ASSUME NEW i \in 1..Len(q), q[i].kind = "payload"
              PROVE  D!LastOf(s) < q[i].n /\ q[i].n <= msg_count[s] + 1
            BY <1>1, <3>3 DEF InOrder
        <3>4. \A i, j \in 1..Len(q) :
                  (i < j /\ q[i].kind = "payload" /\ q[j].kind = "payload") => q[i].n < q[j].n
            BY DEF InOrder
        <3> HIDE DEF q, r
        <3>5. /\ D!LastOf(s)' <= msg_count'[s]
              /\ \A i \in 1..Len(r) : r[i].kind = "payload" =>
                    D!LastOf(s)' < r[i].n /\ r[i].n <= msg_count'[s]
            BY <1>2, <2>1, <3>1, <3>2, <3>3
        <3> QED
            BY <3>1, <3>4, <3>5 DEF InOrder, r
    <2>3. CASE Connected(s)
        <3>1. /\ Len(r) = Len(q) + 1
              /\ \A i \in 1..Len(q) : r[i] = q[i]
              /\ r[Len(q) + 1].n = msg_count[s] + 1
            <4>1. Put(s, "payload")
                BY <1>4 DEF WritePayload
            <4>2. /\ Len(r) = Len(q) + 1
                  /\ \A i \in 1..Len(q) : r[i] = q[i]
                  /\ r[Len(q) + 1] = Piece("payload", msg_count[s] + 1)
                BY <2>3, <4>1, PutFacts
            <4> QED
                BY <4>2 DEF Piece
        <3>2. \A i \in 1..Len(r) : i \in 1..Len(q) \/ i = Len(q) + 1
            BY <1>1, <3>1
        <3>3. \A i \in 1..Len(r) : r[i].kind = "payload" =>
                  D!LastOf(s) < r[i].n /\ r[i].n <= msg_count[s] + 1
            <4>1. ASSUME NEW i \in 1..Len(q), q[i].kind = "payload"
                  PROVE  D!LastOf(s) < q[i].n /\ q[i].n <= msg_count[s] + 1
                BY <1>1, <4>1 DEF InOrder
            <4>2. D!LastOf(s) < msg_count[s] + 1
                BY <1>1, <1>2 DEF InOrder
            <4> HIDE DEF q, r
            <4> SUFFICES ASSUME NEW i \in 1..Len(r), r[i].kind = "payload"
                         PROVE  D!LastOf(s) < r[i].n /\ r[i].n <= msg_count[s] + 1
                OBVIOUS
            <4>3. CASE i \in 1..Len(q)
                BY <3>1, <4>1, <4>3
            <4>4. CASE i = Len(q) + 1
                BY <1>1, <3>1, <4>2, <4>4
            <4> QED
                BY <3>2, <4>3, <4>4
        <3>4. \A i, j \in 1..Len(r) :
                  (i < j /\ r[i].kind = "payload" /\ r[j].kind = "payload") => r[i].n < r[j].n
            <4> TAKE i, j \in 1..Len(r)
            <4>1. i < j => i \in 1..Len(q)
                BY <1>1, <3>1
            <4>2. \A m \in 1..Len(q) : q[m].kind = "payload" => q[m].n < msg_count[s] + 1
                BY <1>1 DEF InOrder
            <4> QED
                BY <1>1, <3>1, <3>2, <4>1, <4>2 DEF InOrder
        <3> QED
            BY <1>1, <1>2, <2>1, <3>3, <3>4 DEF InOrder
    <2> QED
        BY <2>2, <2>3
<1> QED
    BY <1>3, <1>4

\* A flow nobody touches is as it was.
LEMMA SameInOrder ==
    ASSUME TypeOK, NEW t \in Sessions, InOrder(t),
           stream'[t] = stream[t], received'[t] = received[t], msg_count'[t] = msg_count[t]
    PROVE  InOrder(t)'
<1>1. D!LastOf(t)' = D!LastOf(t)
    BY LastOfFacts
<1> QED
    BY <1>1 DEF InOrder

\* Taking the head shifts the pieces by one.
LEMMA TakeShifts ==
    ASSUME TypeOK, NEW s \in Sessions, stream[s] # <<>>, Take(s)
    PROVE  /\ Shifted(s, 1)
           /\ Len(stream[s]) \in Nat \ {0}
           /\ Len(stream'[s]) = Len(stream[s]) - 1
           /\ \A i \in 1..Len(stream'[s]) : stream'[s][i] = stream[s][i + 1]
           /\ Head(stream[s]) = stream[s][1]
           /\ \A t \in Sessions : t # s => stream'[t] = stream[t]
<1>1. stream[s] \in Seq(Pieces)
    BY DEF TypeOK
<1>2. /\ Len(stream[s]) \in Nat \ {0}
      /\ Len(Tail(stream[s])) = Len(stream[s]) - 1
      /\ \A i \in 1..Len(stream[s]) - 1 : Tail(stream[s])[i] = stream[s][i + 1]
      /\ Head(stream[s]) = stream[s][1]
    BY <1>1, TailFacts
<1>3. stream'[s] = Tail(stream[s]) /\ \A t \in Sessions : t # s => stream'[t] = stream[t]
    BY DEF Take, TypeOK
<1> QED
    BY <1>2, <1>3 DEF Shifted

\* A fault leaves of a stream a part of it, whose pieces keep their kinds and numbers.
LEMMA FaultShifts ==
    ASSUME TypeOK, NEW s \in Sessions, Fault(s)
    PROVE  /\ \E k \in {0, 1} : Shifted(s, k)
           /\ \A t \in Sessions : t # s => stream'[t] = stream[t]
<1>1. stream[s] \in Seq(Pieces) /\ Len(stream[s]) \in Nat
    BY LenProperties DEF TypeOK
<1>2. CASE AssociationLost(s)
    <2>1. PICK n \in 0..Len(stream[s]) : stream' = [stream EXCEPT ![s] = SubSeq(@, 1, n)]
        BY <1>2 DEF AssociationLost
    <2>2. \A i \in 1..n : stream[s][i] \in Pieces
        BY <1>1, ElementOfSeq
    <2>3. /\ Len(SubSeq(stream[s], 1, n)) = n
          /\ \A i \in 1..n : SubSeq(stream[s], 1, n)[i] = stream[s][i]
        BY <1>1, <2>2, SubSeqProperties
    <2>4. Shifted(s, 0)
        BY <1>1, <2>1, <2>3 DEF Shifted, TypeOK
    <2> QED
        BY <2>1, <2>4 DEF TypeOK
<1>3. CASE AlterHandshake(s)
    BY <1>1, <1>3 DEF AlterHandshake, Shifted
<1>4. CASE AlterPiece(s)
    <2>1. PICK i \in 1..Len(stream[s]), state \in {"toolong", "wrong"} :
              stream' = [stream EXCEPT ![s][i].state = state]
        BY <1>4 DEF AlterPiece
    <2>2. stream'[s] = [stream[s] EXCEPT ![i] = [stream[s][i] EXCEPT !.state = state]]
        BY <2>1 DEF TypeOK
    <2>3. [stream[s][i] EXCEPT !.state = state] \in Pieces
          /\ [stream[s][i] EXCEPT !.state = state].kind = stream[s][i].kind
          /\ [stream[s][i] EXCEPT !.state = state].n = stream[s][i].n
        <3>1. stream[s][i] \in Pieces
            BY <1>1, ElementOfSeq
        <3> QED
            BY <3>1 DEF Pieces
    <2>4. /\ Len(stream'[s]) = Len(stream[s])
          /\ \A j \in 1..Len(stream[s]) : stream'[s][j] =
                IF j = i THEN [stream[s][i] EXCEPT !.state = state] ELSE stream[s][j]
        BY <1>1, <2>2, <2>3, ExceptSeq
    <2>5. Shifted(s, 0)
        <3>1. \A j \in 1..Len(stream[s]) : stream'[s][j].kind = stream[s][j].kind
                                        /\ stream'[s][j].n = stream[s][j].n
            BY <2>3, <2>4
        <3>2. \A j \in 1..Len(stream[s]) : j + 0 = j
            BY <1>1
        <3> QED
            BY <1>1, <2>4, <3>1, <3>2 DEF Shifted
    <2> QED
        BY <2>1, <2>5 DEF TypeOK
<1>5. CASE OpenFails(s)
    BY <1>5, TakeShifts DEF OpenFails, Arrived
<1> QED
    BY <1>2, <1>3, <1>4, <1>5 DEF Fault

\* Every step keeps the payloads of every flow in order.
LEMMA NextPayloadsInOrder ==
    ASSUME IInv, Next
    PROVE  PayloadsInOrder'
<1> SUFFICES ASSUME NEW t \in Sessions PROVE InOrder(t)'
    BY DEF PayloadsInOrder
<1> USE DEF IInv
<1>1. InOrder(t)
    BY DEF PayloadsInOrder
<1>2. ASSUME stream'[t] = stream[t], received'[t] = received[t], msg_count'[t] = msg_count[t]
      PROVE  InOrder(t)'
    BY <1>1, <1>2, SameInOrder
<1>3. CASE UNCHANGED <<stream, received, msg_count>>
    BY <1>2, <1>3
<1>4. ASSUME NEW s \in Sessions, WriteHeader(s) \/ WritePayload(s)
      PROVE  InOrder(t)'
    <2>1. CASE s = t
        BY <1>1, <1>4, <2>1, WriteInOrder
    <2>2. CASE s # t
        <3>1. stream'[t] = stream[t]
            BY <1>4, <2>2, PutFacts DEF WriteHeader, WritePayload
        <3>2. received'[t] = received[t] /\ msg_count'[t] = msg_count[t]
            BY <1>4, <2>2 DEF WriteHeader, WritePayload, rxVars, TypeOK
        <3> QED
            BY <1>2, <3>1, <3>2
    <2> QED
        BY <2>1, <2>2
<1>5. ASSUME NEW s \in Sessions, ReadHeader(s) \/ ReadAdrift(s)
      PROVE  InOrder(t)'
    <2>1. stream[s] # <<>> /\ Take(s) /\ UNCHANGED <<received, msg_count>>
        BY <1>5 DEF ReadHeader, ReadAdrift, Arrived, gwVars
    <2> QED
        BY <1>1, <1>2, <2>1, TakeShifts, ShiftedInOrder
<1>6. ASSUME NEW s \in Sessions, ReadPayload(s)
      PROVE  InOrder(t)'
    <2>1. stream[s] # <<>> /\ Take(s) /\ UNCHANGED msg_count /\ Head(stream[s]).kind = "payload"
        BY <1>6 DEF ReadPayload, Arrived, gwVars
    <2>2. CASE s # t
        BY <1>2, <1>6, <2>1, <2>2, TakeShifts DEF ReadPayload, TypeOK
    <2>3. CASE s = t
        <3>1. received'[t] = received[t] \/ received'[t] = Append(received[t], Head(stream[t]).n)
            BY <1>6, <2>3 DEF ReadPayload, TypeOK
        <3> QED
            BY <1>1, <2>1, <2>3, <3>1, TakeShifts, ShiftedInOrder
    <2> QED
        BY <2>2, <2>3
<1>7. ASSUME NEW s \in Sessions, Fault(s)
      PROVE  InOrder(t)'
    BY <1>1, <1>2, <1>7, FaultShifts, FaultBookkeeping, ShiftedInOrder
<1>8. ASSUME NEW s \in Sessions,
             \/ Connect(s) \/ ConnectFails(s) \/ HandshakeReturns(s) \/ Seal(s)
             \/ WriteFails(s) \/ Close(s) \/ CallFails(s) \/ ClientStep(s)
      PROVE  UNCHANGED <<stream, received, msg_count>>
    BY <1>8 DEF Connect, ConnectFails, HandshakeReturns, Seal, WriteFails, Close, CallFails,
                ClientStep, rxVars, netVars
<1>9. ASSUME NEW s \in Sessions,
             \/ ReceiverHandshakeFails(s) \/ ReceiverHandshake(s) \/ StreamEnds(s)
             \/ ReceiverDies(s) \/ Accept \/ ReceiverStarts
      PROVE  UNCHANGED <<stream, received, msg_count>>
    BY <1>9 DEF ReceiverHandshakeFails, ReceiverHandshake, StreamEnds, ReceiverDies, Accept,
                ReceiverStarts, gwVars, netVars
<1> QED
    BY <1>3, <1>4, <1>5, <1>6, <1>7, <1>8, <1>9 DEF Next, GatewayStep, ReceiverStep

--------------------------------------------------------------------------------
\* A step that touches neither the stream nor what was received, and lets the gateway
\* and the receiver only go on, leaves a complete flow complete.
Unread(t) == UNCHANGED <<stream[t], received[t], msg_count[t], sameKey[t], spoiled[t]>>
ReadOn(t) ==
    /\ rx'.s = t => rx'.pc # "adrift"
    /\ Connectible(t)' => Connectible(t) /\ (AtPayload(t)' <=> AtPayload(t))
WrittenOn(t) ==
    /\ lost[t] => lost'[t]
    /\ Writing(t)' => Writing(t) /\ (gw'[t] = "payload" <=> gw[t] = "payload")

LEMMA CompleteFrame ==
    ASSUME TypeOK, NEW t \in Sessions, Complete(t), Unread(t),
           ~spoiled[t] => ReadOn(t) /\ WrittenOn(t)
    PROVE  Complete(t)'
<1> SUFFICES ASSUME ~spoiled[t]
             PROVE  Complete(t)'
    BY DEF Complete, Unread
<1>1. D!LastOf(t)' = D!LastOf(t)
    BY LastOfFacts DEF Unread
<1>2. Connectible(t)' => PiecesRead(t)' = PiecesRead(t)
    BY <1>1 DEF PiecesRead, ReadOn
<1>3. Writing(t)' => PiecesWritten(t)' = PiecesWritten(t)
    BY DEF PiecesWritten, Unread, WrittenOn
<1> QED
    BY <1>2, <1>3 DEF Complete, Unread, ReadOn, WrittenOn, Rank

\* The arithmetic of the next piece: one more is read, or one more is written.
LEMMA CountFacts ==
    ASSUME TypeOK, NEW t \in Sessions
    PROVE  /\ D!LastOf(t) \in Nat /\ PiecesRead(t) \in Nat /\ PiecesWritten(t) \in Nat
           /\ Len(stream[t]) \in Nat /\ msg_count[t] \in Nat
           /\ \A i \in 1..Len(stream[t]) :
                 /\ stream[t][i] \in Pieces
                 /\ Rank(stream[t][i]) \in Int
                 /\ stream[t][i].n \in Nat
                 /\ stream[t][i].kind \in {"header", "payload"}
<1>1. D!LastOf(t) \in Nat /\ msg_count[t] \in Nat
    BY LastOfFacts DEF TypeOK
<1>2. stream[t] \in Seq(Pieces)
    BY DEF TypeOK
<1>3. \A i \in 1..Len(stream[t]) : stream[t][i] \in Pieces
    BY <1>2, ElementOfSeq
<1>4. PiecesRead(t) \in Nat /\ PiecesWritten(t) \in Nat
    BY <1>1 DEF PiecesRead, PiecesWritten
<1>5. \A piece \in Pieces : /\ piece.n \in Nat /\ piece.kind \in {"header", "payload"}
                             /\ Rank(piece) \in Int
    BY DEF Pieces, Rank
<1>6. Len(stream[t]) \in Nat
    BY <1>2, LenProperties
<1> QED
    BY <1>1, <1>3, <1>4, <1>5, <1>6

\* The receiver reads the next piece of a flow: after a header it is at the payload, and
\* after the payload, which it can open, it has one message more.
LEMMA ReadComplete ==
    ASSUME TypeOK, NEW t \in Sessions, Complete(t), rx.s = t, Connectible(t),
           stream[t] # <<>>, Take(t), ~spoiled[t], UNCHANGED <<spoiled, sameKey, lost, gw, msg_count>>,
           PiecesRead(t)' = PiecesRead(t) + 1,
           rx'.s = t => rx'.pc # "adrift"
    PROVE  Complete(t)'
<1> DEFINE q == stream[t]  r == stream'[t]
<1>1. /\ Len(r) = Len(q) - 1 /\ Len(q) \in Nat \ {0}
      /\ \A i \in 1..Len(r) : r[i] = q[i + 1] /\ i + 1 \in 1..Len(q)
    BY TakeShifts
<1>2. \A i \in 1..Len(r) : r[i].state = "intact"
    BY <1>1 DEF Complete
<1>3. \A i \in 1..Len(r) : Rank(r[i]) = PiecesRead(t)' + i
    <2> TAKE i \in 1..Len(r)
    <2>1. Rank(q[i + 1]) = PiecesRead(t) + (i + 1)
        BY <1>1 DEF Complete
    <2> QED
        BY <1>1, <2>1, CountFacts
<1>4. (~lost'[t] /\ Writing(t)') => PiecesRead(t)' + Len(r) = PiecesWritten(t)'
    <2>1. PiecesWritten(t)' = PiecesWritten(t) /\ (Writing(t)' <=> Writing(t))
        BY DEF PiecesWritten, Writing
    <2> QED
        BY <1>1, <2>1, CountFacts DEF Complete
<1> QED
    BY <1>2, <1>3, <1>4 DEF Complete, Rank

\* The gateway writes the next piece of a flow.
LEMMA WriteComplete ==
    ASSUME TypeOK, NEW t \in Sessions, Complete(t), ~spoiled[t], gw[t] \in {"header", "payload"},
           NEW kind \in {"header", "payload"}, Put(t, kind), kind = gw[t],
           UNCHANGED <<far, rx, received, lost, spoiled, sameKey>>,
           PiecesWritten(t)' = PiecesWritten(t) + 1
    PROVE  Complete(t)'
<1> DEFINE q == stream[t]  r == stream'[t]
<1>1. D!LastOf(t)' = D!LastOf(t)
    BY LastOfFacts
<1>2. PiecesRead(t)' = PiecesRead(t)
    BY <1>1 DEF PiecesRead, AtPayload
<1>3. CASE ~Connected(t)
    <2>1. r = q
        BY <1>3, PutFacts
    <2>2. ~(Connectible(t)' /\ ~lost'[t])
        BY <1>3 DEF Connected, Connectible
    <2> QED
        BY <1>2, <2>1, <2>2 DEF Complete, Connectible, Rank
<1>4. CASE Connected(t)
    <2>1. /\ Len(r) = Len(q) + 1 /\ Len(q) \in Nat
          /\ \A i \in 1..Len(q) : r[i] = q[i]
          /\ r[Len(q) + 1] = Piece(kind, msg_count[t] + 1)
        BY <1>4, PutFacts
    <2>2. \A i \in 1..Len(r) : i \in 1..Len(q) \/ i = Len(q) + 1
        BY <2>1
    <2>3. Connectible(t) /\ ~lost[t] /\ Writing(t)
        BY <1>4 DEF Connected, Connectible, Writing
    <2>4. PiecesRead(t) + Len(q) = PiecesWritten(t)
        BY <2>3 DEF Complete
    <2>5. Rank(r[Len(q) + 1]) = PiecesWritten(t) + 1
        <3>1. CASE kind = "header"
            BY <2>1, <3>1, CountFacts DEF Rank, Piece, PiecesWritten
        <3>2. CASE kind = "payload"
            BY <2>1, <3>2, CountFacts DEF Rank, Piece, PiecesWritten
        <3> QED
            BY <3>1, <3>2
    <2>6. \A i \in 1..Len(r) : Rank(r[i]) = PiecesRead(t) + i
        <3>1. ASSUME NEW i \in 1..Len(q)
              PROVE  Rank(r[i]) = PiecesRead(t) + i
            BY <2>1, <2>3 DEF Complete
        <3>2. Rank(r[Len(q) + 1]) = PiecesRead(t) + (Len(q) + 1)
            BY <2>1, <2>4, <2>5, CountFacts
        <3> QED
            BY <2>2, <3>1, <3>2
    <2>7. \A i \in 1..Len(r) : r[i].state = "intact"
        <3>1. \A i \in 1..Len(q) : r[i].state = "intact"
            BY <2>1 DEF Complete
        <3>2. r[Len(q) + 1].state = "intact"
            BY <2>1 DEF Piece
        <3> QED
            BY <2>2, <3>1, <3>2
    <2>8. PiecesRead(t)' + Len(r) = PiecesWritten(t)'
        BY <1>2, <2>1, <2>4, CountFacts
    <2> QED
        BY <1>2, <2>6, <2>7, <2>8 DEF Complete, Rank
<1> QED
    BY <1>3, <1>4

\* A thread of the gateway, by the flow it serves and by the others.
LEMMA GatewayComplete ==
    ASSUME IInv, NEW t \in Sessions, ~spoiled[t], NEW s \in Sessions,
           Connect(s) \/ ConnectFails(s) \/ GatewayStep(s) \/ CallFails(s) \/ ClientStep(s)
    PROVE  Complete(t)'
<1> USE DEF IInv
<1>1. Complete(t)
    BY DEF NothingMissing
<1>2. UNCHANGED <<rx, received, lost, spoiled, sameKey>>
    BY DEF Connect, ConnectFails, GatewayStep, CallFails, ClientStep, HandshakeReturns, Seal,
           WriteHeader, WritePayload, WriteFails, Close, rxVars, netVars
<1>3. CASE s # t
    <2>1. gw'[t] = gw[t] /\ msg_count'[t] = msg_count[t] /\ far'[t] = far[t]
        BY <1>3 DEF Connect, ConnectFails, GatewayStep, CallFails, ClientStep,
                    HandshakeReturns, Seal, WriteHeader, WritePayload, WriteFails, Close, rxVars,
                    Goto, TypeOK
    <2>2. stream'[t] = stream[t]
        <3>1. CASE WriteHeader(s) \/ WritePayload(s)
            BY <1>3, <3>1, PutFacts DEF WriteHeader, WritePayload
        <3>2. CASE ~(WriteHeader(s) \/ WritePayload(s))
            BY <3>2 DEF Connect, ConnectFails, GatewayStep, CallFails, ClientStep,
                        HandshakeReturns, Seal, WriteFails, Close, netVars
        <3> QED
            BY <3>1, <3>2
    <2> QED
        BY <1>1, <1>2, <2>1, <2>2, CompleteFrame DEF Unread, ReadOn, WrittenOn, Connectible,
                                                    Writing, AtPayload, Complete
<1>4. CASE s = t /\ WriteHeader(t)
    <2>1. PiecesWritten(t)' = PiecesWritten(t) + 1
        BY <1>4, CountFacts DEF WriteHeader, Goto, PiecesWritten, TypeOK
    <2>2. Put(t, "header") /\ gw[t] = "header" /\ UNCHANGED far
        BY <1>4 DEF WriteHeader, rxVars
    <2> QED
        BY <1>1, <1>2, <2>1, <2>2, WriteComplete
<1>5. CASE s = t /\ WritePayload(t)
    <2>1. PiecesWritten(t)' = PiecesWritten(t) + 1
        BY <1>5, CountFacts DEF WritePayload, Goto, PiecesWritten, TypeOK
    <2>2. Put(t, "payload") /\ gw[t] = "payload" /\ UNCHANGED far
        BY <1>5 DEF WritePayload, rxVars
    <2> QED
        BY <1>1, <1>2, <2>1, <2>2, WriteComplete
<1>6. CASE s = t /\ Connect(t)
    <2>1. stream'[t] = <<>> /\ received'[t] = <<>> /\ msg_count'[t] = 0 /\ far[t] = "none"
        BY <1>6 DEF Connect, NothingYet, netVars
    <2>2. gw'[t] = "handshake"
        BY <1>6 DEF Connect, Goto, TypeOK
    <2>3. rx.s # t
        BY <2>1 DEF OneConnection
    <2>4. PiecesRead(t)' = 0 /\ PiecesWritten(t)' = 0
        BY <1>2, <2>1, <2>2, <2>3 DEF PiecesRead, PiecesWritten, AtPayload, D!LastOf
    <2>5. Len(stream'[t]) = 0
        BY <2>1
    <2> QED
        BY <1>1, <1>2, <2>1, <2>3, <2>4, <2>5 DEF Complete
<1>7. CASE s = t /\ ~(WriteHeader(t) \/ WritePayload(t) \/ Connect(t))
    <2>1. UNCHANGED <<stream, far, msg_count>>
        BY <1>7 DEF ConnectFails, GatewayStep, CallFails, ClientStep,
                    HandshakeReturns, Seal, WriteFails, Close, rxVars, netVars
    <2>2. Writing(t)' => Writing(t) /\ gw'[t] # "payload" /\ gw[t] # "payload"
        BY <1>7 DEF ConnectFails, GatewayStep, CallFails, ClientStep,
                    HandshakeReturns, Seal, WriteFails, Close, Goto, Writing, TypeOK
    <2> QED
        BY <1>1, <1>2, <2>1, <2>2, CompleteFrame DEF Unread, ReadOn, WrittenOn, Connectible,
                                                    AtPayload, Complete
<1> QED
    BY <1>3, <1>4, <1>5, <1>6, <1>7

\* What the receiver reads of a flow it holds; of the others it reads nothing.
LEMMA ReceiverComplete ==
    ASSUME IInv, NEW t \in Sessions, ~spoiled[t],
           ReceiverStep \/ ReceiverStarts \/ \E s \in Sessions : ReceiverDies(s)
    PROVE  Complete(t)'
<1> USE NoSessionAssumption DEF IInv
<1>1. Complete(t)
    BY DEF NothingMissing
<1>2. UNCHANGED <<gw, msg_count, lost, spoiled, sameKey>>
    BY ReceiverFrame
<1>3. ASSUME stream'[t] = stream[t], received'[t] = received[t], ReadOn(t)
      PROVE  Complete(t)'
    BY <1>1, <1>2, <1>3, CompleteFrame DEF Unread, WrittenOn, Writing
<1>4. CASE Accept
    <2>1. rx.s = NoSession /\ rx'.pc = "handshake"
        BY <1>4 DEF Accept, TypeOK
    <2>2. Connectible(t)' => Connectible(t)
        BY <1>4, AcceptBacklog DEF Accept, Connectible, TypeOK
    <2>3. ReadOn(t)
        BY <2>1, <2>2 DEF ReadOn, AtPayload
    <2> QED
        BY <1>3, <1>4, <2>3 DEF Accept, netVars
<1>5. ASSUME NEW s \in Sessions, Ends(s)
      PROVE  ReadOn(t)
    <2>1. rx'.s = NoSession /\ rx.s = s
        BY <1>5 DEF Ends
    <2>2. t = s => ~Connectible(t)'
        BY <1>5 DEF Ends, Connectible, TypeOK
    <2>3. t # s => far'[t] = far[t]
        BY <1>5 DEF Ends, TypeOK
    <2> QED
        BY <2>1, <2>2, <2>3 DEF ReadOn, AtPayload, Connectible
<1>6. ASSUME GoesOn, rx.s # t
      PROVE  ReadOn(t)
    BY <1>6 DEF GoesOn, ReadOn, AtPayload, Connectible
<1>7. ASSUME NEW s \in Sessions, ReceiverHandshakeFails(s) \/ StreamEnds(s)
      PROVE  Complete(t)'
    <2>1. Ends(s)
        BY <1>7, ReceiverMoves DEF ReceiverHandshakeFails, StreamEnds, EndFlow, Ends
    <2> QED
        BY <1>3, <1>5, <1>7, <2>1 DEF ReceiverHandshakeFails, StreamEnds, netVars
<1>8. ASSUME NEW s \in Sessions, ReceiverHandshake(s)
      PROVE  Complete(t)'
    <2>1. CASE rx' = [rx EXCEPT !.pc = "header"] /\ far' = far
        <3>1. rx'.pc = "header" /\ rx'.s = rx.s /\ rx.pc = "handshake"
            BY <1>8, <2>1, ReceiverMoves DEF ReceiverHandshake, RxPlaces
        <3> QED
            BY <1>3, <1>8, <2>1, <3>1 DEF ReceiverHandshake, ReadOn, AtPayload, Connectible, netVars
    <2>2. CASE EndFlow(s, "failed")
        <3>1. Ends(s)
            BY <1>8, <2>2, ReceiverMoves DEF ReceiverHandshake, EndFlow, Ends
        <3> QED
            BY <1>3, <1>5, <1>8, <3>1 DEF ReceiverHandshake, netVars
    <2> QED
        BY <1>8, <2>1, <2>2 DEF ReceiverHandshake
<1>9. ASSUME NEW s \in Sessions, s # t, ReadHeader(s) \/ ReadPayload(s) \/ ReadAdrift(s)
      PROVE  Complete(t)'
    <2>1. rx.s = s /\ stream[s] # <<>> /\ Take(s) /\ ~Accept
        BY <1>9 DEF ReadHeader, ReadPayload, ReadAdrift, Arrived, Accept
    <2>2. stream'[t] = stream[t]
        BY <1>9, <2>1, TakeShifts
    <2>3. received'[t] = received[t]
        BY <1>9 DEF ReadHeader, ReadPayload, ReadAdrift, TypeOK
    <2>4. GoesOn \/ \E u \in Sessions : Ends(u)
        BY <1>9, <2>1, ReceiverBookkeeping DEF ReceiverStep
    <2> QED
        BY <1>3, <1>5, <1>6, <1>9, <2>1, <2>2, <2>3, <2>4
<1>10. ASSUME rx.s = t, stream[t] # <<>>
       PROVE  /\ Connectible(t) /\ Head(stream[t]) = stream[t][1]
              /\ Head(stream[t]).state = "intact"
              /\ Rank(Head(stream[t])) = PiecesRead(t) + 1
    <2>1. Head(stream[t]) = stream[t][1] /\ 1 \in 1..Len(stream[t])
        <3>1. stream[t] \in Seq(Pieces)
            BY DEF TypeOK
        <3> QED
            BY <1>10, <3>1, TailFacts
    <2>2. Connectible(t)
        BY <1>10 DEF OneConnection, Connectible
    <2> QED
        BY <1>1, <2>1, <2>2 DEF Complete
<1>11. CASE ReadHeader(t)
    <2>1. rx.s = t /\ rx.pc = "header" /\ stream[t] # <<>> /\ Take(t) /\ received' = received
        BY <1>11 DEF ReadHeader, Arrived
    <2>2. rx' = [rx EXCEPT !.pc = "payload"]
        BY <1>10, <1>11, <2>1 DEF ReadHeader
    <2>3. rx'.s = t /\ rx'.pc = "payload"
        BY <2>1, <2>2, ReceiverMoves DEF RxPlaces
    <2>4. PiecesRead(t)' = PiecesRead(t) + 1
        BY <2>1, <2>3, LastOfFacts DEF PiecesRead, AtPayload
    <2> QED
        BY <1>1, <1>2, <1>10, <2>1, <2>3, <2>4, ReadComplete
<1>12. CASE ReadPayload(t)
    <2>1. /\ rx.s = t /\ rx.pc = "payload" /\ stream[t] # <<>> /\ Take(t)
          /\ Head(stream[t]).kind = "payload"
        BY <1>12 DEF ReadPayload, Arrived
    <2>2. received'[t] = Append(received[t], Head(stream[t]).n) /\ sameKey[t]
        BY <1>1, <1>10, <1>12, <2>1 DEF ReadPayload, Complete, TypeOK
    <2>3. Head(stream[t]).n \in 1..MaxMessages
        BY <2>1, TakeType DEF Pieces
    <2>4. D!LastOf(t)' = Head(stream[t]).n
        BY <2>2, <2>3, LastOfFacts
    <2>5. Head(stream[t]).n = D!LastOf(t) + 1
        <3>1. 2 * Head(stream[t]).n = 2 * D!LastOf(t) + 1 + 1
            BY <1>10, <2>1 DEF Rank, PiecesRead, AtPayload
        <3> QED
            <4>1. \A a, b \in Nat : 2 * a = 2 * b + 1 + 1 => a = b + 1
                OBVIOUS
            <4>2. Head(stream[t]).n \in Nat /\ D!LastOf(t) \in Nat
                BY <2>3, CountFacts, MaxMessagesAssumption
            <4> QED
                BY <3>1, <4>1, <4>2
    <2>6. rx'.s = t /\ rx'.pc = "header"
        BY <1>12, <2>1, ReceiverMoves DEF ReadPayload, RxPlaces
    <2>7. PiecesRead(t)' = PiecesRead(t) + 1
        BY <2>1, <2>4, <2>5, <2>6, CountFacts DEF PiecesRead, AtPayload
    <2> QED
        BY <1>1, <1>2, <1>10, <2>1, <2>6, <2>7, ReadComplete
<1>13. CASE ReadAdrift(t)
    BY <1>1, <1>13 DEF ReadAdrift, Complete
<1>14. ASSUME NEW s \in Sessions, ReceiverDies(s)
       PROVE  Complete(t)'
    <2>1. rx'.pc = "dead" /\ ~Connectible(t)'
        BY <1>14 DEF ReceiverDies, Connectible
    <2> QED
        BY <1>3, <1>14, <2>1 DEF ReceiverDies, ReadOn, netVars
<1>15. CASE ReceiverStarts
    <2>1. rx.s = NoSession /\ rx'.s = NoSession
        BY <1>15, ReceiverMoves DEF ReceiverStarts, TypeOK
    <2> QED
        BY <1>3, <1>15, <2>1 DEF ReceiverStarts, ReadOn, AtPayload, Connectible, netVars
<1> QED
    BY <1>4, <1>7, <1>8, <1>9, <1>11, <1>12, <1>13, <1>14, <1>15 DEF ReceiverStep

\* Whatever alters a flow marks it as spoiled; a lost association is no longer written.
LEMMA FaultComplete ==
    ASSUME IInv, NEW t \in Sessions, ~spoiled'[t], NEW s \in Sessions, Fault(s)
    PROVE  Complete(t)'
<1> USE DEF IInv
<1>1. ~spoiled[t]
    BY DEF Fault, AssociationLost, AlterHandshake, AlterPiece, OpenFails, TypeOK
<1>2. Complete(t)
    BY DEF NothingMissing
<1>3. UNCHANGED <<gw, msg_count, far, received>>
    BY FaultBookkeeping
<1>4. CASE s # t
    <2>1. stream'[t] = stream[t]
        BY <1>4, FaultShifts
    <2>2. sameKey'[t] = sameKey[t] /\ spoiled'[t] = spoiled[t] /\ lost'[t] = lost[t]
        BY <1>4 DEF Fault, AssociationLost, AlterHandshake, AlterPiece, OpenFails, TypeOK
    <2>3. CASE SameBookkeeping
        BY <1>2, <1>3, <2>1, <2>2, <2>3, CompleteFrame DEF SameBookkeeping, Unread, ReadOn,
            WrittenOn, Writing, AtPayload, Connectible, Complete
    <2>4. CASE OpenFails(s)
        <3>1. rx.s = s /\ rx'.s = s
            BY <2>4, ReceiverMoves DEF OpenFails, Arrived, RxPlaces
        <3> QED
            BY <1>2, <1>3, <1>4, <2>1, <2>2, <3>1, CompleteFrame DEF Unread, ReadOn,
                WrittenOn, Writing, AtPayload, Connectible
    <2> QED
        BY <2>3, <2>4 DEF Fault, AssociationLost, AlterHandshake, AlterPiece, SameBookkeeping,
                         rxVars
<1>5. CASE s = t
    <2>1. AssociationLost(t)
        BY <1>5 DEF Fault, AlterHandshake, AlterPiece, OpenFails, TypeOK
    <2>2. /\ lost'[t] /\ UNCHANGED <<rx, received, far, spoiled, sameKey>>
        BY <2>1 DEF AssociationLost, rxVars, TypeOK
    <2>3. /\ \A i \in 1..Len(stream'[t]) : i \in 1..Len(stream[t]) /\ stream'[t][i] = stream[t][i]
        <3>1. PICK n \in 0..Len(stream[t]) : stream'[t] = SubSeq(stream[t], 1, n)
            BY <2>1 DEF AssociationLost, TypeOK
        <3>2. stream[t] \in Seq(Pieces) /\ Len(stream[t]) \in Nat
            BY LenProperties DEF TypeOK
        <3>3. \A i \in 1..n : stream[t][i] \in Pieces
            BY <3>2, ElementOfSeq
        <3> QED
            BY <3>1, <3>2, <3>3, SubSeqProperties
    <2>4. PiecesRead(t)' = PiecesRead(t)
        BY <2>2, LastOfFacts DEF PiecesRead, AtPayload
    <2> QED
        BY <1>1, <1>2, <2>2, <2>3, <2>4 DEF Complete, Connectible, Rank
<1> QED
    BY <1>4, <1>5

\* Every step keeps the invariant.
LEMMA NextIInv == IInv /\ [Next]_vars => IInv'
<1> SUFFICES ASSUME IInv, [Next]_vars PROVE IInv'
    OBVIOUS
<1>1. CASE Next
    <2>1. TypeOK'
        BY <1>1, GatewayTypeOK, ReceiverTypeOK, FaultTypeOK DEF Next, IInv
    <2>2. NothingMissing'
        <3> SUFFICES ASSUME NEW t \in Sessions, ~spoiled'[t] PROVE Complete(t)'
            BY DEF NothingMissing, Complete
        <3>1. ASSUME NEW s \in Sessions, Fault(s)
              PROVE  Complete(t)'
            BY <3>1, FaultComplete
        <3>2. CASE ReceiverStep \/ ReceiverStarts \/ \E s \in Sessions : ReceiverDies(s)
            BY <3>2, ReceiverFrame, ReceiverComplete
        <3>3. ASSUME NEW s \in Sessions,
                     \/ Connect(s) \/ ConnectFails(s) \/ GatewayStep(s)
                     \/ CallFails(s) \/ ClientStep(s)
              PROVE  Complete(t)'
            <4>1. spoiled' = spoiled
                BY <3>3 DEF Connect, ConnectFails, GatewayStep, CallFails, ClientStep,
                            HandshakeReturns, Seal, WriteHeader, WritePayload, WriteFails,
                            Close, netVars
            <4> QED
                BY <3>3, <4>1, GatewayComplete
        <3> QED
            BY <1>1, <3>1, <3>2, <3>3 DEF Next
    <2> QED
        BY <1>1, <2>1, <2>2, NextBacklog, NextMessagesLeft, NextPayloadsInOrder DEF IInv
<1>2. CASE UNCHANGED vars
    <2> USE <1>2 DEF vars, gwVars, rxVars, netVars, IInv
    <2>1. TypeOK' /\ OneConnection'
        BY DEF TypeOK, OneConnection, Connected
    <2>2. MessagesLeft' /\ BacklogOK' /\ NothingYet'
        BY DEF MessagesLeft, BacklogOK, NothingYet
    <2>3. PayloadsInOrder'
        BY SameInOrder DEF PayloadsInOrder
    <2>4. NothingMissing'
        BY CompleteFrame DEF NothingMissing, Unread, ReadOn, WrittenOn, Connectible, Writing,
                             AtPayload, Complete
    <2> QED
        BY <2>1, <2>2, <2>3, <2>4
<1> QED
    BY <1>1, <1>2

\* The inductive invariant holds in every reachable state.
THEOREM Invariance == Spec => []IInv
<1>1. Init => IInv
    BY InitIInv
<1>2. IInv /\ [Next]_vars => IInv'
    BY NextIInv
<1> QED
    BY <1>1, <1>2, PTL DEF Spec

\* The state of the relay is well typed: no thread leaves its program, no message is
\* numbered above what a client sends, and the receiver holds a connection exactly in the
\* places where it serves one (sctp_gateway.c: handle_client; sctp_receiver.c: main).
THEOREM TypeCorrect == Spec => []TypeOK
<1>1. IInv => TypeOK
    BY DEF IInv
<1> QED
    BY <1>1, Invariance, PTL

\* However its flows end, the receiver has one connection at a time, the one it serves,
\* and when it dies it leaves none (sctp_receiver.c: the accept loop and close).
THEOREM OneConnectionAtATime == Spec => []OneConnection
<1>1. IInv => OneConnection
    BY DEF IInv
<1> QED
    BY <1>1, Invariance, PTL

--------------------------------------------------------------------------------
\* A record that the receiver opens is, in Delivery, the reception of a message: one
\* that was relayed, after the last one received, and the next one if nothing was altered.
LEMMA ReadPayloadReceives ==
    ASSUME IInv, NEW s \in Sessions, ReadPayload(s)
    PROVE  D!Receive(s) \/ UNCHANGED D!vars
<1> USE DEF IInv
<1>1. /\ rx.s = s /\ rx.pc = "payload" /\ stream[s] # <<>> /\ Take(s)
      /\ Head(stream[s]).kind = "payload"
      /\ UNCHANGED <<msg_count, spoiled>>
    BY DEF ReadPayload, Arrived, gwVars
<1>2. CASE received' = received
    BY <1>1, <1>2 DEF D!vars
<1>3. CASE received' = [received EXCEPT ![s] = Append(@, Head(stream[s]).n)]
    <2> DEFINE n == Head(stream[s]).n
    <2>1. Head(stream[s]) = stream[s][1] /\ 1 \in 1..Len(stream[s])
        BY <1>1, TakeShifts
    <2>2. n \in Nat /\ D!LastOf(s) \in Nat /\ msg_count[s] \in Nat
        BY <2>1, CountFacts
    <2>3. D!LastOf(s) < n /\ n <= msg_count[s]
        BY <1>1, <2>1 DEF PayloadsInOrder, InOrder
    <2>4. ASSUME ~spoiled[s]
          PROVE  n = D!LastOf(s) + 1
        <3>1. Connectible(s)
            BY <1>1 DEF OneConnection, Connectible
        <3>2. Rank(stream[s][1]) = PiecesRead(s) + 1
            BY <2>1, <2>4, <3>1 DEF NothingMissing, Complete
        <3>3. 2 * n = 2 * D!LastOf(s) + 1 + 1
            BY <1>1, <2>1, <3>2 DEF Rank, PiecesRead, AtPayload
        <3>4. \A a, b \in Nat : 2 * a = 2 * b + 1 + 1 => a = b + 1
            OBVIOUS
        <3> QED
            BY <2>2, <3>3, <3>4
    <2>5. n \in D!LastOf(s) + 1..msg_count[s]
        BY <2>2, <2>3
    <2> QED
        BY <1>1, <1>3, <2>4, <2>5 DEF D!Receive
<1> QED
    BY <1>2, <1>3 DEF ReadPayload

\* Each step of the relay is a step of Delivery, or changes nothing of it.
LEMMA StepDelivers == IInv /\ [Next]_vars => [D!Next]_(D!vars)
<1> SUFFICES ASSUME IInv, [Next]_vars PROVE D!Next \/ UNCHANGED D!vars
    OBVIOUS
<1>1. ASSUME NEW s \in Sessions, WritePayload(s)
      PROVE  D!Next
    <2>1. msg_count[s] < MaxMessages
        BY <1>1 DEF WritePayload, IInv, MessagesLeft
    <2>2. D!Relay(s)
        BY <1>1, <2>1 DEF WritePayload, rxVars, D!Relay
    <2> QED
        BY <2>2 DEF D!Next
<1>2. ASSUME NEW s \in Sessions, ReadPayload(s)
      PROVE  D!Next \/ UNCHANGED D!vars
    BY <1>2, ReadPayloadReceives DEF D!Next
<1>3. ASSUME NEW s \in Sessions, AlterHandshake(s) \/ AlterPiece(s) \/ OpenFails(s)
      PROVE  D!Next
    <2>1. D!Spoil(s)
        BY <1>3 DEF AlterHandshake, AlterPiece, OpenFails, gwVars, rxVars, D!Spoil
    <2> QED
        BY <2>1 DEF D!Next
<1>4. ASSUME NEW s \in Sessions,
             \/ Connect(s) \/ ConnectFails(s) \/ HandshakeReturns(s) \/ Seal(s)
             \/ WriteHeader(s) \/ WriteFails(s) \/ Close(s) \/ CallFails(s) \/ ClientStep(s)
      PROVE  UNCHANGED D!vars
    BY <1>4 DEF Connect, ConnectFails, HandshakeReturns, Seal, WriteHeader, WriteFails, Close,
                CallFails, ClientStep, rxVars, netVars, D!vars
<1>5. ASSUME NEW s \in Sessions,
             \/ ReceiverHandshakeFails(s) \/ ReceiverHandshake(s) \/ ReadHeader(s)
             \/ ReadAdrift(s) \/ StreamEnds(s) \/ ReceiverDies(s) \/ AssociationLost(s)
      PROVE  UNCHANGED D!vars
    BY <1>5 DEF ReceiverHandshakeFails, ReceiverHandshake, ReadHeader, ReadAdrift, StreamEnds,
                ReceiverDies, AssociationLost, gwVars, rxVars, netVars, D!vars
<1>6. CASE Accept \/ ReceiverStarts \/ UNCHANGED vars
    BY <1>6 DEF Accept, ReceiverStarts, vars, gwVars, rxVars, netVars, D!vars
<1> QED
    BY <1>1, <1>2, <1>3, <1>4, <1>5, <1>6 DEF Next, GatewayStep, ReceiverStep, Fault

\* The relay implements Delivery: whatever is cut, altered or lost, and however often the
\* receiver dies, a message counted in msg_count is shown at most once, unmodified and in
\* order, and none is skipped where nothing was altered (sctp_gateway.c: the sending loop;
\* frame.h: frame_read; sctp_receiver.c: the reading loop).
THEOREM RelayImplementsDelivery == Spec => DeliversInOrder
<1>1. Init => D!Init
    BY DEF Init, D!Init
<1>2. IInv /\ [Next]_vars => [D!Next]_(D!vars)
    BY StepDelivers
<1> QED
    BY <1>1, <1>2, Invariance, PTL DEF Spec, DeliversInOrder, D!Spec

================================================================================
