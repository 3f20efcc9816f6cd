----------------------------------- MODULE Relay -----------------------------------
(***************************************************************************)
(* The encrypted relay: the sending loop of handle_client in               *)
(* gateway/sctp_gateway.c, the framing of gateway/frame.h, the records of  *)
(* gateway/crypto_layer.c, and the receiver, gateway/sctp_receiver.c, which*)
(* serves one association at a time and reads frames until it ends.        *)
(*                                                                         *)
(* The stream of an association is a sequence of pieces.  A header and a   *)
(* payload are written by two calls; what a failed call has written of its *)
(* piece never becomes a piece.                                            *)
(***************************************************************************)
EXTENDS Naturals, Sequences

CONSTANTS
    Sessions,      \* the flows: one gateway thread and one association each
    NoSession,     \* the receiver holds no connection
    MaxMessages    \* bound: how many messages a client sends

ASSUME NoSessionAssumption == NoSession \notin Sessions
ASSUME MaxMessagesAssumption == MaxMessages \in Nat \ {0}

VARIABLES
    gw,          \* where each session's thread is
    msg_count,   \* its msg_count
    open,        \* its descriptor of the association is open
    far,         \* the receiver's end of the association
    answered,    \* the receiver's half of the handshake has sent its reply
    backlog,     \* the associations the receiver has not accepted yet, in order
    rx,          \* the receiver: its place and the session whose client_fd it holds
    received,    \* the messages of the flow that the receiver has shown
    stream,      \* the pieces written to the association and not yet read
    lost,        \* the association was aborted
    spoiled,     \* a byte was altered on the way, or a record could not be opened
    sameKey      \* both halves of the handshake derive the same key

gwVars == <<gw, msg_count, open>>
rxVars == <<far, answered, backlog, rx, received>>
netVars == <<stream, lost, spoiled, sameKey>>
vars == <<gwVars, rxVars, netVars>>

GwPlaces == {"idle", "handshake", "seal", "header", "payload", "recv", "close", "done"}
RxPlaces == {"accept", "handshake", "header", "payload", "adrift", "dead"}
FarStates == {"none", "queued", "open", "closed", "failed"}

\* A piece arrives intact, or altered: a length above the receiver's buffer, another
\* wrong length, or a record whose tag does not verify.
Piece(kind, n) == [kind |-> kind, n |-> n, state |-> "intact"]
Pieces == [kind : {"header", "payload"}, n : 1..MaxMessages,
           state : {"intact", "toolong", "wrong"}]

Idle == [pc |-> "accept", s |-> NoSession]
Goto(s, place) == gw' = [gw EXCEPT ![s] = place]

Init ==
    /\ gw = [s \in Sessions |-> "idle"]
    /\ msg_count = [s \in Sessions |-> 0]
    /\ open = [s \in Sessions |-> FALSE]
    /\ far = [s \in Sessions |-> "none"]
    /\ answered = [s \in Sessions |-> FALSE]
    /\ backlog = <<>>
    /\ rx = Idle
    /\ received = [s \in Sessions |-> <<>>]
    /\ stream = [s \in Sessions |-> <<>>]
    /\ lost = [s \in Sessions |-> FALSE]
    /\ spoiled = [s \in Sessions |-> FALSE]
    /\ sameKey = [s \in Sessions |-> TRUE]

--------------------------------------------------------------------------------
\* The gateway.  The kernel sets up the association before the receiver accepts it.
Connect(s) ==
    /\ gw[s] = "idle"
    /\ rx.pc # "dead"
    /\ Goto(s, "handshake")
    /\ open' = [open EXCEPT ![s] = TRUE]
    /\ far' = [far EXCEPT ![s] = "queued"]
    /\ backlog' = Append(backlog, s)
    /\ UNCHANGED <<msg_count, answered, rx, received, netVars>>

ConnectFails(s) ==
    /\ gw[s] = "idle"
    /\ rx.pc = "dead"
    /\ Goto(s, "done")
    /\ UNCHANGED <<msg_count, open, rxVars, netVars>>

\* There is somebody to write to, and a read waits for more.
Connected(s) == ~lost[s] /\ far[s] \in {"queued", "open"}

\* The initiator's half returns 0 once it has the reply; it fails at the end of the
\* stream.  Until then it waits.
HandshakeReturns(s) ==
    /\ gw[s] = "handshake"
    /\ \/ answered[s] /\ Goto(s, "seal")
       \/ ~Connected(s) /\ Goto(s, "close")
    /\ UNCHANGED <<msg_count, open, rxVars, netVars>>

\* encrypt_data_gcm, then the two writes of frame_write.
Seal(s) ==
    /\ gw[s] = "seal"
    /\ Goto(s, "header")
    /\ UNCHANGED <<msg_count, open, rxVars, netVars>>

\* A write returns once the piece is buffered.  With nobody left to read it, it may
\* still do so; the piece reaches nobody.
Put(s, kind) ==
    stream' = IF Connected(s)
              THEN [stream EXCEPT ![s] = Append(@, Piece(kind, msg_count[s] + 1))]
              ELSE stream

WriteHeader(s) ==
    /\ gw[s] = "header"
    /\ Put(s, "header")
    /\ Goto(s, "payload")
    /\ UNCHANGED <<msg_count, open, lost, spoiled, sameKey, rxVars>>

\* Mutated form: the frame is written again when it was written already.
WritePayloadAgain(s) ==
    /\ gw[s] = "payload"
    /\ Put(s, "payload")
    /\ \/ msg_count' = [msg_count EXCEPT ![s] = @ + 1] /\ Goto(s, "recv")
       \/ Len(stream[s]) < 4 /\ msg_count' = msg_count /\ Goto(s, "header")
    /\ UNCHANGED <<open, lost, spoiled, sameKey, rxVars>>

WritePayload(s) ==
    /\ gw[s] = "payload"
    /\ Put(s, "payload")
    /\ msg_count' = [msg_count EXCEPT ![s] = @ + 1]
    /\ Goto(s, "recv")
    /\ UNCHANGED <<open, lost, spoiled, sameKey, rxVars>>

\* A write finds nobody to write to: the loop ends.
WriteFails(s) ==
    /\ gw[s] \in {"header", "payload"}
    /\ ~Connected(s)
    /\ Goto(s, "close")
    /\ UNCHANGED <<msg_count, open, rxVars, netVars>>

\* A call of the handshake, of the cipher or of the socket fails for another reason.
CallFails(s) ==
    /\ gw[s] \in {"handshake", "seal", "header", "payload"}
    /\ Goto(s, "close")
    /\ UNCHANGED <<msg_count, open, rxVars, netVars>>

\* The client has another message, or closes.
ClientStep(s) ==
    /\ gw[s] = "recv"
    /\ \/ msg_count[s] < MaxMessages /\ Goto(s, "seal")
       \/ Goto(s, "close")
    /\ UNCHANGED <<msg_count, open, rxVars, netVars>>

\* close(sctp_fd): what was written is still delivered.
Close(s) ==
    /\ gw[s] = "close"
    /\ open' = [open EXCEPT ![s] = FALSE]
    /\ Goto(s, "done")
    /\ UNCHANGED <<msg_count, rxVars, netVars>>

GatewayStep(s) ==
    \/ HandshakeReturns(s) \/ Seal(s) \/ WriteHeader(s) \/ WritePayload(s)
    \/ WriteFails(s) \/ Close(s)

--------------------------------------------------------------------------------
\* The receiver.
Accept ==
    /\ rx.pc = "accept"
    /\ backlog # <<>>
    /\ rx' = [pc |-> "handshake", s |-> Head(backlog)]
    /\ far' = [far EXCEPT ![Head(backlog)] = "open"]
    /\ backlog' = Tail(backlog)
    /\ UNCHANGED <<answered, received, gwVars, netVars>>

\* close(client_fd) and back to accept.
EndFlow(s, how) ==
    /\ far' = [far EXCEPT ![s] = how]
    /\ rx' = Idle

\* Mutated form: the next association is accepted, and this one stays open.
HandshakeFailsOpen(s) ==
    /\ rx.pc = "handshake" /\ rx.s = s
    /\ rx' = Idle
    /\ UNCHANGED <<far, answered, backlog, received, gwVars, netVars>>

\* The responder's half fails: at the end of the stream, on a field that was altered,
\* or because some call does.
ReceiverHandshakeFails(s) ==
    /\ rx.pc = "handshake" /\ rx.s = s
    /\ EndFlow(s, "failed")
    /\ UNCHANGED <<answered, backlog, received, gwVars, netVars>>

\* It answers, and then returns 0 or fails to derive the key.
ReceiverHandshake(s) ==
    /\ rx.pc = "handshake" /\ rx.s = s
    /\ answered' = [answered EXCEPT ![s] = TRUE]
    /\ \/ rx' = [rx EXCEPT !.pc = "header"] /\ far' = far
       \/ EndFlow(s, "failed")
    /\ UNCHANGED <<backlog, received, gwVars, netVars>>

\* The receiver does not ignore SIGPIPE: where the gateway has closed, or the association
\* is gone, a write of the reply may end the process and every association with it.
ReceiverDies(s) ==
    /\ rx.pc = "handshake" /\ rx.s = s
    /\ ~open[s] \/ lost[s]
    /\ rx' = [pc |-> "dead", s |-> NoSession]
    /\ far' = [t \in Sessions |-> IF far[t] \in {"queued", "open"} THEN "failed" ELSE far[t]]
    /\ backlog' = <<>>
    /\ UNCHANGED <<answered, received, gwVars, netVars>>

ReceiverStarts ==
    /\ rx.pc = "dead"
    /\ rx' = Idle
    /\ UNCHANGED <<far, answered, backlog, received, gwVars, netVars>>

Arrived(s, place, kind) ==
    /\ rx.pc = place /\ rx.s = s
    /\ stream[s] # <<>>
    /\ Head(stream[s]).kind = kind

Take(s) == stream' = [stream EXCEPT ![s] = Tail(@)]

\* frame_read, the length: a frame above the buffer ends the flow; after a wrong
\* length, the reads are out of step with the frames.
ReadHeader(s) ==
    /\ Arrived(s, "header", "header")
    /\ Take(s)
    /\ CASE Head(stream[s]).state = "intact"  -> rx' = [rx EXCEPT !.pc = "payload"] /\ far' = far
         [] Head(stream[s]).state = "wrong"   -> rx' = [rx EXCEPT !.pc = "adrift"] /\ far' = far
         [] Head(stream[s]).state = "toolong" -> EndFlow(s, "failed")
    /\ UNCHANGED <<answered, backlog, received, gwVars, lost, spoiled, sameKey>>

\* Mutated form: a record that does not open is counted as a message.
CountsFailures(s) ==
    /\ Arrived(s, "payload", "payload")
    /\ received' = [received EXCEPT ![s] =
          Append(@, IF Head(stream[s]).state = "intact" /\ sameKey[s]
                    THEN Head(stream[s]).n ELSE 0)]
    /\ Take(s)
    /\ rx' = [rx EXCEPT !.pc = "header"]
    /\ UNCHANGED <<far, answered, backlog, gwVars, lost, spoiled, sameKey>>

\* frame_read, the payload, and decrypt_data_gcm: a record whose tag does not verify
\* is dropped and the loop goes on.
ReadPayload(s) ==
    /\ Arrived(s, "payload", "payload")
    /\ received' = IF Head(stream[s]).state = "intact" /\ sameKey[s]
                   THEN [received EXCEPT ![s] = Append(@, Head(stream[s]).n)]
                   ELSE received
    /\ Take(s)
    /\ rx' = [rx EXCEPT !.pc = "header"]
    /\ UNCHANGED <<far, answered, backlog, gwVars, lost, spoiled, sameKey>>

\* Out of step, no record opens; a length above the buffer ends the flow, and by chance
\* the reads may come upon the boundary after a payload again.
ReadAdrift(s) ==
    /\ rx.pc = "adrift" /\ rx.s = s
    /\ stream[s] # <<>>
    /\ Take(s)
    /\ \/ UNCHANGED <<rx, far>>
       \/ EndFlow(s, "failed")
       \/ Head(stream[s]).kind = "payload" /\ rx' = [rx EXCEPT !.pc = "header"] /\ far' = far
    /\ UNCHANGED <<answered, backlog, received, gwVars, lost, spoiled, sameKey>>

\* Mutated form: the flow ends as soon as the gateway has closed, whatever is unread.
EndsUnread(s) ==
    /\ rx.pc \in {"header", "payload", "adrift"} /\ rx.s = s
    /\ ~open[s] \/ lost[s]
    /\ EndFlow(s, "closed")
    /\ UNCHANGED <<answered, backlog, received, gwVars, netVars>>

\* frame_read finds the end of the stream, between two frames or inside one.
StreamEnds(s) ==
    /\ rx.pc \in {"header", "payload", "adrift"} /\ rx.s = s
    /\ stream[s] = <<>>
    /\ ~open[s] \/ lost[s]
    /\ EndFlow(s, "closed")
    /\ UNCHANGED <<answered, backlog, received, gwVars, netVars>>

ReceiverStep ==
    \/ Accept
    \/ \E s \in Sessions :
          \/ ReceiverHandshakeFails(s) \/ ReceiverHandshake(s)
          \/ ReadHeader(s) \/ ReadPayload(s) \/ ReadAdrift(s) \/ StreamEnds(s)

--------------------------------------------------------------------------------
\* Faults.  Of an aborted association, the receiver may still read a part.
AssociationLost(s) ==
    /\ gw[s] # "idle" /\ ~lost[s]
    /\ lost' = [lost EXCEPT ![s] = TRUE]
    /\ \E n \in 0..Len(stream[s]) : stream' = [stream EXCEPT ![s] = SubSeq(@, 1, n)]
    /\ UNCHANGED <<gwVars, rxVars, spoiled, sameKey>>

\* A field of the handshake is altered and neither side notices: they may then hold
\* different keys.
AlterHandshake(s) ==
    /\ gw[s] = "handshake"
    /\ spoiled' = [spoiled EXCEPT ![s] = TRUE]
    /\ sameKey' = [sameKey EXCEPT ![s] = FALSE]
    /\ UNCHANGED <<gwVars, rxVars, stream, lost>>

AlterPiece(s) ==
    /\ \E i \in 1..Len(stream[s]) :
          \E state \in IF stream[s][i].kind = "header" THEN {"toolong", "wrong"} ELSE {"wrong"} :
             stream' = [stream EXCEPT ![s][i].state = state]
    /\ spoiled' = [spoiled EXCEPT ![s] = TRUE]
    /\ UNCHANGED <<gwVars, rxVars, lost, sameKey>>

\* decrypt_data_gcm fails on a good record, for want of memory.
OpenFails(s) ==
    /\ Arrived(s, "payload", "payload")
    /\ spoiled' = [spoiled EXCEPT ![s] = TRUE]
    /\ Take(s)
    /\ rx' = [rx EXCEPT !.pc = "header"]
    /\ UNCHANGED <<far, answered, backlog, received, gwVars, lost, sameKey>>

Fault(s) == AssociationLost(s) \/ AlterHandshake(s) \/ AlterPiece(s) \/ OpenFails(s)

Next ==
    \/ \E s \in Sessions :
          Connect(s) \/ ConnectFails(s) \/ GatewayStep(s) \/ CallFails(s) \/ ClientStep(s)
    \/ ReceiverStep \/ ReceiverStarts
    \/ \E s \in Sessions : ReceiverDies(s)
    \/ \E s \in Sessions : Fault(s)

Spec == Init /\ [][Next]_vars

\* The gateway's threads and the receiver are scheduled.  Nothing is assumed of
\* clients or of the network, and nobody has to start a receiver that died.
Fairness ==
    /\ \A s \in Sessions : WF_vars(GatewayStep(s))
    /\ WF_vars(ReceiverStep)

FairSpec == Spec /\ Fairness

--------------------------------------------------------------------------------
TypeOK ==
    /\ gw \in [Sessions -> GwPlaces]
    /\ msg_count \in [Sessions -> 0..MaxMessages]
    /\ open \in [Sessions -> BOOLEAN]
    /\ far \in [Sessions -> FarStates]
    /\ answered \in [Sessions -> BOOLEAN]
    /\ backlog \in Seq(Sessions)
    /\ rx \in [pc : RxPlaces, s : Sessions \cup {NoSession}]
    /\ rx.pc \in {"accept", "dead"} <=> rx.s = NoSession
    /\ received \in [Sessions -> Seq(1..MaxMessages)]
    /\ stream \in [Sessions -> Seq(Pieces)]
    /\ lost \in [Sessions -> BOOLEAN]
    /\ spoiled \in [Sessions -> BOOLEAN]
    /\ sameKey \in [Sessions -> BOOLEAN]

(***************************************************************************)
(* The receiver handles one client_fd at a time: however a flow ends (a    *)
(* failed handshake, a frame above the buffer, the end of the stream), its *)
(* descriptor is closed before the next accept; and a receiver that a      *)
(* signal ends leaves no session believing that it is there.               *)
(***************************************************************************)
OneConnection ==
    \A s \in Sessions :
        /\ far[s] = "open" <=> rx.s = s
        /\ rx.pc = "dead" => ~Connected(s)

(***************************************************************************)
(* The relay keeps the promise of Delivery, whatever is cut, altered or    *)
(* lost: a message the gateway counts in msg_count is shown at most once,  *)
(* unmodified and in order, and without alteration no message is skipped.  *)
(***************************************************************************)
D == INSTANCE Delivery WITH relayed <- msg_count
DeliversInOrder == D!Spec

\* Nothing is altered, and no client leaves its flow idle for ever.
Undisturbed == \A s \in Sessions : [](~spoiled[s])
ClientsGoOn == \A s \in Sessions : []<>(gw[s] # "recv")

(***************************************************************************)
(* The receiver is sequential and the handshake has no timeout, and still  *)
(* no session waits in its handshake for ever, as long as the flows that   *)
(* the receiver serves before it come to an end.                           *)
(***************************************************************************)
NobodyWaits ==
    (Undisturbed /\ ClientsGoOn) =>
        \A s \in Sessions : gw[s] = "handshake" ~> gw[s] # "handshake"

(***************************************************************************)
(* What the gateway counts as relayed arrives, even when the session has   *)
(* closed since, unless the association is lost or the receiver gave up.   *)
(***************************************************************************)
RelayedArrives ==
    (Undisturbed /\ ClientsGoOn) =>
        \A s \in Sessions : \A n \in 1..MaxMessages :
            msg_count[s] >= n ~> (Len(received[s]) >= n \/ lost[s] \/ far[s] = "failed")

================================================================================
