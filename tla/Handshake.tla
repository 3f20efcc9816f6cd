-------------------------------- MODULE Handshake --------------------------------
(***************************************************************************)
(* gateway/pqc_handshake.c: the hybrid key exchange between the gateway    *)
(* (initiator) and the receiver (responder) over one association, with the *)
(* optional ML-DSA signatures of pqc_auth.c.  A party reads fields of      *)
(* fixed length, whose lengths follow from the level it believes in, and   *)
(* blocks until they are there: there is no timeout.                       *)
(*                                                                         *)
(* Keys, ciphertexts and signatures are the terms that produce them; OQS   *)
(* and OpenSSL are taken to be what they promise (a signature verifies     *)
(* exactly for the signer and the bytes signed, a ciphertext that was not  *)
(* made for a key decapsulates to an unrelated secret).                    *)
(***************************************************************************)
EXTENDS CryptoPolicy, Sequences

CONSTANT MaxAlterations   \* bound: how many fields are altered on the way

ASSUME MaxAlterationsAssumption == MaxAlterations \in Nat

Parties == {"initiator", "responder"}
Peer(p) == IF p = "initiator" THEN "responder" ELSE "initiator"

VARIABLES
    at,           \* where each party is in its half of the handshake
    transcript,   \* the fields a party has sent and read so far: T_i, then T_r
    wire,         \* what is in flight to each party
    auth,         \* PqcAuth: disabled, or enabled with the peer's key or another one
    closed,       \* the party's caller has closed its descriptor
    lost,         \* the association has been aborted
    broken,       \* some call of a party has failed, or the association was lost
    alterations   \* how many fields were altered on the way

vars == <<at, transcript, wire, auth, closed, lost, broken, alterations>>

Places == {"offer", "level", "share", "kem", "verify", "reply", "derive", "done", "failed"}
AuthStates == {"disabled", "pinned", "mispinned"}
Running(p) == at[p] \notin {"done", "failed"}

--------------------------------------------------------------------------------
\* The fields, in the order of a transcript: level, initiator's X25519 key, ML-KEM
\* key, responder's X25519 key, ciphertext.  An altered field is no longer intact.

Share(p) == [share |-> p, intact |-> TRUE]
KemKey(level) == [alg |-> level_to_alg(level), intact |-> TRUE]
Ciphertext(key) == [alg |-> key.alg, to |-> key, intact |-> TRUE]

\* A signature block: empty (L = 0), garbage, or the signature of a party.
NoSignature == [by |-> "nobody", over |-> <<>>]
Garbage == [by |-> "garbage", over |-> <<>>]
Signature(p, t) == [by |-> p, over |-> t]

\* Mutated form: the responder's signature is over T_i again.
OfferOnly(t) == SubSeq(t, 1, 3)

\* What is signed: all of the transcript so far.
Signed(t) == t

\* sign_and_send: an empty block when there are no keys.
SignatureBlock(p, t) ==
    IF auth[p] = "disabled" THEN NoSignature ELSE Signature(p, Signed(t))

Field(kind, body) == [kind |-> kind, body |-> body]

Offer(level) == <<level, Share("initiator"), KemKey(level)>>
OfferFlight(level) ==
    LET t == Offer(level)
    IN  <<Field("level", t[1]), Field("share", t[2]), Field("kem", t[3]),
          Field("signature", SignatureBlock("initiator", t))>>

Reply(t) == t \o <<Share("responder"), Ciphertext(t[3])>>
ReplyFlight(t) ==
    LET r == Reply(t)
    IN  <<Field("share", r[4]), Field("kem", r[5]),
          Field("signature", SignatureBlock("responder", r))>>

\* hkdf_derive over both secrets.  The ECDH secret is that of the two public keys;
\* decapsulation of a ciphertext for another key yields a secret of its own.
KemSecret(p, t) ==
    IF p = "initiator" /\ ~(t[5].intact /\ t[5].to = t[3])
    THEN [of |-> "rejection", to |-> t[3]]
    ELSE [of |-> "encapsulation", to |-> t[3]]

SessionKey(p) ==
    LET t == transcript[p]
    IN  [ecdh |-> {t[2], t[4]}, kem |-> KemSecret(p, t)]

--------------------------------------------------------------------------------
\* The initiator starts with the level its policy selects for the session.
Init ==
    /\ at = [p \in Parties |-> IF p = "initiator" THEN "offer" ELSE "level"]
    /\ \E file \in Tokens \cup {Absent, Empty}, env \in Tokens \cup {Unset} :
          transcript = [p \in Parties |->
              IF p = "initiator" THEN Offer(select_kem(read_data_class(file, env)))
              ELSE <<>>]
    /\ auth \in [Parties -> AuthStates]
    /\ wire = [p \in Parties |-> <<>>]
    /\ closed = [p \in Parties |-> FALSE]
    /\ lost = FALSE
    /\ broken = FALSE
    /\ alterations = 0

Move(p, place) == at' = [at EXCEPT ![p] = place]
Extend(p, field) == transcript' = [transcript EXCEPT ![p] = Append(@, field)]
Writable(p) == ~lost /\ ~closed[Peer(p)]
environment == <<auth, closed, lost, broken, alterations>>

\* The next field is there; read_exact takes it off the wire.
Arrived(p, kind) == wire[p] # <<>> /\ Head(wire[p]).kind = kind
Take(p) == wire' = [wire EXCEPT ![p] = Tail(@)]

\* The initiator writes T_i and its signature.
SendOffer ==
    /\ at["initiator"] = "offer"
    /\ Writable("initiator")
    /\ wire' = [wire EXCEPT !["responder"] = OfferFlight(transcript["initiator"][1])]
    /\ Move("initiator", "share")
    /\ UNCHANGED <<transcript, environment>>

\* Mutated form: the floor is not enforced, and an altered level byte goes through.
ReadAnyLevel ==
    /\ at["responder"] = "level"
    /\ Arrived("responder", "level")
    /\ Move("responder", "share")
    /\ Extend("responder", Head(wire["responder"]).body)
    /\ Take("responder")
    /\ UNCHANGED environment

\* The responder reads the level byte and enforces the floor.
ReadLevel ==
    /\ at["responder"] = "level"
    /\ Arrived("responder", "level")
    /\ LET level == Head(wire["responder"]).body
       IN  /\ Move("responder", IF level < CRYPTO_FLOOR THEN "failed" ELSE "share")
           /\ Extend("responder", level)
    /\ Take("responder")
    /\ UNCHANGED environment

ReadShare(p) ==
    /\ at[p] = "share"
    /\ Arrived(p, "share")
    /\ Extend(p, Head(wire[p]).body)
    /\ Take(p)
    /\ Move(p, "kem")
    /\ UNCHANGED environment

\* Mutated form: the length on the wire decides, not the level that was read.
ReadKemAsSent(p) ==
    /\ at[p] = "kem"
    /\ Arrived(p, "kem")
    /\ Extend(p, Head(wire[p]).body)
    /\ Take(p)
    /\ Move(p, "verify")
    /\ UNCHANGED environment

(***************************************************************************)
(* The public key or the ciphertext, as long as the party's level says.    *)
(* When the writer's was of another length, the read ends in the middle of *)
(* a field: what it got is garbage, and so is the length of the signature  *)
(* block that it takes from the following bytes; either it finds as many   *)
(* bytes as that says, or it waits for more than will come.                *)
(***************************************************************************)
ReadKem(p) ==
    /\ at[p] = "kem"
    /\ Arrived(p, "kem")
    /\ LET body == Head(wire[p]).body
           alg == level_to_alg(transcript[p][1])
       IN  \/ /\ body.alg = alg
              /\ Extend(p, body)
              /\ Take(p)
           \/ /\ body.alg # alg
              /\ Extend(p, [body EXCEPT !.alg = alg, !.intact = FALSE])
              /\ \E rest \in {<<>>, <<Field("signature", Garbage)>>,
                              <<Field("signature", NoSignature)>>} :
                    wire' = [wire EXCEPT ![p] = rest]
    /\ Move(p, "verify")
    /\ UNCHANGED environment

\* Mutated form: an empty block passes although a key is pinned.
AcceptsEmpty(p, block) ==
    \/ auth[p] = "disabled"
    \/ block = NoSignature
    \/ auth[p] = "pinned" /\ block = Signature(Peer(p), Signed(transcript[p]))

\* recv_and_verify: without keys, anything passes; with them, only the signature by
\* the pinned key over the transcript this party has seen.
Accepts(p, block) ==
    \/ auth[p] = "disabled"
    \/ auth[p] = "pinned" /\ block = Signature(Peer(p), Signed(transcript[p]))

VerifyPeer(p) ==
    /\ at[p] = "verify"
    /\ Arrived(p, "signature")
    /\ Move(p, IF ~Accepts(p, Head(wire[p]).body) THEN "failed"
               ELSE IF p = "initiator" THEN "derive" ELSE "reply")
    /\ Take(p)
    /\ UNCHANGED <<transcript, environment>>

\* The responder encapsulates, writes its share and the ciphertext, and signs T_r.
SendReply ==
    /\ at["responder"] = "reply"
    /\ Writable("responder")
    /\ LET t == transcript["responder"]
       IN  /\ wire' = [wire EXCEPT !["initiator"] = ReplyFlight(t)]
           /\ transcript' = [transcript EXCEPT !["responder"] = Reply(t)]
    /\ Move("responder", "derive")
    /\ UNCHANGED environment

\* The secrets are combined and the handshake returns 0.
Derive(p) ==
    /\ at[p] = "derive"
    /\ Move(p, "done")
    /\ UNCHANGED <<transcript, wire, environment>>

\* A read finds the end of the stream, or a write nobody to write to.
StreamEnds(p) ==
    /\ \/ at[p] \in {"level", "share", "kem", "verify"} /\ wire[p] = <<>> /\ ~Writable(p)
       \/ at[p] \in {"offer", "reply"} /\ ~Writable(p)
    /\ Move(p, "failed")
    /\ UNCHANGED <<transcript, wire, environment>>

\* Mutated form: the caller goes on to the next connection and forgets this one.
ForgetsToClose(p) == at[p] = "failed" /\ ~closed[p] /\ UNCHANGED vars

\* The caller closes the descriptor of a failed handshake.
CloseAfterFailure(p) ==
    /\ at[p] = "failed"
    /\ ~closed[p]
    /\ closed' = [closed EXCEPT ![p] = TRUE]
    /\ UNCHANGED <<at, transcript, wire, auth, lost, broken, alterations>>

PartyStep(p) ==
    \/ p = "initiator" /\ SendOffer
    \/ p = "responder" /\ (ReadLevel \/ SendReply)
    \/ ReadShare(p) \/ ReadKem(p) \/ VerifyPeer(p) \/ Derive(p)
    \/ StreamEnds(p) \/ CloseAfterFailure(p)

--------------------------------------------------------------------------------
\* Faults.  An allocation or a library call fails; a flight may by then be written
\* in part.
CallFails(p) ==
    /\ Running(p)
    /\ LET flight == CASE at[p] = "offer" -> OfferFlight(transcript[p][1])
                       [] at[p] = "reply" -> ReplyFlight(transcript[p])
                       [] OTHER -> <<>>
       IN  \/ UNCHANGED wire
           \/ \E n \in 1..Len(flight) - 1 :
                 /\ Writable(p)
                 /\ wire' = [wire EXCEPT ![Peer(p)] = SubSeq(flight, 1, n)]
    /\ Move(p, "failed")
    /\ broken' = TRUE
    /\ UNCHANGED <<transcript, auth, closed, lost, alterations>>

\* The association is aborted; what was not read is gone.
AssociationLost ==
    /\ ~lost
    /\ lost' = TRUE
    /\ broken' = TRUE
    /\ wire' = [p \in Parties |-> <<>>]
    /\ UNCHANGED <<at, transcript, auth, closed, alterations>>

\* What an altered field may read as.  A signature block whose length was altered
\* either reads as garbage or never becomes complete.
AlteredForms(field) ==
    CASE field.kind = "level" ->
            {<<Field("level", l)>> : l \in LevelBytes \ {field.body}}
      [] field.kind = "signature" ->
            {<<>>, <<Field("signature", NoSignature)>>, <<Field("signature", Garbage)>>}
      [] OTHER -> {<<Field(field.kind, [field.body EXCEPT !.intact = FALSE])>>}

AlterField(p) ==
    /\ alterations < MaxAlterations
    /\ \E i \in 1..Len(wire[p]) : \E form \in AlteredForms(wire[p][i]) :
          wire' = [wire EXCEPT ![p] =
                      SubSeq(@, 1, i - 1) \o form \o SubSeq(@, i + 1, Len(@))]
    /\ alterations' = alterations + 1
    /\ UNCHANGED <<at, transcript, auth, closed, lost, broken>>

Next ==
    \/ \E p \in Parties : PartyStep(p) \/ CallFails(p) \/ AlterField(p)
    \/ AssociationLost

Spec == Init /\ [][Next]_vars

\* Both processes are scheduled.  Nothing is assumed of the network.
Fairness == \A p \in Parties : WF_vars(PartyStep(p))

FairSpec == Spec /\ Fairness

--------------------------------------------------------------------------------
Shares == [share : Parties, intact : BOOLEAN]
KemKeys == [alg : Levels, intact : BOOLEAN]
Ciphertexts == [alg : Levels, to : KemKeys, intact : BOOLEAN]

\* A transcript holds the fields in their order, up to some point.
IsTranscript(t) ==
    /\ Len(t) <= 5
    /\ Len(t) >= 1 => t[1] \in LevelBytes
    /\ Len(t) >= 2 => t[2] \in Shares
    /\ Len(t) >= 3 => t[3] \in KemKeys
    /\ Len(t) >= 4 => t[4] \in Shares
    /\ Len(t) >= 5 => t[5] \in Ciphertexts

\* How much of the transcript a party has at each place.
Length(p) ==
    CASE at[p] = "offer" -> {3}
      [] at[p] = "level" -> {0}
      [] at[p] = "share" -> IF p = "initiator" THEN {3} ELSE {1}
      [] at[p] = "kem" -> IF p = "initiator" THEN {4} ELSE {2}
      [] at[p] = "verify" -> IF p = "initiator" THEN {5} ELSE {3}
      [] at[p] = "reply" -> {3}
      [] at[p] \in {"derive", "done"} -> {5}
      [] OTHER -> 0..5

\* Besides the types: a party that goes on has a level at or above the floor.
TypeOK ==
    /\ at \in [Parties -> Places]
    /\ \A p \in Parties : IsTranscript(transcript[p]) /\ Len(transcript[p]) \in Length(p)
    /\ \A p \in Parties : Running(p) /\ transcript[p] # <<>> =>
          transcript[p][1] >= CRYPTO_FLOOR
    /\ auth \in [Parties -> AuthStates]
    /\ closed \in [Parties -> BOOLEAN]
    /\ lost \in BOOLEAN
    /\ broken \in BOOLEAN
    /\ alterations \in 0..MaxAlterations

\* What p's transcript has in common with its peer's when p is done: the initiator
\* has seen all of T_r, the responder only T_i come from the other side.
Confirmed(p) == IF p = "initiator" THEN 5 ELSE 3

(***************************************************************************)
(* pqc_handshake.h, "Authentication": a side that requires a signature and *)
(* finishes has talked to the peer it pinned, and both have the same       *)
(* transcript, whatever was altered, cut short or misread on the way.      *)
(***************************************************************************)
AuthenticatedAgreement ==
    \A p \in Parties :
        (at[p] = "done" /\ auth[p] # "disabled") =>
            LET n == Confirmed(p)
            IN  /\ auth[p] = "pinned"
                /\ auth[Peer(p)] # "disabled"
                /\ Len(transcript[Peer(p)]) >= n
                /\ SubSeq(transcript[Peer(p)], 1, n) = SubSeq(transcript[p], 1, n)

BothDone == \A p \in Parties : at[p] = "done"
SameKey == SessionKey("initiator") = SessionKey("responder")

(***************************************************************************)
(* The initiator's check is the one that settles the key: when both sides  *)
(* report success and the initiator verified a signature, or nothing was   *)
(* altered, they hold the same AES key.                                    *)
(***************************************************************************)
KeyAgreement ==
    (BothDone /\ (auth["initiator"] # "disabled" \/ alterations = 0)) => SameKey

(***************************************************************************)
(* crypto_policy.h, "immutable minimum floor for every session": with or   *)
(* without signatures, two sides that end up with one key have it at the   *)
(* level the initiator's policy selected, although the level byte itself   *)
(* does not enter the key.  README.md:95-101 says otherwise: the threat    *)
(* classifier selects the level, and LOW selects ML-KEM-512.               *)
(***************************************************************************)
SameKeySameLevel ==
    (BothDone /\ SameKey) =>
        /\ transcript["responder"][1] = transcript["initiator"][1]
        /\ level_to_alg(transcript["responder"][1]) >= CRYPTO_FLOOR

(***************************************************************************)
(* Reads have no timeout, yet without alterations every handshake returns  *)
(* at both ends: whatever keys the sides have loaded, whichever call fails *)
(* and whenever the association is lost, the close of one end is the end   *)
(* of the other's read.                                                    *)
(***************************************************************************)
HandshakeEnds ==
    [](alterations = 0) => \A p \in Parties : <>(~Running(p))

\* Key material that fits: each side has keys and the right peer, or none has any.
Compatible == \A p, q \in Parties : auth[p] = auth[q] /\ auth[p] # "mispinned"

(***************************************************************************)
(* With fitting keys and no fault, the handshake succeeds on both sides,   *)
(* for every classification: the level the gateway's policy selects is one *)
(* the receiver's floor lets through.                                      *)
(***************************************************************************)
HonestHandshakeSucceeds ==
    (Compatible /\ [](alterations = 0 /\ ~broken)) => <>(BothDone /\ SameKey)

================================================================================
