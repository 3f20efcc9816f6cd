----------------------------- MODULE HandshakeProofs -----------------------------
(***************************************************************************)
(* Theorems about Handshake, for any number of altered fields.             *)
(***************************************************************************)
EXTENDS Handshake, SequenceTheorems, TLAPS

Ti == transcript["initiator"]
Tr == transcript["responder"]

\* The transcripts are sequences, and each party only is where its half goes.
Terms == LevelBytes \cup Shares \cup KemKeys \cup Ciphertexts

HalvesOK ==
    /\ transcript \in [Parties -> Seq(Terms)]
    /\ at["initiator"] \notin {"level", "reply"}
    /\ at["responder"] # "offer"

\* What each party has put into its transcript itself; the responder's algorithm is the
\* one of the level it read, whatever came as a key.
OwnFields ==
    /\ Len(Ti) >= 3 /\ Ti[1] \in Levels /\ Ti[1] >= CRYPTO_FLOOR
    /\ Ti[2] = Share("initiator") /\ Ti[3] = KemKey(Ti[1])
    /\ Len(Tr) >= 3 => Tr[3].alg = level_to_alg(Tr[1])
    /\ Len(Tr) >= 5 => Tr[4] = Share("responder") /\ Tr[5] = Ciphertext(Tr[3])

\* The signature a party has made, if it has keys and has come to where it signs.
Signable(p) == SubSeq(transcript[p], 1, Confirmed(Peer(p)))
HasSigned(p) == auth[p] # "disabled" /\ Len(transcript[p]) >= Confirmed(Peer(p))
Blocks(p) ==
    {NoSignature, Garbage} \cup (IF HasSigned(p) THEN {Signature(p, Signable(p))} ELSE {})

\* What may be in flight to a party: fields of every kind, and of signatures only those
\* its peer has made.
InFlight(p) ==
         [kind : {"level"}, body : LevelBytes]
    \cup [kind : {"share"}, body : Shares]
    \cup [kind : {"kem"}, body : IF p = "responder" THEN KemKeys ELSE Ciphertexts]
    \cup [kind : {"signature"}, body : Blocks(Peer(p))]

\* As long as nothing was altered, what is in flight is what was written.
HonestField(p, f) ==
    /\ f.kind = "level" => f.body = Ti[1]
    /\ f.kind = "share" => f.body = Share(Peer(p))
    /\ (f.kind = "kem" /\ p = "responder") => f.body = Ti[3]
    /\ (f.kind = "kem" /\ p = "initiator") => Len(Tr) >= 3 /\ f.body = Ciphertext(Tr[3])

Carried(p) == {f \in InFlight(p) : alterations = 0 => HonestField(p, f)}

WireOK ==
    /\ wire = [p \in Parties |-> wire[p]]
    /\ \A p \in Parties : wire[p] \in Seq(Carried(p))

\* A party that has verified its peer's signature has what the peer signed.
Agreed(p) ==
    /\ auth[p] = "pinned"
    /\ auth[Peer(p)] # "disabled"
    /\ Len(transcript[Peer(p)]) >= Confirmed(p)
    /\ SubSeq(transcript[Peer(p)], 1, Confirmed(p)) = SubSeq(transcript[p], 1, Confirmed(p))

VerifiedAgree ==
    \A p \in Parties :
        (at[p] \in {"reply", "derive", "done"} /\ auth[p] # "disabled") => Agreed(p)

\* As long as nothing was altered, what was read is what was written.
HonestSoFar ==
    alterations = 0 =>
        /\ \A i \in 1..3 : i <= Len(Tr) => Tr[i] = Ti[i]
        /\ Len(Ti) >= 4 => Ti[4] = Share("responder")
        /\ Len(Ti) >= 5 => Len(Tr) >= 3 /\ Ti[5] = Ciphertext(Tr[3])

\* TypeOK, party by party.
PartyOK(p) ==
    /\ IsTranscript(transcript[p])
    /\ Len(transcript[p]) \in Length(p)
    /\ Running(p) /\ transcript[p] # <<>> => transcript[p][1] >= CRYPTO_FLOOR

IInv == TypeOK /\ HalvesOK /\ OwnFields /\ WireOK /\ VerifiedAgree /\ HonestSoFar

--------------------------------------------------------------------------------
\* The levels, and what the fields are made of.
LEMMA LevelFacts ==
    /\ CRYPTO_FLOOR = 1 /\ Levels = {0, 1, 2} /\ LevelBytes = {0, 1, 2, 3}
    /\ \A l \in LevelBytes : level_to_alg(l) \in Levels
    /\ \A l \in Levels : level_to_alg(l) = l
    /\ \A class : select_kem(class) \in Levels /\ select_kem(class) >= CRYPTO_FLOOR
BY DEF CRYPTO_FLOOR, ML_KEM_512, ML_KEM_768, ML_KEM_1024, Levels, LevelBytes, level_to_alg,
       select_kem

LEMMA FieldFacts ==
    /\ \A p \in Parties : Share(p) \in Shares
    /\ \A l \in LevelBytes : KemKey(l) \in KemKeys /\ KemKey(l).alg = level_to_alg(l)
    /\ \A key \in KemKeys :
          /\ key.alg \in Levels
          /\ Ciphertext(key) \in Ciphertexts
          /\ Ciphertext(key).alg = key.alg /\ Ciphertext(key).to = key /\ Ciphertext(key).intact
BY LevelFacts DEF Share, Shares, KemKey, KemKeys, Ciphertext, Ciphertexts

LEMMA PartyFacts ==
    /\ Parties = {"initiator", "responder"}
    /\ Peer("initiator") = "responder" /\ Peer("responder") = "initiator"
    /\ Confirmed("initiator") = 5 /\ Confirmed("responder") = 3
    /\ \A p \in Parties : Peer(p) \in Parties /\ Peer(p) # p /\ Peer(Peer(p)) = p
BY DEF Parties, Peer, Confirmed

\* The offer as a sequence.
LEMMA OfferFacts ==
    ASSUME NEW l \in Levels
    PROVE  /\ Offer(l) \in Seq(Terms) /\ Len(Offer(l)) = 3
           /\ Offer(l)[1] = l /\ Offer(l)[2] = Share("initiator") /\ Offer(l)[3] = KemKey(l)
<1>1. l \in LevelBytes
    BY DEF LevelBytes
<1>2. l \in Terms /\ Share("initiator") \in Terms /\ KemKey(l) \in Terms
    BY <1>1, FieldFacts DEF Terms, Parties
<1> QED
    BY <1>2 DEF Offer

\* The handshake starts with the initiator's offer made and nothing in flight.
LEMMA InitIInv == Init => IInv
<1> SUFFICES ASSUME Init PROVE IInv
    OBVIOUS
<1>1. PICK class : transcript = [p \in Parties |->
                        IF p = "initiator" THEN Offer(select_kem(class)) ELSE <<>>]
    BY DEF Init
<1> DEFINE l == select_kem(class)
<1>2. l \in Levels /\ l \in LevelBytes /\ l >= CRYPTO_FLOOR
    BY LevelFacts DEF LevelBytes
<1>3. /\ Ti \in Seq(Terms) /\ Len(Ti) = 3
      /\ Ti[1] = l /\ Ti[2] = Share("initiator") /\ Ti[3] = KemKey(l)
      /\ Tr = <<>> /\ Len(Tr) = 0 /\ Tr \in Seq(Terms)
    BY <1>1, <1>2, OfferFacts DEF Ti, Tr, Parties
<1>4. at["initiator"] = "offer" /\ at["responder"] = "level" /\ at \in [Parties -> Places]
    BY DEF Init, Parties, Places
<1>5. HalvesOK
    BY <1>1, <1>3, <1>4 DEF HalvesOK, Parties, Ti, Tr
<1>6. OwnFields
    BY <1>2, <1>3 DEF OwnFields
<1>7. WireOK
    BY DEF Init, WireOK
<1>8. VerifiedAgree
    BY <1>4 DEF VerifiedAgree, Parties
<1>9. HonestSoFar
    BY <1>3 DEF Init, HonestSoFar
<1>10. TypeOK
    <2>1. PartyOK("initiator")
        BY <1>2, <1>3, <1>4, FieldFacts DEF PartyOK, IsTranscript, Length, Ti, Parties
    <2>2. PartyOK("responder")
        BY <1>3, <1>4 DEF PartyOK, IsTranscript, Length, Tr
    <2>3. 0 \in 0..MaxAlterations
        BY MaxAlterationsAssumption
    <2> QED
        BY <1>4, <2>1, <2>2, <2>3 DEF Init, TypeOK, PartyOK, Parties
<1> QED
    BY <1>5, <1>6, <1>7, <1>8, <1>9, <1>10 DEF IInv

--------------------------------------------------------------------------------
\* A sequence that grows keeps its prefixes.
LEMMA AppendKeeps ==
    ASSUME NEW S, NEW s \in Seq(S), NEW x \in S
    PROVE  /\ Append(s, x) \in Seq(S) /\ Len(Append(s, x)) = Len(s) + 1
           /\ Append(s, x)[Len(s) + 1] = x
           /\ \A i \in 1..Len(s) : Append(s, x)[i] = s[i]
BY AppendProperties

LEMMA NonEmpty ==
    ASSUME NEW S, NEW s \in Seq(S), Len(s) # 0
    PROVE  s # <<>>
BY EmptySeq

LEMMA SamePrefixes ==
    ASSUME NEW S, NEW s \in Seq(S), NEW t \in Seq(S), Len(t) >= Len(s),
           \A i \in 1..Len(s) : t[i] = s[i]
    PROVE  \A n \in 0..Len(s) : SubSeq(t, 1, n) = SubSeq(s, 1, n)
<1> SUFFICES ASSUME NEW n \in 0..Len(s) PROVE SubSeq(t, 1, n) = SubSeq(s, 1, n)
    OBVIOUS
<1>0. Len(s) \in Nat /\ Len(t) \in Nat
    BY LenProperties
<1>1. /\ SubSeq(s, 1, n) \in Seq(S) /\ Len(SubSeq(s, 1, n)) = n
      /\ \A i \in 1..n : SubSeq(s, 1, n)[i] = s[i]
    BY <1>0, SubSeqProperties
<1>2. /\ SubSeq(t, 1, n) \in Seq(S) /\ Len(SubSeq(t, 1, n)) = n
      /\ \A i \in 1..n : SubSeq(t, 1, n)[i] = t[i]
    BY <1>0, SubSeqProperties
<1>3. \A i \in 1..n : SubSeq(t, 1, n)[i] = SubSeq(s, 1, n)[i]
    BY <1>0, <1>1, <1>2
<1> QED
    BY <1>1, <1>2, <1>3, SeqEqual

\* Every step keeps what the transcripts hold and may only add to them.
Grown ==
    /\ auth' = auth
    /\ transcript \in [Parties -> Seq(Terms)]
    /\ transcript' \in [Parties -> Seq(Terms)]
    /\ \A p \in Parties :
          /\ Len(transcript'[p]) >= Len(transcript[p])
          /\ \A i \in 1..Len(transcript[p]) : transcript'[p][i] = transcript[p][i]

LEMMA GrownPrefixes ==
    ASSUME Grown, NEW p \in Parties
    PROVE  \A n \in 0..Len(transcript[p]) :
              SubSeq(transcript'[p], 1, n) = SubSeq(transcript[p], 1, n)
BY SamePrefixes DEF Grown

LEMMA GrownTranscripts ==
    ASSUME Grown
    PROVE  /\ Len(Ti) \in Nat /\ Len(Tr) \in Nat /\ Len(Ti') \in Nat /\ Len(Tr') \in Nat
           /\ Len(Ti') >= Len(Ti) /\ Len(Tr') >= Len(Tr)
           /\ \A i \in 1..Len(Ti) : Ti'[i] = Ti[i]
           /\ \A i \in 1..Len(Tr) : Tr'[i] = Tr[i]
BY LenProperties, PartyFacts DEF Grown, Ti, Tr

\* A signature once made stays one its signer has made.
LEMMA BlocksKept ==
    ASSUME Grown, NEW p \in Parties
    PROVE  Blocks(p) \subseteq Blocks(p)'
<1>1. Len(transcript[p]) \in Nat /\ Len(transcript'[p]) \in Nat
    BY LenProperties DEF Grown
<1>2. Confirmed(Peer(p)) \in Nat
    BY DEF Confirmed
<1>3. CASE HasSigned(p)
    <2>1. Confirmed(Peer(p)) \in 0..Len(transcript[p])
        BY <1>1, <1>2, <1>3 DEF HasSigned
    <2>2. SubSeq(transcript'[p], 1, Confirmed(Peer(p))) = SubSeq(transcript[p], 1, Confirmed(Peer(p)))
        BY <2>1, GrownPrefixes
    <2>3. Signable(p)' = Signable(p)
        BY <2>2 DEF Signable
    <2>4. HasSigned(p)'
        BY <1>1, <1>2, <1>3 DEF HasSigned, Grown
    <2> QED
        BY <1>3, <2>3, <2>4 DEF Blocks
<1>4. CASE ~HasSigned(p)
    BY <1>4 DEF Blocks
<1> QED
    BY <1>3, <1>4

LEMMA HonestFieldKept ==
    ASSUME Grown, OwnFields, NEW p \in Parties, NEW f, HonestField(p, f)
    PROVE  HonestField(p, f)'
<1>1. Len(Ti) >= 3
    BY DEF OwnFields
<1>2. Ti'[1] = Ti[1] /\ Ti'[3] = Ti[3]
    BY <1>1, GrownTranscripts
<1>3. Len(Tr) >= 3 => Len(Tr') >= 3 /\ Tr'[3] = Tr[3]
    BY GrownTranscripts
<1> QED
    BY <1>2, <1>3 DEF HonestField

LEMMA CarriedKept ==
    ASSUME Grown, OwnFields, alterations' = 0 => alterations = 0
    PROVE  \A p \in Parties : Carried(p) \subseteq Carried(p)'
<1> SUFFICES ASSUME NEW p \in Parties, NEW f \in Carried(p) PROVE f \in Carried(p)'
    OBVIOUS
<1>1. Blocks(Peer(p)) \subseteq Blocks(Peer(p))'
    BY BlocksKept, PartyFacts
<1>2. f \in InFlight(p)'
    BY <1>1 DEF InFlight, Carried
<1>3. alterations' = 0 => HonestField(p, f)'
    BY HonestFieldKept DEF Carried
<1> QED
    BY <1>2, <1>3 DEF Carried

\* The wires stay well-formed when at most one of them changes, to what is well-formed.
LEMMA WireSame ==
    ASSUME WireOK, \A p \in Parties : Carried(p) \subseteq Carried(p)', UNCHANGED wire
    PROVE  WireOK'
BY SeqMonotonic DEF WireOK

LEMMA WireChange ==
    ASSUME WireOK, \A p \in Parties : Carried(p) \subseteq Carried(p)',
           NEW q \in Parties, NEW x \in Seq(Carried(q)'), wire' = [wire EXCEPT ![q] = x]
    PROVE  WireOK'
<1>1. wire'[q] = x /\ \A p \in Parties : p # q => wire'[p] = wire[p]
    BY DEF WireOK
<1>2. wire' = [p \in Parties |-> wire'[p]]
    BY DEF WireOK
<1>3. \A p \in Parties : wire'[p] \in Seq(Carried(p)')
    BY <1>1, SeqMonotonic DEF WireOK
<1> QED
    BY <1>2, <1>3 DEF WireOK

LEMMA WireTaken ==
    ASSUME WireOK, \A p \in Parties : Carried(p) \subseteq Carried(p)',
           NEW q \in Parties, wire[q] # <<>>, Take(q)
    PROVE  WireOK'
<1>1. Tail(wire[q]) \in Seq(Carried(q))
    BY HeadTailProperties DEF WireOK
<1>2. Tail(wire[q]) \in Seq(Carried(q)')
    BY <1>1, SeqMonotonic
<1> QED
    BY <1>2, WireChange DEF Take

\* What arrives is in the wire's language.
LEMMA ArrivedCarried ==
    ASSUME WireOK, NEW p \in Parties, NEW kind, Arrived(p, kind)
    PROVE  Head(wire[p]) \in Carried(p) /\ Head(wire[p]).kind = kind
BY HeadTailProperties DEF WireOK, Arrived

\* An agreement lasts, and so does one that no step touches.
LEMMA AgreedKept ==
    ASSUME Grown, NEW p \in Parties, Agreed(p), Len(transcript[p]) >= Confirmed(p)
    PROVE  Agreed(p)'
<1>1. Confirmed(p) \in Nat /\ Peer(p) \in Parties
    BY PartyFacts DEF Confirmed
<1>2. /\ Len(transcript[p]) \in Nat /\ Len(transcript[Peer(p)]) \in Nat
      /\ Len(transcript'[Peer(p)]) \in Nat
      /\ Len(transcript'[Peer(p)]) >= Len(transcript[Peer(p)])
    BY <1>1, LenProperties DEF Grown
<1>3. Confirmed(p) \in 0..Len(transcript[p]) /\ Confirmed(p) \in 0..Len(transcript[Peer(p)])
    BY <1>1, <1>2 DEF Agreed
<1>4. /\ SubSeq(transcript'[p], 1, Confirmed(p)) = SubSeq(transcript[p], 1, Confirmed(p))
      /\ SubSeq(transcript'[Peer(p)], 1, Confirmed(p)) = SubSeq(transcript[Peer(p)], 1, Confirmed(p))
    BY <1>1, <1>3, GrownPrefixes
<1>5. Len(transcript'[Peer(p)]) >= Confirmed(p)
    BY <1>1, <1>2 DEF Agreed
<1> QED
    BY <1>4, <1>5 DEF Agreed, Grown

--------------------------------------------------------------------------------
\* TypeOK is PartyOK of both parties and the types of the rest.
RestOK ==
    /\ auth \in [Parties -> AuthStates]
    /\ closed \in [Parties -> BOOLEAN]
    /\ lost \in BOOLEAN
    /\ broken \in BOOLEAN
    /\ alterations \in 0..MaxAlterations

LEMMA TypeParts ==
    TypeOK <=> at \in [Parties -> Places] /\ (\A p \in Parties : PartyOK(p)) /\ RestOK
BY DEF TypeOK, PartyOK, RestOK

LEMMA MoveFacts ==
    ASSUME at \in [Parties -> Places], NEW p \in Parties, NEW place \in Places, Move(p, place)
    PROVE  /\ at' \in [Parties -> Places] /\ at'[p] = place
           /\ \A q \in Parties : q # p => at'[q] = at[q]
BY DEF Move

\* A party that stays where it is, or fails, and reads nothing keeps its conditions.
LEMMA PartyKept ==
    ASSUME NEW p \in Parties, PartyOK(p), transcript'[p] = transcript[p],
           at'[p] = at[p] \/ at'[p] = "failed"
    PROVE  PartyOK(p)'
<1>1. CASE at'[p] = at[p]
    BY <1>1 DEF PartyOK, Length, Running
<1>2. CASE at'[p] = "failed"
    <2>1. Length(p) \subseteq 0..5
        BY DEF Length
    <2>2. Len(transcript[p]) \in 0..5
        BY <2>1 DEF PartyOK
    <2> QED
        BY <1>2, <2>2 DEF PartyOK, Length, Running
<1> QED
    BY <1>1, <1>2

Verified == {"reply", "derive", "done"}

\* Whoever has verified has read at least what it verified.
LEMMA VerifiedLength ==
    ASSUME HalvesOK, NEW p \in Parties, PartyOK(p), at[p] \in Verified
    PROVE  Len(transcript[p]) >= Confirmed(p)
BY PartyFacts DEF HalvesOK, PartyOK, Length, Verified

LEMMA AgreementKept ==
    ASSUME Grown, TypeOK, HalvesOK, VerifiedAgree, NEW p \in Parties,
           at'[p] \in Verified => at[p] \in Verified
    PROVE  (at'[p] \in Verified /\ auth'[p] # "disabled") => Agreed(p)'
<1> SUFFICES ASSUME at'[p] \in Verified, auth'[p] # "disabled" PROVE Agreed(p)'
    OBVIOUS
<1>1. Agreed(p)
    BY DEF VerifiedAgree, Verified, Grown
<1>2. Len(transcript[p]) >= Confirmed(p)
    BY VerifiedLength, TypeParts
<1> QED
    BY <1>1, <1>2, AgreedKept

\* A step that adds to no transcript.
LEMMA StillTranscripts ==
    ASSUME HalvesOK, UNCHANGED <<transcript, auth>>
    PROVE  Grown
BY LenProperties DEF HalvesOK, Grown

LEMMA StillFields ==
    ASSUME OwnFields, HonestSoFar, alterations' = 0 => alterations = 0, UNCHANGED transcript
    PROVE  OwnFields' /\ HonestSoFar'
<1>1. Ti' = Ti /\ Tr' = Tr
    BY DEF Ti, Tr
<1> QED
    BY <1>1 DEF OwnFields, HonestSoFar

LEMMA HalvesKept ==
    ASSUME HalvesOK, transcript' \in [Parties -> Seq(Terms)], NEW p \in Parties, NEW place,
           at \in [Parties -> Places], Move(p, place),
           place \notin {"offer", "level"}, p = "initiator" => place # "reply"
    PROVE  HalvesOK'
BY PartyFacts DEF HalvesOK, Move

(***************************************************************************)
(* A step that adds to no transcript: a party p moves to a place where its *)
(* transcript has the right length, and verifies nothing new, or agrees    *)
(* with its peer where it does.                                            *)
(***************************************************************************)
LEMMA StillStep ==
    ASSUME IInv, NEW p \in Parties, NEW place \in Places, Move(p, place),
           UNCHANGED <<transcript, auth, closed, lost, alterations>>, broken' \in BOOLEAN,
           place \notin {"offer", "level"}, p = "initiator" => place # "reply",
           Len(transcript[p]) \in Length(p)', Running(p)' => Running(p),
           (place \in Verified /\ at[p] \notin Verified /\ auth[p] # "disabled") => Agreed(p),
           WireOK'
    PROVE  IInv'
<1> USE DEF IInv
<1>1. Grown
    BY StillTranscripts
<1>2. OwnFields' /\ HonestSoFar'
    BY StillFields
<1>3. at \in [Parties -> Places] /\ \A q \in Parties : PartyOK(q)
    BY TypeParts
<1>4. /\ at' \in [Parties -> Places] /\ at'[p] = place
      /\ \A q \in Parties : q # p => at'[q] = at[q]
    BY <1>3, MoveFacts
<1>5. transcript' \in [Parties -> Seq(Terms)]
    BY <1>1 DEF Grown
<1>6. HalvesOK'
    BY <1>3, <1>5, HalvesKept
<1>7. VerifiedAgree'
    <2>1. ASSUME NEW q \in Parties
          PROVE  (at'[q] \in Verified /\ auth'[q] # "disabled") => Agreed(q)'
        <3>1. CASE q = p /\ place \in Verified /\ at[p] \notin Verified
            BY <3>1 DEF Agreed
        <3>2. CASE ~(q = p /\ place \in Verified /\ at[p] \notin Verified)
            <4>1. at'[q] \in Verified => at[q] \in Verified
                BY <1>4, <3>2
            <4> QED
                BY <1>1, <4>1, AgreementKept
        <3> QED
            BY <3>1, <3>2
    <2> QED
        BY <2>1 DEF VerifiedAgree, Verified
<1>8. TypeOK'
    <2>1. \A q \in Parties : q # p => PartyOK(q)'
        BY <1>3, <1>4, PartyKept
    <2>2. PartyOK(p)'
        BY <1>3 DEF PartyOK
    <2>3. RestOK'
        BY TypeParts DEF RestOK
    <2>4. \A q \in Parties : PartyOK(q)'
        BY <2>1, <2>2
    <2> QED
        BY <1>4, <2>3, <2>4 DEF TypeOK, PartyOK, RestOK
<1> QED
    BY <1>2, <1>6, <1>7, <1>8

--------------------------------------------------------------------------------
\* The flights.  An offer is in order with its signature; of a reply, as long as it is not
\* part of the transcript, only the fields before the signature are.
LEMMA FieldFormed ==
    ASSUME NEW kind, NEW body
    PROVE  Field(kind, body).kind = kind /\ Field(kind, body).body = body
           /\ Field(kind, body) = [kind |-> kind, body |-> body]
BY DEF Field

LEMMA OwnOffer ==
    ASSUME transcript \in [Parties -> Seq(Terms)], OwnFields
    PROVE  SubSeq(Ti, 1, 3) = Offer(Ti[1])
<1>1. Ti \in Seq(Terms) /\ Len(Ti) \in Nat /\ Len(Ti) >= 3
    BY PartyFacts, LenProperties DEF Ti, OwnFields
<1>2. Ti[1] \in Levels /\ Ti[2] = Share("initiator") /\ Ti[3] = KemKey(Ti[1])
    BY DEF OwnFields
<1>3. /\ SubSeq(Ti, 1, 3) \in Seq(Terms) /\ Len(SubSeq(Ti, 1, 3)) = 3
      /\ \A i \in 1..3 : SubSeq(Ti, 1, 3)[i] = Ti[i]
    BY <1>1, SubSeqProperties
<1>4. /\ Offer(Ti[1]) \in Seq(Terms) /\ Len(Offer(Ti[1])) = 3
      /\ Offer(Ti[1])[1] = Ti[1] /\ Offer(Ti[1])[2] = Ti[2] /\ Offer(Ti[1])[3] = Ti[3]
    BY <1>2, OfferFacts
<1>5. \A i \in 1..3 : SubSeq(Ti, 1, 3)[i] = Offer(Ti[1])[i]
    <2>1. \A i \in 1..3 : i = 1 \/ i = 2 \/ i = 3
        OBVIOUS
    <2> QED
        BY <1>3, <1>4, <2>1
<1> QED
    BY <1>3, <1>4, <1>5, SeqEqual

\* The block a party makes once what it signs is in its transcript.
LEMMA OwnBlock ==
    ASSUME NEW p \in Parties, auth \in [Parties -> AuthStates],
           Len(transcript[p]) >= Confirmed(Peer(p))
    PROVE  SignatureBlock(p, Signable(p)) \in Blocks(p)
BY DEF SignatureBlock, Signed, Blocks, HasSigned

LEMMA OfferCarried ==
    ASSUME transcript \in [Parties -> Seq(Terms)], auth \in [Parties -> AuthStates], OwnFields
    PROVE  OfferFlight(Ti[1]) \in Seq(Carried("responder")) /\ Len(OfferFlight(Ti[1])) = 4
<1> DEFINE l == Ti[1]
           t == Offer(l)
<1>1. l \in Levels /\ l \in LevelBytes
    BY DEF OwnFields, LevelBytes
<1>2. t[1] = l /\ t[2] = Share("initiator") /\ t[3] = KemKey(l)
    BY <1>1, OfferFacts
<1>3. Share("initiator") \in Shares /\ KemKey(l) \in KemKeys
    BY <1>1, FieldFacts, PartyFacts
<1>4. SignatureBlock("initiator", t) \in Blocks("initiator")
    <2>1. t = Signable("initiator")
        BY OwnOffer, PartyFacts DEF Signable, Ti
    <2>2. Len(transcript["initiator"]) >= Confirmed(Peer("initiator"))
        BY PartyFacts DEF OwnFields, Ti
    <2> QED
        BY <2>1, <2>2, OwnBlock, PartyFacts
<1>5. Field("level", t[1]) \in Carried("responder")
    BY <1>1, <1>2, FieldFormed DEF Carried, InFlight, HonestField
<1>6. Field("share", t[2]) \in Carried("responder")
    BY <1>2, <1>3, FieldFormed, PartyFacts DEF Carried, InFlight, HonestField
<1>7. Field("kem", t[3]) \in Carried("responder")
    BY <1>2, <1>3, FieldFormed DEF Carried, InFlight, HonestField, OwnFields
<1>8. Field("signature", SignatureBlock("initiator", t)) \in Carried("responder")
    <2>1. Field("signature", SignatureBlock("initiator", t)) \in InFlight("responder")
        BY <1>4, FieldFormed, PartyFacts DEF InFlight
    <2> QED
        BY <2>1, FieldFormed DEF Carried, HonestField
<1> HIDE DEF t
<1> QED
    BY <1>5, <1>6, <1>7, <1>8 DEF OfferFlight, t

\* What the responder writes; T is what the transcript becomes.
LEMMA ReplyFacts ==
    ASSUME NEW t \in Seq(Terms), Len(t) = 3, t[3] \in KemKeys
    PROVE  /\ Reply(t) \in Seq(Terms) /\ Len(Reply(t)) = 5
           /\ Reply(t)[4] = Share("responder") /\ Reply(t)[5] = Ciphertext(t[3])
           /\ \A i \in 1..3 : Reply(t)[i] = t[i]
<1> DEFINE r == <<Share("responder"), Ciphertext(t[3])>>
<1>1. Share("responder") \in Terms /\ Ciphertext(t[3]) \in Terms
    BY FieldFacts, PartyFacts DEF Terms
<1>2. r \in Seq(Terms) /\ Len(r) = 2 /\ r[1] = Share("responder") /\ r[2] = Ciphertext(t[3])
    BY <1>1
<1> HIDE DEF r
<1>3. /\ t \o r \in Seq(Terms) /\ Len(t \o r) = Len(t) + Len(r)
      /\ \A i \in 1..Len(t) + Len(r) :
            (t \o r)[i] = IF i <= Len(t) THEN t[i] ELSE r[i - Len(t)]
    BY <1>2, ConcatProperties
<1>4. (t \o r)[4] = r[1] /\ (t \o r)[5] = r[2] /\ \A i \in 1..3 : (t \o r)[i] = t[i]
    BY <1>2, <1>3
<1> QED
    BY <1>2, <1>3, <1>4 DEF Reply, r

LEMMA ReplyFieldsCarried ==
    ASSUME transcript["responder"] = Tr, Len(Tr) >= 3, Tr[3] \in KemKeys
    PROVE  /\ Field("share", Share("responder")) \in Carried("initiator")
           /\ Field("kem", Ciphertext(Tr[3])) \in Carried("initiator")
<1>1. Share("responder") \in Shares /\ Ciphertext(Tr[3]) \in Ciphertexts
    BY FieldFacts, PartyFacts
<1>2. Field("share", Share("responder")) \in Carried("initiator")
    BY <1>1, FieldFormed, PartyFacts DEF Carried, InFlight, HonestField
<1>3. Field("kem", Ciphertext(Tr[3])) \in Carried("initiator")
    BY <1>1, FieldFormed DEF Carried, InFlight, HonestField
<1> QED
    BY <1>2, <1>3

\* A flight that breaks off before the signature.
LEMMA ReplyBrokenOff ==
    ASSUME Tr \in Seq(Terms), Len(Tr) = 3, Tr[3] \in KemKeys,
           NEW n \in 1..Len(ReplyFlight(Tr)) - 1
    PROVE  SubSeq(ReplyFlight(Tr), 1, n) \in Seq(Carried("initiator"))
<1> DEFINE f1 == Field("share", Share("responder"))
           f2 == Field("kem", Ciphertext(Tr[3]))
           f3 == Field("signature", SignatureBlock("responder", Reply(Tr)))
           flight == <<f1, f2, f3>>
<1>1. f1 \in Carried("initiator") /\ f2 \in Carried("initiator")
    BY ReplyFieldsCarried DEF Tr
<1>2. ReplyFlight(Tr) = flight
    BY ReplyFacts DEF ReplyFlight
<1> HIDE DEF f1, f2, f3
<1>3. Len(flight) = 3
    OBVIOUS
<1>4. n = 1 \/ n = 2
    BY <1>2, <1>3
<1>5. flight[1] = f1 /\ flight[2] = f2
    OBVIOUS
<1> HIDE DEF flight
<1>6. \A i \in 1..n : flight[i] \in Carried("initiator")
    <2>1. \A i \in 1..n : i = 1 \/ i = 2
        BY <1>4
    <2> QED
        BY <1>1, <1>5, <2>1
<1>7. SubSeq(flight, 1, n) \in Seq(Carried("initiator"))
    BY <1>4, <1>6, SubSeqProperties
<1> QED
    BY <1>2, <1>7

--------------------------------------------------------------------------------
\* Each action that adds to no transcript preserves the invariant.
LEMMA StillCarried ==
    ASSUME IInv, UNCHANGED <<transcript, auth>>, alterations' = 0 => alterations = 0
    PROVE  \A p \in Parties : Carried(p) \subseteq Carried(p)'
BY StillTranscripts, CarriedKept DEF IInv

LEMMA SendOfferStep == IInv /\ SendOffer => IInv'
<1> SUFFICES ASSUME IInv, SendOffer PROVE IInv'
    OBVIOUS
<1> DEFINE p == "initiator"
<1>1. p \in Parties /\ "share" \in Places /\ "responder" \in Parties
    BY PartyFacts DEF Places
<1>2. /\ Move(p, "share") /\ at[p] = "offer"
      /\ UNCHANGED <<transcript, auth, closed, lost, broken, alterations>>
      /\ wire' = [wire EXCEPT !["responder"] = OfferFlight(Ti[1])]
    BY DEF SendOffer, environment, Ti
<1>3. PartyOK(p) /\ at \in [Parties -> Places] /\ RestOK
    BY <1>1, TypeParts DEF IInv
<1>4. at'[p] = "share"
    BY <1>1, <1>2, <1>3, MoveFacts
<1>5. Len(transcript[p]) \in Length(p)' /\ (Running(p)' => Running(p))
    BY <1>2, <1>3, <1>4 DEF PartyOK, Length, Running
<1>6. broken' \in BOOLEAN
    BY <1>2, <1>3 DEF RestOK
<1>7. \A q \in Parties : Carried(q) \subseteq Carried(q)'
    BY <1>2, StillCarried
<1>8. OfferFlight(Ti[1]) \in Seq(Carried("responder"))
    BY <1>3, OfferCarried DEF IInv, HalvesOK, RestOK
<1>9. OfferFlight(Ti[1]) \in Seq(Carried("responder")')
    BY <1>1, <1>7, <1>8, SeqMonotonic
<1>10. WireOK'
    BY <1>1, <1>2, <1>7, <1>9, WireChange DEF IInv
<1> HIDE DEF p
<1> QED
    BY <1>1, <1>2, <1>5, <1>6, <1>10, StillStep DEF Verified

LEMMA DeriveStep == ASSUME IInv, NEW p \in Parties, Derive(p) PROVE IInv'
<1>1. /\ Move(p, "done") /\ at[p] = "derive" /\ "done" \in Places
      /\ UNCHANGED <<transcript, wire, auth, closed, lost, broken, alterations>>
    BY DEF Derive, environment, Places
<1>2. PartyOK(p) /\ at \in [Parties -> Places] /\ RestOK
    BY TypeParts DEF IInv
<1>3. at'[p] = "done"
    BY <1>1, <1>2, MoveFacts
<1>4. Len(transcript[p]) \in Length(p)' /\ (Running(p)' => Running(p))
    BY <1>1, <1>2, <1>3 DEF PartyOK, Length, Running
<1>5. WireOK'
    BY <1>1, StillCarried, WireSame DEF IInv
<1>6. broken' \in BOOLEAN
    BY <1>1, <1>2 DEF RestOK
<1> QED
    BY <1>1, <1>4, <1>5, <1>6, StillStep DEF Verified

\* A party that fails, with whatever it managed to write.
LEMMA FailStep ==
    ASSUME IInv, NEW p \in Parties, Move(p, "failed"), WireOK', broken' \in BOOLEAN,
           UNCHANGED <<transcript, auth, closed, lost, alterations>>
    PROVE  IInv'
<1>1. PartyOK(p) /\ at \in [Parties -> Places] /\ "failed" \in Places
    BY TypeParts DEF IInv, Places
<1>2. at'[p] = "failed"
    BY <1>1, MoveFacts
<1>3. Len(transcript[p]) \in Length(p)' /\ ~Running(p)'
    <2>1. Length(p) \subseteq 0..5
        BY DEF Length
    <2>2. Len(transcript[p]) \in 0..5
        BY <1>1, <2>1 DEF PartyOK
    <2> QED
        BY <1>2, <2>2 DEF Length, Running
<1> QED
    BY <1>1, <1>3, StillStep DEF Verified

LEMMA StreamEndsStep == ASSUME IInv, NEW p \in Parties, StreamEnds(p) PROVE IInv'
<1>1. /\ Move(p, "failed")
      /\ UNCHANGED <<transcript, wire, auth, closed, lost, broken, alterations>>
    BY DEF StreamEnds, environment
<1>2. WireOK'
    BY <1>1, StillCarried, WireSame DEF IInv
<1>3. broken' \in BOOLEAN
    BY <1>1, TypeParts DEF IInv, RestOK
<1> QED
    BY <1>1, <1>2, <1>3, FailStep

\* Where a flight may be written, its writer's transcript is ready for it.
LEMMA ReplyReady ==
    ASSUME IInv, at["responder"] = "reply"
    PROVE  Tr \in Seq(Terms) /\ Len(Tr) = 3 /\ Tr[3] \in KemKeys
<1>1. PartyOK("responder") /\ Tr \in Seq(Terms)
    BY TypeParts, PartyFacts DEF IInv, HalvesOK, Tr
<1> QED
    BY <1>1 DEF PartyOK, Length, IsTranscript, Tr

LEMMA CallFailsStep == ASSUME IInv, NEW p \in Parties, CallFails(p) PROVE IInv'
<1> DEFINE flight == CASE at[p] = "offer" -> OfferFlight(transcript[p][1])
                       [] at[p] = "reply" -> ReplyFlight(transcript[p])
                       [] OTHER -> <<>>
<1>1. Move(p, "failed") /\ UNCHANGED <<transcript, auth, closed, lost, alterations>> /\ broken'
    BY DEF CallFails
<1>2. \A q \in Parties : Carried(q) \subseteq Carried(q)'
    BY <1>1, StillCarried
<1>3. CASE UNCHANGED wire
    <2>1. WireOK'
        BY <1>2, <1>3, WireSame DEF IInv
    <2> QED
        BY <1>1, <2>1, FailStep
<1>4. CASE \E n \in 1..Len(flight) - 1 : wire' = [wire EXCEPT ![Peer(p)] = SubSeq(flight, 1, n)]
    <2>1. PICK n \in 1..Len(flight) - 1 : wire' = [wire EXCEPT ![Peer(p)] = SubSeq(flight, 1, n)]
        BY <1>4
    <2>2. ASSUME at[p] = "offer"
          PROVE  SubSeq(flight, 1, n) \in Seq(Carried(Peer(p)))
        <3>1. p = "initiator" /\ flight = OfferFlight(Ti[1]) /\ Peer(p) = "responder"
            BY <2>2, PartyFacts DEF IInv, HalvesOK, Ti
        <3>2. flight \in Seq(Carried(Peer(p))) /\ Len(flight) = 4
            BY <3>1, OfferCarried, TypeParts DEF IInv, HalvesOK, RestOK
        <3> HIDE DEF flight
        <3>3. \A i \in 1..4 : flight[i] \in Carried(Peer(p))
            BY <3>2, ElementOfSeq
        <3>4. n \in 1..3 /\ \A i \in 1..n : i \in 1..4
            BY <2>1, <3>2
        <3>5. \A i \in 1..n : flight[i] \in Carried(Peer(p))
            BY <3>3, <3>4
        <3> QED
            BY <3>4, <3>5, SubSeqProperties
    <2>3. ASSUME at[p] = "reply"
          PROVE  SubSeq(flight, 1, n) \in Seq(Carried(Peer(p)))
        <3>1. p = "responder" /\ flight = ReplyFlight(Tr) /\ Peer(p) = "initiator"
            BY <2>3, PartyFacts DEF IInv, HalvesOK, Tr
        <3>2. n \in 1..Len(ReplyFlight(Tr)) - 1
            BY <2>1, <3>1
        <3>3. SubSeq(ReplyFlight(Tr), 1, n) \in Seq(Carried("initiator"))
            BY <2>3, <3>1, <3>2, ReplyReady, ReplyBrokenOff
        <3> QED
            BY <3>1, <3>3
    <2>4. ASSUME at[p] # "offer", at[p] # "reply"
          PROVE  SubSeq(flight, 1, n) \in Seq(Carried(Peer(p)))
        <3>1. flight = <<>>
            BY <2>4
        <3> QED
            BY <2>1, <3>1
    <2> HIDE DEF flight
    <2>5. SubSeq(flight, 1, n) \in Seq(Carried(Peer(p)))
        BY <2>2, <2>3, <2>4
    <2>6. Peer(p) \in Parties
        BY PartyFacts
    <2>7. SubSeq(flight, 1, n) \in Seq(Carried(Peer(p))')
        BY <1>2, <2>5, <2>6, SeqMonotonic
    <2>8. WireOK'
        BY <1>2, <2>1, <2>6, <2>7, WireChange DEF IInv
    <2> QED
        BY <1>1, <2>8, FailStep
<1> QED
    BY <1>3, <1>4 DEF CallFails

\* Only the peer makes the peer's signature, and only over its own transcript: whoever
\* finds one that fits holds what the peer signed.
LEMMA VerifiedAgrees ==
    ASSUME IInv, NEW p \in Parties, at[p] = "verify", Arrived(p, "signature"),
           auth[p] # "disabled", Accepts(p, Head(wire[p]).body)
    PROVE  Agreed(p)
<1> DEFINE block == Head(wire[p]).body
           t == transcript[p]
           n == Confirmed(p)
<1>1. auth[p] = "pinned" /\ block = Signature(Peer(p), t)
    BY DEF Accepts, Signed
<1>2. block \in Blocks(Peer(p))
    <2>1. Head(wire[p]) \in Carried(p) /\ Head(wire[p]).kind = "signature"
        BY ArrivedCarried DEF IInv
    <2> QED
        BY <2>1 DEF Carried, InFlight
<1>3. block # NoSignature /\ block # Garbage
    <2>1. Peer(p) # "nobody" /\ Peer(p) # "garbage"
        BY PartyFacts
    <2> QED
        BY <1>1, <2>1 DEF Signature, NoSignature, Garbage
<1>4. HasSigned(Peer(p)) /\ Signature(Peer(p), Signable(Peer(p))) = Signature(Peer(p), t)
    BY <1>1, <1>2, <1>3 DEF Blocks
<1>5. Signable(Peer(p)) = t
    BY <1>4 DEF Signature
<1>6. SubSeq(transcript[Peer(p)], 1, n) = t
    BY <1>5, PartyFacts DEF Signable
<1>7. SubSeq(t, 1, n) = t
    <2>1. t \in Seq(Terms) /\ PartyOK(p)
        BY TypeParts DEF IInv, HalvesOK
    <2>2. Len(t) = n
        BY <2>1, PartyFacts DEF PartyOK, Length
    <2> QED
        BY <2>1, <2>2, SubSeqFull
<1>8. auth[Peer(p)] # "disabled" /\ Len(transcript[Peer(p)]) >= n
    BY <1>4, PartyFacts DEF HasSigned
<1> QED
    BY <1>1, <1>6, <1>7, <1>8 DEF Agreed

LEMMA VerifyPeerStep == ASSUME IInv, NEW p \in Parties, VerifyPeer(p) PROVE IInv'
<1> DEFINE accepted == Accepts(p, Head(wire[p]).body)
           place == IF ~accepted THEN "failed"
                    ELSE IF p = "initiator" THEN "derive" ELSE "reply"
<1>1. /\ at[p] = "verify" /\ Arrived(p, "signature") /\ Move(p, place) /\ Take(p)
      /\ UNCHANGED <<transcript, auth, closed, lost, broken, alterations>>
    BY DEF VerifyPeer, environment
<1>2. PartyOK(p) /\ at \in [Parties -> Places] /\ RestOK /\ place \in Places
    BY TypeParts DEF IInv, Places
<1>3. WireOK'
    BY <1>1, StillCarried, WireTaken DEF IInv, Arrived
<1>4. broken' \in BOOLEAN
    BY <1>1, <1>2 DEF RestOK
<1>5. CASE ~accepted
    BY <1>1, <1>3, <1>4, <1>5, FailStep
<1>6. CASE accepted
    <2>1. auth[p] # "disabled" => Agreed(p)
        BY <1>1, <1>6, VerifiedAgrees
    <2>2. at'[p] = place /\ place \notin {"offer", "level"} /\ (p = "initiator" => place # "reply")
        BY <1>1, <1>2, <1>6, MoveFacts
    <2>3. at'[p] = IF p = "initiator" THEN "derive" ELSE "reply"
        BY <1>6, <2>2
    <2>4. Len(transcript[p]) \in Length(p)' /\ (Running(p)' => Running(p))
        BY <1>1, <1>2, <2>3 DEF PartyOK, Length, Running
    <2> HIDE DEF place
    <2> QED
        BY <1>1, <1>2, <1>3, <1>4, <2>1, <2>2, <2>4, StillStep
<1> QED
    BY <1>5, <1>6

\* A step that moves no party.
LEMMA IdleStep ==
    ASSUME IInv, UNCHANGED <<at, transcript, auth>>, alterations' = 0 => alterations = 0,
           RestOK', WireOK'
    PROVE  IInv'
<1>1. Grown
    BY StillTranscripts DEF IInv
<1>2. OwnFields' /\ HonestSoFar'
    BY StillFields DEF IInv
<1>3. VerifiedAgree'
    BY <1>1, AgreementKept DEF IInv, VerifiedAgree, Verified
<1>4. TypeOK'
    <2>1. \A p \in Parties : PartyOK(p)'
        BY TypeParts, PartyKept DEF IInv
    <2>2. at' \in [Parties -> Places]
        BY TypeParts DEF IInv
    <2> QED
        BY <2>1, <2>2 DEF TypeOK, PartyOK, RestOK
<1>5. HalvesOK'
    BY DEF IInv, HalvesOK
<1> QED
    BY <1>2, <1>3, <1>4, <1>5 DEF IInv

LEMMA CloseStep == ASSUME IInv, NEW p \in Parties, CloseAfterFailure(p) PROVE IInv'
<1>1. WireOK'
    BY StillCarried, WireSame DEF IInv, CloseAfterFailure
<1>2. RestOK'
    BY TypeParts DEF IInv, RestOK, CloseAfterFailure
<1> QED
    BY <1>1, <1>2, IdleStep DEF CloseAfterFailure

LEMMA AssociationLostStep == ASSUME IInv, AssociationLost PROVE IInv'
<1>1. wire' = [p \in Parties |-> <<>>]
    BY DEF AssociationLost
<1>2. WireOK'
    BY <1>1 DEF WireOK
<1>3. RestOK'
    BY TypeParts DEF IInv, RestOK, AssociationLost
<1> QED
    BY <1>2, <1>3, IdleStep DEF AssociationLost

\* An altered field is a field all the same, and no signature but the two anyone can make.
LEMMA AlteredInFlight ==
    ASSUME NEW p \in Parties, NEW f \in InFlight(p), NEW form \in AlteredForms(f)
    PROVE  form \in Seq(InFlight(p))
<1>1. CASE f.kind = "level"
    <2>1. PICK l \in LevelBytes : form = <<Field("level", l)>>
        BY <1>1 DEF AlteredForms
    <2>2. Field("level", l) \in InFlight(p)
        BY FieldFormed DEF InFlight
    <2> QED
        BY <2>1, <2>2
<1>2. CASE f.kind = "signature"
    <2>1. NoSignature \in Blocks(Peer(p)) /\ Garbage \in Blocks(Peer(p))
        BY DEF Blocks
    <2>2. /\ Field("signature", NoSignature) \in InFlight(p)
          /\ Field("signature", Garbage) \in InFlight(p)
        BY <2>1, FieldFormed DEF InFlight
    <2>3. \/ form = <<>> \/ form = <<Field("signature", NoSignature)>>
          \/ form = <<Field("signature", Garbage)>>
        BY <1>2 DEF AlteredForms
    <2>4. \A g \in InFlight(p) : <<g>> \in Seq(InFlight(p))
        OBVIOUS
    <2>5. <<>> \in Seq(InFlight(p))
        OBVIOUS
    <2> QED
        BY <2>2, <2>3, <2>4, <2>5
<1>3. CASE f.kind # "level" /\ f.kind # "signature"
    <2> DEFINE spoilt == [f.body EXCEPT !.intact = FALSE]
    <2>1. form = <<Field(f.kind, spoilt)>>
        BY <1>3 DEF AlteredForms
    <2>2. CASE f.kind = "share"
        <3>1. f.body \in Shares
            BY <2>2 DEF InFlight
        <3>2. spoilt \in Shares
            BY <3>1 DEF Shares
        <3> HIDE DEF spoilt
        <3>3. Field("share", spoilt) \in InFlight(p)
            BY <3>2, FieldFormed DEF InFlight
        <3> QED
            BY <2>1, <2>2, <3>3
    <2>3. CASE f.kind = "kem"
        <3>1. f.body \in IF p = "responder" THEN KemKeys ELSE Ciphertexts
            BY <2>3 DEF InFlight
        <3>2. spoilt \in IF p = "responder" THEN KemKeys ELSE Ciphertexts
            BY <3>1 DEF KemKeys, Ciphertexts
        <3> HIDE DEF spoilt
        <3>3. Field("kem", spoilt) \in InFlight(p)
            BY <3>2, FieldFormed DEF InFlight
        <3> QED
            BY <2>1, <2>3, <3>3
    <2>4. f.kind = "share" \/ f.kind = "kem"
        BY <1>3 DEF InFlight
    <2> QED
        BY <2>2, <2>3, <2>4
<1> QED
    BY <1>1, <1>2, <1>3

LEMMA AlterFieldStep == ASSUME IInv, NEW p \in Parties, AlterField(p) PROVE IInv'
<1>1. /\ alterations' = alterations + 1 /\ alterations < MaxAlterations
      /\ UNCHANGED <<at, transcript, auth, closed, lost, broken>>
    BY DEF AlterField
<1>2. RestOK /\ alterations \in Nat
    BY TypeParts, MaxAlterationsAssumption DEF IInv, RestOK
<1>3. alterations' # 0 /\ alterations' \in 0..MaxAlterations
    BY <1>1, <1>2, MaxAlterationsAssumption
<1>4. RestOK'
    BY <1>1, <1>2, <1>3 DEF RestOK
<1>5. \A q \in Parties : Carried(q) \subseteq Carried(q)'
    BY <1>1, <1>3, StillCarried
<1>6. InFlight(p) \subseteq Carried(p)'
    BY <1>1, <1>3 DEF Carried, InFlight, Blocks, HasSigned, Signable
<1>7. PICK i \in 1..Len(wire[p]) : \E form \in AlteredForms(wire[p][i]) :
          wire' = [wire EXCEPT ![p] =
                      SubSeq(@, 1, i - 1) \o form \o SubSeq(@, i + 1, Len(@))]
    BY DEF AlterField
<1>8. PICK form \in AlteredForms(wire[p][i]) :
          wire' = [wire EXCEPT ![p] =
                      SubSeq(@, 1, i - 1) \o form \o SubSeq(@, i + 1, Len(@))]
    BY <1>7
<1> DEFINE w == wire[p]
           altered == SubSeq(w, 1, i - 1) \o form \o SubSeq(w, i + 1, Len(w))
<1>9. w \in Seq(Carried(p)) /\ Len(w) \in Nat /\ \A j \in 1..Len(w) : w[j] \in Carried(p)
    BY ElementOfSeq, LenProperties DEF IInv, WireOK
<1>10. form \in Seq(Carried(p)')
    <2>1. w[i] \in InFlight(p)
        BY <1>9 DEF Carried
    <2>2. form \in Seq(InFlight(p))
        BY <1>8, <2>1, AlteredInFlight
    <2> QED
        BY <1>6, <2>2, SeqMonotonic
<1>11. SubSeq(w, 1, i - 1) \in Seq(Carried(p)') /\ SubSeq(w, i + 1, Len(w)) \in Seq(Carried(p)')
    <2>1. \A j \in 1..Len(w) : w[j] \in Carried(p)'
        BY <1>5, <1>9
    <2>2. \A j \in 1..i - 1 : w[j] \in Carried(p)'
        BY <1>9, <2>1
    <2>3. \A j \in i + 1..Len(w) : w[j] \in Carried(p)'
        BY <1>9, <2>1
    <2> HIDE DEF w
    <2>4. SubSeq(w, 1, i - 1) \in Seq(Carried(p)')
        BY <1>9, <2>2, SubSeqProperties
    <2>5. SubSeq(w, i + 1, Len(w)) \in Seq(Carried(p)')
        BY <1>9, <2>3, SubSeqProperties
    <2> QED
        BY <2>4, <2>5
<1>12. altered \in Seq(Carried(p)')
    BY <1>10, <1>11, ConcatProperties
<1>13. wire' = [wire EXCEPT ![p] = altered]
    BY <1>8 DEF IInv, WireOK
<1> HIDE DEF altered
<1>14. WireOK'
    BY <1>5, <1>12, <1>13, WireChange DEF IInv
<1> QED
    BY <1>1, <1>3, <1>4, <1>14, IdleStep

--------------------------------------------------------------------------------
\* The actions that add to a transcript.
LEMMA ExtendFacts ==
    ASSUME transcript \in [Parties -> Seq(Terms)], NEW p \in Parties, NEW x \in Terms,
           Extend(p, x), UNCHANGED auth
    PROVE  /\ Grown
           /\ Len(transcript[p]) \in Nat /\ Len(transcript'[p]) = Len(transcript[p]) + 1
           /\ transcript'[p][Len(transcript[p]) + 1] = x
           /\ \A i \in 1..Len(transcript[p]) : transcript'[p][i] = transcript[p][i]
           /\ \A q \in Parties : q # p => transcript'[q] = transcript[q]
<1>1. /\ transcript'[p] = Append(transcript[p], x)
      /\ \A q \in Parties : q # p => transcript'[q] = transcript[q]
      /\ transcript' = [q \in Parties |-> IF q = p THEN Append(transcript[p], x) ELSE transcript[q]]
    BY DEF Extend
<1>2. \A q \in Parties : transcript[q] \in Seq(Terms) /\ Len(transcript[q]) \in Nat
    BY LenProperties
<1>3. /\ transcript'[p] \in Seq(Terms) /\ Len(transcript'[p]) = Len(transcript[p]) + 1
      /\ transcript'[p][Len(transcript[p]) + 1] = x
      /\ \A i \in 1..Len(transcript[p]) : transcript'[p][i] = transcript[p][i]
    BY <1>1, <1>2, AppendKeeps
<1>4. transcript' \in [Parties -> Seq(Terms)]
    BY <1>1, <1>2, <1>3
<1>5. \A q \in Parties :
          /\ Len(transcript'[q]) >= Len(transcript[q])
          /\ \A i \in 1..Len(transcript[q]) : transcript'[q][i] = transcript[q][i]
    <2>1. ASSUME NEW q \in Parties
          PROVE  /\ Len(transcript'[q]) >= Len(transcript[q])
                 /\ \A i \in 1..Len(transcript[q]) : transcript'[q][i] = transcript[q][i]
        <3>1. CASE q = p
            BY <1>2, <1>3, <3>1
        <3>2. CASE q # p
            BY <1>1, <1>2, <3>2
        <3> QED
            BY <3>1, <3>2
    <2> QED
        BY <2>1
<1>6. Grown
    BY <1>4, <1>5 DEF Grown
<1> QED
    BY <1>1, <1>2, <1>3, <1>6

\* What the extending steps have in common: p moves on, and nothing is verified.
LEMMA GrowStep ==
    ASSUME IInv, NEW p \in Parties, NEW place \in Places, Move(p, place), Grown,
           \A q \in Parties : q # p => transcript'[q] = transcript[q],
           UNCHANGED <<closed, lost, broken, alterations>>,
           place \notin {"offer", "level", "reply"},
           place \in Verified => at[p] \in Verified,
           PartyOK(p)', OwnFields', HonestSoFar', WireOK'
    PROVE  IInv'
<1>1. at \in [Parties -> Places] /\ (\A q \in Parties : PartyOK(q)) /\ RestOK
    BY TypeParts DEF IInv
<1>2. /\ at' \in [Parties -> Places] /\ at'[p] = place
      /\ \A q \in Parties : q # p => at'[q] = at[q]
    BY <1>1, MoveFacts
<1>3. \A q \in Parties : at'[q] \in Verified => at[q] \in Verified
    BY <1>2
<1>4. VerifiedAgree'
    <2>1. ASSUME NEW q \in Parties
          PROVE  (at'[q] \in Verified /\ auth'[q] # "disabled") => Agreed(q)'
        BY <1>3, AgreementKept DEF IInv
    <2> QED
        BY <2>1 DEF VerifiedAgree, Verified
<1>5. TypeOK'
    <2>1. \A q \in Parties : PartyOK(q)'
        BY <1>1, <1>2, PartyKept
    <2>2. RestOK'
        BY <1>1 DEF RestOK, Grown
    <2> QED
        BY <1>2, <2>1, <2>2 DEF TypeOK, PartyOK, RestOK
<1>6. HalvesOK'
    BY <1>1, HalvesKept DEF IInv, Grown
<1> QED
    BY <1>4, <1>5, <1>6 DEF IInv

\* The initiator's own fields stay, and the responder's as long as it adds none.
LEMMA OwnTiKept ==
    ASSUME OwnFields, Grown
    PROVE  /\ Len(Ti') >= 3 /\ Ti'[1] = Ti[1] /\ Ti'[2] = Ti[2] /\ Ti'[3] = Ti[3]
           /\ Ti[1] \in Levels /\ Ti[1] >= CRYPTO_FLOOR
           /\ Ti[2] = Share("initiator") /\ Ti[3] = KemKey(Ti[1])
BY GrownTranscripts DEF OwnFields

LEMMA ReadLevelStep == IInv /\ ReadLevel => IInv'
<1> SUFFICES ASSUME IInv, ReadLevel PROVE IInv'
    OBVIOUS
<1> DEFINE p == "responder"
           level == Head(wire[p]).body
           place == IF level < CRYPTO_FLOOR THEN "failed" ELSE "share"
<1>1. /\ p \in Parties /\ at[p] = "level" /\ Arrived(p, "level") /\ Move(p, place)
      /\ Extend(p, level) /\ Take(p)
      /\ UNCHANGED <<auth, closed, lost, broken, alterations>>
    BY PartyFacts DEF ReadLevel, environment
<1>2. level \in LevelBytes /\ (alterations = 0 => level = Ti[1])
    <2>1. Head(wire[p]) \in Carried(p) /\ Head(wire[p]).kind = "level"
        BY <1>1, ArrivedCarried DEF IInv
    <2> QED
        BY <2>1 DEF Carried, InFlight, HonestField
<1> HIDE DEF level
<1>3. level \in Terms /\ level \in Nat
    BY <1>2, LevelFacts DEF Terms
<1>4. /\ Grown /\ Len(Tr') = Len(Tr) + 1 /\ Tr'[Len(Tr) + 1] = level
      /\ transcript'["initiator"] = Ti
    BY <1>1, <1>3, ExtendFacts, PartyFacts DEF IInv, HalvesOK, Ti, Tr
<1>5. Len(Tr) = 0
    BY <1>1, TypeParts DEF IInv, PartyOK, Length, Tr
<1>6. Len(Tr') = 1 /\ Tr'[1] = level
    BY <1>4, <1>5
<1>7. OwnFields'
    <2>1. /\ Len(Ti') >= 3 /\ Ti'[1] = Ti[1] /\ Ti'[2] = Ti[2] /\ Ti'[3] = Ti[3]
          /\ Ti[1] \in Levels /\ Ti[1] >= CRYPTO_FLOOR
          /\ Ti[2] = Share("initiator") /\ Ti[3] = KemKey(Ti[1])
        BY <1>4, OwnTiKept DEF IInv
    <2> QED
        BY <1>6, <2>1 DEF OwnFields
<1>8. HonestSoFar'
    BY <1>1, <1>2, <1>4, <1>5, <1>6 DEF IInv, HonestSoFar, Ti
<1>9. WireOK'
    BY <1>1, <1>4, CarriedKept, WireTaken DEF IInv, Arrived
<1>10. place \in Places /\ place \notin {"offer", "level", "reply"} /\ place \notin Verified
    BY DEF Places, Verified
<1>11. at'[p] = place
    BY <1>1, <1>10, MoveFacts, TypeParts DEF IInv
<1>12. PartyOK(p)'
    <2>1. IsTranscript(Tr')
        BY <1>2, <1>6 DEF IsTranscript
    <2>2. Len(Tr') \in Length(p)'
        BY <1>6, <1>11 DEF Length
    <2>3. Running(p)' => Tr'[1] >= CRYPTO_FLOOR
        BY <1>3, <1>6, <1>11, LevelFacts DEF Running
    <2> QED
        BY <2>1, <2>2, <2>3 DEF PartyOK, Tr
<1>13. \A q \in Parties : q # p => transcript'[q] = transcript[q]
    BY <1>4, PartyFacts DEF Ti
<1> HIDE DEF p, place
<1> QED
    BY <1>1, <1>4, <1>7, <1>8, <1>9, <1>10, <1>12, <1>13, GrowStep

\* What a reading party p adds to its transcript, the other's staying as it is.
LEMMA ReadFacts ==
    ASSUME IInv, NEW p \in Parties, NEW x \in Terms, Extend(p, x), UNCHANGED auth
    PROVE  /\ Grown
           /\ \A q \in Parties : q # p => transcript'[q] = transcript[q]
           /\ p = "initiator" => Tr' = Tr /\ Len(Ti') = Len(Ti) + 1 /\ Ti'[Len(Ti) + 1] = x
           /\ p = "responder" => Ti' = Ti /\ Len(Tr') = Len(Tr) + 1 /\ Tr'[Len(Tr) + 1] = x
           /\ \A i \in 1..Len(Ti) : Ti'[i] = Ti[i]
           /\ \A i \in 1..Len(Tr) : Tr'[i] = Tr[i]
<1>1. /\ Grown /\ Len(transcript'[p]) = Len(transcript[p]) + 1
      /\ transcript'[p][Len(transcript[p]) + 1] = x
      /\ \A q \in Parties : q # p => transcript'[q] = transcript[q]
    BY ExtendFacts DEF IInv, HalvesOK
<1> QED
    BY <1>1, PartyFacts, GrownTranscripts DEF Ti, Tr

LEMMA ReadShareStep == ASSUME IInv, NEW p \in Parties, ReadShare(p) PROVE IInv'
<1> DEFINE x == Head(wire[p]).body
<1>1. /\ at[p] = "share" /\ Arrived(p, "share") /\ Move(p, "kem") /\ Extend(p, x) /\ Take(p)
      /\ UNCHANGED <<auth, closed, lost, broken, alterations>>
    BY DEF ReadShare, environment
<1>2. x \in Shares /\ (alterations = 0 => x = Share(Peer(p)))
    <2>1. Head(wire[p]) \in Carried(p) /\ Head(wire[p]).kind = "share"
        BY <1>1, ArrivedCarried DEF IInv
    <2> QED
        BY <2>1 DEF Carried, InFlight, HonestField
<1> HIDE DEF x
<1>3. x \in Terms
    BY <1>2 DEF Terms
<1>4. /\ Grown
      /\ \A q \in Parties : q # p => transcript'[q] = transcript[q]
      /\ p = "initiator" => Tr' = Tr /\ Len(Ti') = Len(Ti) + 1 /\ Ti'[Len(Ti) + 1] = x
      /\ p = "responder" => Ti' = Ti /\ Len(Tr') = Len(Tr) + 1 /\ Tr'[Len(Tr) + 1] = x
      /\ \A i \in 1..Len(Ti) : Ti'[i] = Ti[i]
      /\ \A i \in 1..Len(Tr) : Tr'[i] = Tr[i]
    BY <1>1, <1>3, ReadFacts
<1>5. /\ at \in [Parties -> Places] /\ PartyOK(p) /\ "kem" \in Places
      /\ OwnFields /\ HonestSoFar /\ Running(p)
    BY <1>1, TypeParts DEF IInv, Places, Running
<1>6. at'[p] = "kem"
    BY <1>1, <1>5, MoveFacts
<1>7. WireOK'
    BY <1>1, <1>4, CarriedKept, WireTaken DEF IInv, Arrived
<1>8. /\ Len(Ti') >= 3 /\ Ti'[1] = Ti[1] /\ Ti'[2] = Ti[2] /\ Ti'[3] = Ti[3]
      /\ Ti[1] \in Levels /\ Ti[1] >= CRYPTO_FLOOR
      /\ Ti[2] = Share("initiator") /\ Ti[3] = KemKey(Ti[1])
    BY <1>4, <1>5, OwnTiKept
<1>9. CASE p = "initiator"
    <2>1. Len(Ti) = 3 /\ Tr' = Tr /\ IsTranscript(Ti)
        BY <1>1, <1>4, <1>5, <1>9 DEF PartyOK, Length, Ti
    <2>2. Len(Ti') = 4 /\ Ti'[4] = x
        BY <1>4, <1>9, <2>1
    <2>3. OwnFields'
        BY <1>5, <1>8, <2>1 DEF OwnFields
    <2>4. HonestSoFar'
        BY <1>1, <1>2, <1>5, <1>8, <1>9, <2>1, <2>2, PartyFacts DEF HonestSoFar
    <2>5. IsTranscript(Ti')
        BY <1>2, <1>8, <2>1, <2>2 DEF IsTranscript
    <2>6. PartyOK(p)'
        BY <1>6, <1>8, <1>9, <2>2, <2>5 DEF PartyOK, Length, Running, Ti
    <2> QED
        BY <1>1, <1>4, <1>5, <1>7, <2>3, <2>4, <2>6, GrowStep DEF Verified
<1>10. CASE p = "responder"
    <2>1. Len(Tr) = 1 /\ Ti' = Ti /\ IsTranscript(Tr) /\ Tr[1] >= CRYPTO_FLOOR
        <3>1. Len(Tr) = 1 /\ Ti' = Ti /\ IsTranscript(Tr)
            BY <1>1, <1>4, <1>5, <1>10 DEF PartyOK, Length, Tr
        <3>2. Tr # <<>>
            BY <3>1
        <3> QED
            BY <1>5, <1>10, <3>1, <3>2 DEF PartyOK, Tr
    <2>2. Len(Tr') = 2 /\ Tr'[2] = x /\ Tr'[1] = Tr[1]
        BY <1>4, <1>10, <2>1
    <2>3. OwnFields'
        BY <1>5, <1>8, <2>1, <2>2 DEF OwnFields
    <2>4. HonestSoFar'
        <3>1. SUFFICES ASSUME alterations' = 0 PROVE HonestSoFar'
            BY DEF HonestSoFar
        <3>2. Tr'[1] = Ti'[1] /\ Tr'[2] = Ti'[2]
            BY <1>1, <1>2, <1>5, <1>8, <1>10, <2>1, <2>2, <3>1, PartyFacts DEF HonestSoFar
        <3>3. \A i \in 1..3 : i <= Len(Tr') => Tr'[i] = Ti'[i]
            BY <2>2, <3>2
        <3> QED
            BY <1>1, <1>5, <2>1, <2>2, <3>1, <3>3 DEF HonestSoFar
    <2>5. IsTranscript(Tr')
        BY <1>2, <2>1, <2>2 DEF IsTranscript
    <2>6. PartyOK(p)'
        BY <1>6, <1>10, <2>1, <2>2, <2>5 DEF PartyOK, Length, Running, Tr
    <2> QED
        BY <1>1, <1>4, <1>5, <1>7, <2>3, <2>4, <2>6, GrowStep DEF Verified
<1> QED
    BY <1>9, <1>10, PartyFacts

\* A party reads the key or the ciphertext as x, whichever way the bytes came.
KemFields(p) == IF p = "responder" THEN KemKeys ELSE Ciphertexts

LEMMA KemTaken ==
    ASSUME IInv, NEW p \in Parties, at[p] = "kem", NEW x \in KemFields(p), Extend(p, x),
           Move(p, "verify"), UNCHANGED <<auth, closed, lost, broken, alterations>>,
           x.alg = level_to_alg(transcript[p][1]),
           alterations = 0 => HonestField(p, Field("kem", x)),
           WireOK'
    PROVE  IInv'
<1>1. x \in Terms
    BY DEF Terms, KemFields
<1>2. /\ Grown
      /\ \A q \in Parties : q # p => transcript'[q] = transcript[q]
      /\ p = "initiator" => Tr' = Tr /\ Len(Ti') = Len(Ti) + 1 /\ Ti'[Len(Ti) + 1] = x
      /\ p = "responder" => Ti' = Ti /\ Len(Tr') = Len(Tr) + 1 /\ Tr'[Len(Tr) + 1] = x
      /\ \A i \in 1..Len(Ti) : Ti'[i] = Ti[i]
      /\ \A i \in 1..Len(Tr) : Tr'[i] = Tr[i]
    BY <1>1, ReadFacts
<1>3. /\ at \in [Parties -> Places] /\ PartyOK(p) /\ "verify" \in Places
      /\ OwnFields /\ HonestSoFar /\ Running(p)
    BY TypeParts DEF IInv, Places, Running
<1>4. at'[p] = "verify"
    BY <1>3, MoveFacts
<1>5. /\ Len(Ti') >= 3 /\ Ti'[1] = Ti[1] /\ Ti'[2] = Ti[2] /\ Ti'[3] = Ti[3]
      /\ Ti[1] \in Levels /\ Ti[1] >= CRYPTO_FLOOR
      /\ Ti[2] = Share("initiator") /\ Ti[3] = KemKey(Ti[1])
    BY <1>2, <1>3, OwnTiKept
<1>6. CASE p = "initiator"
    <2>1. Len(Ti) = 4 /\ Tr' = Tr /\ IsTranscript(Ti)
        BY <1>2, <1>3, <1>6 DEF PartyOK, Length, Ti
    <2>2. Len(Ti') = 5 /\ Ti'[5] = x /\ Ti'[4] = Ti[4]
        BY <1>2, <1>6, <2>1
    <2>3. OwnFields'
        BY <1>3, <1>5, <2>1 DEF OwnFields
    <2>4. HonestSoFar'
        <3>1. SUFFICES ASSUME alterations' = 0 PROVE HonestSoFar'
            BY DEF HonestSoFar
        <3>2. Len(Tr') >= 3 /\ Ti'[5] = Ciphertext(Tr'[3])
            BY <1>6, <2>1, <2>2, <3>1, FieldFormed DEF HonestField
        <3>3. Ti'[4] = Share("responder") /\ \A i \in 1..3 : i <= Len(Tr') => Tr'[i] = Ti'[i]
            BY <1>3, <1>5, <2>1, <2>2, <3>1 DEF HonestSoFar
        <3> QED
            BY <3>2, <3>3 DEF HonestSoFar
    <2>5. IsTranscript(Ti')
        BY <1>5, <1>6, <2>1, <2>2 DEF IsTranscript, KemFields
    <2>6. PartyOK(p)'
        BY <1>4, <1>5, <1>6, <2>2, <2>5 DEF PartyOK, Length, Running, Ti
    <2> QED
        BY <1>2, <1>3, <2>3, <2>4, <2>6, GrowStep DEF Verified
<1>7. CASE p = "responder"
    <2>1. Len(Tr) = 2 /\ Ti' = Ti /\ IsTranscript(Tr) /\ Tr[1] >= CRYPTO_FLOOR
        <3>1. Len(Tr) = 2 /\ Ti' = Ti /\ IsTranscript(Tr)
            BY <1>2, <1>3, <1>7 DEF PartyOK, Length, Tr
        <3>2. Tr # <<>>
            <4>1. Tr \in Seq(Terms)
                BY PartyFacts DEF IInv, HalvesOK, Tr
            <4>2. Len(Tr) # 0
                BY <3>1
            <4> QED
                BY <4>1, <4>2, NonEmpty
        <3> QED
            BY <1>3, <1>7, <3>1, <3>2 DEF PartyOK, Tr
    <2>2. Len(Tr') = 3 /\ Tr'[3] = x /\ Tr'[1] = Tr[1] /\ Tr'[2] = Tr[2]
        BY <1>2, <1>7, <2>1
    <2>3. Tr'[3].alg = level_to_alg(Tr'[1])
        BY <1>7, <2>2 DEF Tr
    <2>4. OwnFields'
        BY <1>5, <2>2, <2>3 DEF OwnFields
    <2>5. HonestSoFar'
        <3>1. SUFFICES ASSUME alterations' = 0 PROVE HonestSoFar'
            BY DEF HonestSoFar
        <3>2. Tr'[1] = Ti'[1] /\ Tr'[2] = Ti'[2]
            BY <1>3, <1>5, <2>1, <2>2, <3>1 DEF HonestSoFar
        <3>3. Tr'[3] = Ti'[3]
            BY <1>5, <1>7, <2>2, <3>1, FieldFormed DEF HonestField
        <3>4. \A i \in 1..3 : i <= Len(Tr') => Tr'[i] = Ti'[i]
            <4>1. \A i \in 1..3 : i = 1 \/ i = 2 \/ i = 3
                OBVIOUS
            <4> QED
                BY <3>2, <3>3, <4>1
        <3>5. /\ Len(Ti') >= 4 => Ti'[4] = Share("responder")
              /\ Len(Ti') >= 5 => Len(Tr') >= 3 /\ Ti'[5] = Ciphertext(Tr'[3])
            BY <1>3, <2>1, <2>2, <3>1 DEF HonestSoFar
        <3> QED
            BY <3>4, <3>5 DEF HonestSoFar
    <2>6. IsTranscript(Tr')
        BY <1>7, <2>1, <2>2 DEF IsTranscript, KemFields
    <2>7. PartyOK(p)'
        BY <1>4, <1>7, <2>1, <2>2, <2>6 DEF PartyOK, Length, Running, Tr
    <2> QED
        BY <1>2, <1>3, <2>4, <2>5, <2>7, GrowStep DEF Verified
<1> QED
    BY <1>6, <1>7, PartyFacts

\* Without alterations both sides mean the same algorithm, and no read ends inside a field.
LEMMA HonestAlgorithm ==
    ASSUME IInv, NEW p \in Parties, at[p] = "kem", alterations = 0,
           NEW body, HonestField(p, Field("kem", body))
    PROVE  body.alg = level_to_alg(transcript[p][1])
<1>1. Ti[1] \in Levels /\ Ti[3] = KemKey(Ti[1]) /\ HonestSoFar /\ PartyOK(p)
    BY TypeParts DEF IInv, OwnFields
<1>2. Ti[1] \in LevelBytes /\ KemKey(Ti[1]) \in KemKeys /\ KemKey(Ti[1]).alg = level_to_alg(Ti[1])
    BY <1>1, FieldFacts DEF LevelBytes
<1>3. CASE p = "initiator"
    <2>1. Len(Tr) >= 3 /\ body = Ciphertext(Tr[3])
        BY <1>3, FieldFormed DEF HonestField
    <2>2. Tr[3] = Ti[3]
        BY <1>1, <2>1 DEF HonestSoFar
    <2> QED
        BY <1>1, <1>2, <1>3, <2>1, <2>2, FieldFacts DEF Ti
<1>4. CASE p = "responder"
    <2>1. body = Ti[3]
        BY <1>4, FieldFormed DEF HonestField
    <2>2. Len(Tr) = 2
        BY <1>1, <1>4 DEF PartyOK, Length, Tr
    <2>3. Tr[1] = Ti[1]
        BY <1>1, <2>2 DEF HonestSoFar
    <2> QED
        BY <1>1, <1>2, <1>4, <2>1, <2>3 DEF Tr
<1> QED
    BY <1>3, <1>4, PartyFacts

LEMMA ReadKemStep == ASSUME IInv, NEW p \in Parties, ReadKem(p) PROVE IInv'
<1> DEFINE body == Head(wire[p]).body
           alg == level_to_alg(transcript[p][1])
<1>1. /\ at[p] = "kem" /\ Arrived(p, "kem") /\ Move(p, "verify")
      /\ UNCHANGED <<auth, closed, lost, broken, alterations>>
    BY DEF ReadKem, environment
<1>2. \/ body.alg = alg /\ Extend(p, body) /\ Take(p)
      \/ /\ body.alg # alg
         /\ Extend(p, [body EXCEPT !.alg = alg, !.intact = FALSE])
         /\ \E rest \in {<<>>, <<Field("signature", Garbage)>>,
                         <<Field("signature", NoSignature)>>} :
               wire' = [wire EXCEPT ![p] = rest]
    BY DEF ReadKem
<1>3. body \in KemFields(p) /\ (alterations = 0 => HonestField(p, Field("kem", body)))
    <2>1. Head(wire[p]) \in Carried(p) /\ Head(wire[p]).kind = "kem"
        BY <1>1, ArrivedCarried DEF IInv
    <2> QED
        BY <2>1, FieldFormed DEF Carried, InFlight, HonestField, KemFields
<1>4. alg \in Levels
    <2>1. PartyOK(p) /\ (p = "initiator" => Len(transcript[p]) = 4)
          /\ (p = "responder" => Len(transcript[p]) = 2)
        BY <1>1, TypeParts DEF IInv, PartyOK, Length
    <2>2. transcript[p][1] \in LevelBytes
        BY <2>1, PartyFacts DEF PartyOK, IsTranscript
    <2> QED
        BY <2>2, LevelFacts
<1> HIDE DEF body
<1>5. CASE body.alg = alg /\ Extend(p, body) /\ Take(p)
    <2>1. Grown
        BY <1>1, <1>3, <1>5, ReadFacts DEF Terms, KemFields
    <2>2. WireOK'
        BY <1>1, <1>5, <2>1, CarriedKept, WireTaken DEF IInv, Arrived
    <2> QED
        BY <1>1, <1>3, <1>5, <2>2, KemTaken
<1>6. CASE /\ body.alg # alg
           /\ Extend(p, [body EXCEPT !.alg = alg, !.intact = FALSE])
           /\ \E rest \in {<<>>, <<Field("signature", Garbage)>>,
                           <<Field("signature", NoSignature)>>} :
                 wire' = [wire EXCEPT ![p] = rest]
    <2> DEFINE x == [body EXCEPT !.alg = alg, !.intact = FALSE]
    <2>1. x \in KemFields(p) /\ x.alg = alg
        BY <1>3, <1>4 DEF KemFields, KemKeys, Ciphertexts
    <2>2. alterations # 0
        BY <1>1, <1>3, <1>6, HonestAlgorithm
    <2> HIDE DEF x
    <2>3. Grown
        BY <1>1, <1>6, <2>1, ReadFacts DEF Terms, KemFields, x
    <2>4. PICK rest \in {<<>>, <<Field("signature", Garbage)>>, <<Field("signature", NoSignature)>>} :
              wire' = [wire EXCEPT ![p] = rest]
        BY <1>6
    <2>5. rest \in Seq(Carried(p)')
        <3>1. NoSignature \in Blocks(Peer(p))' /\ Garbage \in Blocks(Peer(p))'
            BY DEF Blocks
        <3>2. /\ Field("signature", NoSignature) \in InFlight(p)'
              /\ Field("signature", Garbage) \in InFlight(p)'
            BY <3>1, FieldFormed DEF InFlight
        <3>3. /\ Field("signature", NoSignature) \in Carried(p)'
              /\ Field("signature", Garbage) \in Carried(p)'
            BY <1>1, <2>2, <3>2 DEF Carried
        <3>4. \A g \in Carried(p)' : <<g>> \in Seq(Carried(p)')
            OBVIOUS
        <3>5. <<>> \in Seq(Carried(p)')
            OBVIOUS
        <3> QED
            BY <2>4, <3>3, <3>4, <3>5
    <2>6. WireOK'
        BY <1>1, <2>3, <2>4, <2>5, CarriedKept, WireChange DEF IInv
    <2>7. Extend(p, x)
        BY <1>6 DEF x
    <2> QED
        BY <1>1, <2>1, <2>2, <2>6, <2>7, KemTaken
<1> QED
    BY <1>2, <1>5, <1>6

LEMMA SendReplyStep == IInv /\ SendReply => IInv'
<1> SUFFICES ASSUME IInv, SendReply PROVE IInv'
    OBVIOUS
<1> DEFINE p == "responder"
<1>1. /\ p \in Parties /\ "initiator" \in Parties /\ at[p] = "reply" /\ Move(p, "derive")
      /\ wire' = [wire EXCEPT !["initiator"] = ReplyFlight(Tr)]
      /\ transcript' = [transcript EXCEPT ![p] = Reply(Tr)]
      /\ UNCHANGED <<auth, closed, lost, broken, alterations>>
    BY PartyFacts DEF SendReply, environment, Tr
<1>2. /\ at \in [Parties -> Places] /\ PartyOK(p) /\ "derive" \in Places /\ RestOK
      /\ OwnFields /\ HonestSoFar /\ HalvesOK /\ Running(p)
    BY <1>1, TypeParts DEF IInv, Places, Running
<1>3. Tr \in Seq(Terms) /\ Len(Tr) = 3 /\ Tr[3] \in KemKeys
    BY <1>1, ReplyReady
<1>4. /\ Reply(Tr) \in Seq(Terms) /\ Len(Reply(Tr)) = 5
      /\ Reply(Tr)[4] = Share("responder") /\ Reply(Tr)[5] = Ciphertext(Tr[3])
      /\ \A i \in 1..3 : Reply(Tr)[i] = Tr[i]
    BY <1>3, ReplyFacts
<1>5. Tr' = Reply(Tr) /\ Ti' = Ti /\ \A q \in Parties : q # p => transcript'[q] = transcript[q]
    BY <1>1, <1>2 DEF HalvesOK, Tr, Ti
<1>6. Len(Tr') = 5 /\ Tr'[4] = Share("responder") /\ Tr'[5] = Ciphertext(Tr'[3])
      /\ Tr'[1] = Tr[1] /\ Tr'[2] = Tr[2] /\ Tr'[3] = Tr[3]
    BY <1>4, <1>5
<1>7. Grown
    <2>1. transcript' \in [Parties -> Seq(Terms)]
        BY <1>1, <1>2, <1>4 DEF HalvesOK
    <2>2. ASSUME NEW q \in Parties
          PROVE  /\ Len(transcript'[q]) >= Len(transcript[q])
                 /\ \A i \in 1..Len(transcript[q]) : transcript'[q][i] = transcript[q][i]
        <3>1. CASE q = p
            BY <1>3, <1>4, <1>5, <3>1 DEF Tr
        <3>2. CASE q # p
            BY <1>2, <1>5, <3>2, LenProperties DEF HalvesOK
        <3> QED
            BY <3>1, <3>2
    <2> QED
        BY <1>1, <1>2, <2>1, <2>2 DEF Grown, HalvesOK
<1>8. OwnFields'
    <2>1. /\ Len(Ti') >= 3 /\ Ti'[1] \in Levels /\ Ti'[1] >= CRYPTO_FLOOR
          /\ Ti'[2] = Share("initiator") /\ Ti'[3] = KemKey(Ti'[1])
        BY <1>2, <1>5 DEF OwnFields
    <2>2. Tr'[3].alg = level_to_alg(Tr'[1])
        BY <1>2, <1>3, <1>6 DEF OwnFields
    <2> QED
        BY <1>6, <2>1, <2>2 DEF OwnFields
<1>9. HonestSoFar'
    <2>1. SUFFICES ASSUME alterations' = 0 PROVE HonestSoFar'
        BY DEF HonestSoFar
    <2>2. \A i \in 1..3 : Tr'[i] = Tr[i] /\ Tr[i] = Ti[i]
        BY <1>1, <1>2, <1>3, <1>4, <1>5, <2>1 DEF HonestSoFar
    <2>3. /\ Len(Ti) >= 4 => Ti[4] = Share("responder")
          /\ Len(Ti) >= 5 => Ti[5] = Ciphertext(Tr[3])
        BY <1>1, <1>2, <2>1 DEF HonestSoFar
    <2> QED
        BY <1>5, <1>6, <2>2, <2>3 DEF HonestSoFar
<1>10. \A q \in Parties : Carried(q) \subseteq Carried(q)'
    BY <1>1, <1>2, <1>7, CarriedKept
<1>11. ReplyFlight(Tr) \in Seq(Carried("initiator")')
    <2>1. /\ Field("share", Share("responder")) \in Carried("initiator")
          /\ Field("kem", Ciphertext(Tr[3])) \in Carried("initiator")
        BY <1>3, ReplyFieldsCarried DEF Tr
    <2>2. /\ Field("share", Share("responder")) \in Carried("initiator")'
          /\ Field("kem", Ciphertext(Tr[3])) \in Carried("initiator")'
        BY <1>1, <1>10, <2>1
    <2>3. SignatureBlock("responder", Reply(Tr)) \in Blocks("responder")'
        <3>1. SubSeq(transcript'[p], 1, 5) = Reply(Tr)
            BY <1>4, <1>5, SubSeqFull DEF Tr
        <3>2. Signable(p)' = Reply(Tr)
            BY <3>1, PartyFacts DEF Signable
        <3>3. Len(transcript'[p]) >= Confirmed(Peer(p))
            BY <1>6, PartyFacts DEF Tr
        <3> QED
            BY <1>1, <3>2, <3>3 DEF SignatureBlock, Signed, Blocks, HasSigned
    <2>4. Field("signature", SignatureBlock("responder", Reply(Tr))) \in Carried("initiator")'
        <3>1. Field("signature", SignatureBlock("responder", Reply(Tr))) \in InFlight("initiator")'
            BY <2>3, FieldFormed, PartyFacts DEF InFlight
        <3> QED
            BY <3>1, FieldFormed DEF Carried, HonestField
    <2>5. ReplyFlight(Tr) = <<Field("share", Share("responder")), Field("kem", Ciphertext(Tr[3])),
                              Field("signature", SignatureBlock("responder", Reply(Tr)))>>
        BY <1>4 DEF ReplyFlight
    <2> QED
        BY <2>2, <2>4, <2>5
<1>12. WireOK'
    BY <1>1, <1>10, <1>11, WireChange DEF IInv
<1>13. at'[p] = "derive"
    BY <1>1, <1>2, MoveFacts
<1>14. PartyOK(p)'
    <2>1. IsTranscript(Tr) /\ Tr[1] >= CRYPTO_FLOOR
        <3>1. Len(<<>>) = 0
            OBVIOUS
        <3>2. Tr # <<>>
            BY <1>3, <3>1
        <3> QED
            BY <1>2, <3>2 DEF PartyOK, Tr
    <2>2. IsTranscript(Tr')
        BY <1>3, <1>6, <2>1, FieldFacts, PartyFacts DEF IsTranscript
    <2> QED
        BY <1>6, <1>13, <2>1, <2>2 DEF PartyOK, Length, Running, Tr
<1> HIDE DEF p
<1> QED
    BY <1>1, <1>2, <1>5, <1>7, <1>8, <1>9, <1>12, <1>14, GrowStep DEF Verified

--------------------------------------------------------------------------------
LEMMA NextIInv == IInv /\ [Next]_vars => IInv'
<1> SUFFICES ASSUME IInv, [Next]_vars PROVE IInv'
    OBVIOUS
<1>1. CASE SendOffer
    BY <1>1, SendOfferStep
<1>2. CASE ReadLevel
    BY <1>2, ReadLevelStep
<1>3. CASE SendReply
    BY <1>3, SendReplyStep
<1>4. ASSUME NEW p \in Parties, ReadShare(p) PROVE IInv'
    BY <1>4, ReadShareStep
<1>5. ASSUME NEW p \in Parties, ReadKem(p) PROVE IInv'
    BY <1>5, ReadKemStep
<1>6. ASSUME NEW p \in Parties, VerifyPeer(p) PROVE IInv'
    BY <1>6, VerifyPeerStep
<1>7. ASSUME NEW p \in Parties, Derive(p) PROVE IInv'
    BY <1>7, DeriveStep
<1>8. ASSUME NEW p \in Parties, StreamEnds(p) PROVE IInv'
    BY <1>8, StreamEndsStep
<1>9. ASSUME NEW p \in Parties, CloseAfterFailure(p) PROVE IInv'
    BY <1>9, CloseStep
<1>10. ASSUME NEW p \in Parties, CallFails(p) PROVE IInv'
    BY <1>10, CallFailsStep
<1>11. ASSUME NEW p \in Parties, AlterField(p) PROVE IInv'
    BY <1>11, AlterFieldStep
<1>12. CASE AssociationLost
    BY <1>12, AssociationLostStep
<1>13. CASE UNCHANGED vars
    <2>1. UNCHANGED <<at, transcript, wire, auth, closed, lost, broken, alterations>>
        BY <1>13 DEF vars
    <2>2. RestOK'
        BY <2>1, TypeParts DEF IInv, RestOK
    <2>3. WireOK'
        BY <2>1, StillCarried, WireSame DEF IInv
    <2> QED
        BY <2>1, <2>2, <2>3, IdleStep
<1> QED
    BY <1>1, <1>2, <1>3, <1>4, <1>5, <1>6, <1>7, <1>8, <1>9, <1>10, <1>11, <1>12, <1>13
    DEF Next, PartyStep

\* The inductive invariant holds throughout.
THEOREM Invariance == Spec => []IInv
<1>1. Init => IInv
    BY InitIInv
<1>2. IInv /\ [Next]_vars => IInv'
    BY NextIInv
<1> QED
    BY <1>1, <1>2, PTL DEF Spec

\* The variables keep their types; a transcript has the length and the fields its party's
\* place in the handshake calls for, and a party that goes on is at the floor or above
\* (pqc_handshake.c, pqc_handshake_initiator and pqc_handshake_responder).
THEOREM TypeCorrect == Spec => []TypeOK
<1>1. IInv => TypeOK
    BY DEF IInv
<1> QED
    BY <1>1, Invariance, PTL

\* A side that requires a signature and returns 0 has talked to the peer it pinned, and
\* both have the same transcript (pqc_handshake.c, recv_and_verify): however many fields
\* are altered on the way, and whatever is cut short or misread.
THEOREM Authenticated == Spec => []AuthenticatedAgreement
<1>1. IInv => AuthenticatedAgreement
    BY DEF IInv, VerifiedAgree, Agreed, AuthenticatedAgreement
<1> QED
    BY <1>1, Invariance, PTL

\* What both sides hold when both have returned 0.
LEMMA DoneFacts ==
    ASSUME IInv, BothDone
    PROVE  /\ Ti \in Seq(Terms) /\ Len(Ti) = 5 /\ Tr \in Seq(Terms) /\ Len(Tr) = 5
           /\ Ti[1] \in Levels /\ Ti[1] >= CRYPTO_FLOOR
           /\ Ti[2] = Share("initiator") /\ Ti[3] = KemKey(Ti[1])
           /\ Tr[1] \in LevelBytes /\ Tr[3] \in KemKeys /\ Tr[3].alg = level_to_alg(Tr[1])
           /\ Tr[4] = Share("responder") /\ Tr[5] = Ciphertext(Tr[3])
<1>1. /\ at["initiator"] = "done" /\ at["responder"] = "done"
      /\ PartyOK("initiator") /\ PartyOK("responder") /\ HalvesOK /\ OwnFields
    BY TypeParts, PartyFacts DEF IInv, BothDone
<1>2. Len(Ti) = 5 /\ Len(Tr) = 5 /\ IsTranscript(Tr)
    BY <1>1 DEF PartyOK, Length, Ti, Tr
<1>3. Ti \in Seq(Terms) /\ Tr \in Seq(Terms)
    BY <1>1, PartyFacts DEF HalvesOK, Ti, Tr
<1> QED
    BY <1>1, <1>2, <1>3 DEF OwnFields, IsTranscript

LEMMA SameKeyWhenAgreed ==
    ASSUME IInv, BothDone, Tr[2] = Ti[2], Tr[3] = Ti[3], Ti[4] = Tr[4], Ti[5] = Tr[5]
    PROVE  SameKey
<1>1. Tr[3] \in KemKeys /\ Tr[5] = Ciphertext(Tr[3])
    BY DoneFacts
<1>2. Ti[5].intact /\ Ti[5].to = Ti[3]
    BY <1>1, FieldFacts
<1>3. KemSecret("initiator", Ti) = [of |-> "encapsulation", to |-> Ti[3]]
    BY <1>2 DEF KemSecret
<1>4. KemSecret("responder", Tr) = [of |-> "encapsulation", to |-> Tr[3]]
    BY DEF KemSecret
<1> QED
    BY <1>3, <1>4 DEF SameKey, SessionKey, Ti, Tr

\* When both sides return 0, the initiator having verified a signature or nothing having
\* been altered, they hold the same AES key (pqc_handshake.c, hkdf_derive).
THEOREM KeysAgree == Spec => []KeyAgreement
<1>1. IInv => KeyAgreement
    <2>1. SUFFICES ASSUME IInv, BothDone, auth["initiator"] # "disabled" \/ alterations = 0
                   PROVE  SameKey
        BY DEF KeyAgreement
    <2>2. /\ Ti \in Seq(Terms) /\ Len(Ti) = 5 /\ Tr \in Seq(Terms) /\ Len(Tr) = 5
          /\ Tr[4] = Share("responder") /\ Tr[5] = Ciphertext(Tr[3])
        BY <2>1, DoneFacts
    <2>3. CASE auth["initiator"] # "disabled"
        <3>1. Agreed("initiator")
            BY <2>1, <2>3, PartyFacts DEF IInv, VerifiedAgree, BothDone
        <3>2. SubSeq(Tr, 1, 5) = SubSeq(Ti, 1, 5)
            BY <3>1, PartyFacts DEF Agreed, Ti, Tr
        <3>3. Tr = Ti
            <4>1. SubSeq(Tr, 1, 5) = Tr
                BY <2>2, SubSeqFull
            <4>2. SubSeq(Ti, 1, 5) = Ti
                BY <2>2, SubSeqFull
            <4> QED
                BY <3>2, <4>1, <4>2
        <3> QED
            BY <2>1, <3>3, SameKeyWhenAgreed
    <2>4. CASE alterations = 0
        <3>1. /\ Tr[2] = Ti[2] /\ Tr[3] = Ti[3]
              /\ Ti[4] = Share("responder") /\ Ti[5] = Ciphertext(Tr[3])
            BY <2>1, <2>2, <2>4 DEF IInv, HonestSoFar
        <3> QED
            BY <2>1, <2>2, <3>1, SameKeyWhenAgreed
    <2> QED
        BY <2>1, <2>3, <2>4
<1> QED
    BY <1>1, Invariance, PTL

\* Two sides that end up with one key have it at the level the initiator's policy selected
\* and at the floor or above (crypto_policy.c, select_kem; pqc_handshake.c, the floor check
\* of the responder), with or without signatures, although the level byte itself does not
\* enter the key.
THEOREM KeysAtOneLevel == Spec => []SameKeySameLevel
<1>1. IInv => SameKeySameLevel
    <2>1. SUFFICES ASSUME IInv, BothDone, SameKey
                   PROVE  /\ Tr[1] = Ti[1]
                          /\ level_to_alg(Tr[1]) >= CRYPTO_FLOOR
        BY DEF SameKeySameLevel, Ti, Tr
    <2>2. /\ Ti[1] \in Levels /\ Ti[1] >= CRYPTO_FLOOR /\ Ti[3] = KemKey(Ti[1])
          /\ Tr[1] \in LevelBytes /\ Tr[3].alg = level_to_alg(Tr[1])
        BY <2>1, DoneFacts
    <2>3. Ti[3] = Tr[3]
        <3>1. KemSecret("initiator", Ti) = KemSecret("responder", Tr)
            BY <2>1 DEF SameKey, SessionKey, Ti, Tr
        <3>2. KemSecret("initiator", Ti).to = Ti[3] /\ KemSecret("responder", Tr).to = Tr[3]
            BY DEF KemSecret
        <3> QED
            BY <3>1, <3>2
    <2>4. level_to_alg(Ti[1]) = level_to_alg(Tr[1]) /\ level_to_alg(Ti[1]) = Ti[1]
        <3>1. Ti[1] \in LevelBytes
            BY <2>2 DEF LevelBytes
        <3>2. KemKey(Ti[1]).alg = level_to_alg(Ti[1])
            BY <3>1, FieldFacts
        <3> QED
            BY <2>2, <2>3, <3>2, LevelFacts
    <2> QED
        BY <2>2, <2>4, LevelFacts DEF level_to_alg, ML_KEM_512
<1> QED
    BY <1>1, Invariance, PTL

================================================================================
