------------------------------ MODULE MetricsProofs ------------------------------
(***************************************************************************)
(* Theorems about Metrics, for any number of sessions, any size of the two *)
(* windows and any bound on the clock and the messages.                    *)
(***************************************************************************)
EXTENDS Metrics, SequenceTheorems, WellFoundedInduction, TLAPS

\* The entries of a ring of n slots, oldest first: filled slots before the head.
Slot(h, f, i, n) == (h - f + i + n) % n
Ring(b, h, f, n) == [i \in 1..f |-> b[Slot(h, f, i - 1, n)]]

Buffers(S, n) == [0..n - 1 -> S]

\* The last n elements of a sequence.
LastOf(q, n) == IF Len(q) > n THEN SubSeq(q, Len(q) - n + 1, Len(q)) ELSE q

LossRecent == [i \in 1..loss_filled |-> LossEntry(i - 1)]
PacketRecent == [i \in 1..win_count |-> PacketEntry(i - 1)]

\* No stamp is later than the clock.
StampsPassed == \A s \in Sessions : t[s] <= clock

\* As long as no packet was overtaken, the stamps in the window are in order, and none is
\* later than a stamp that is still to be recorded, or than the clock.
StampsOrdered ==
    ~overtaken =>
        /\ \A i, j \in 1..win_count : i < j => PacketRecent[i] <= PacketRecent[j]
        /\ \A i \in 1..win_count : PacketRecent[i] <= clock
        /\ \A i \in 1..win_count, s \in Sessions : t[s] # NoStamp => PacketRecent[i] <= t[s]

IInv == TypeOK /\ StampsPassed /\ StampsOrdered

--------------------------------------------------------------------------------
\* Arithmetic in a ring of n slots.
LEMMA Wraps ==
    ASSUME NEW n \in Nat \ {0}, NEW x \in 0..2 * n - 1
    PROVE  x % n = IF x < n THEN x ELSE x - n
<1>1. CASE x < n
    <2>1. x \in 0..n - 1
        BY <1>1
    <2> QED
        BY <1>1, <2>1
<1>2. CASE x >= n
    <2>1. x \in n..(2 * n - 1)
        BY <1>2
    <2> QED
        BY <1>2, <2>1
<1> QED
    BY <1>1, <1>2

LEMMA NextSlotOf ==
    ASSUME NEW n \in Nat \ {0}, NEW h \in 0..n - 1
    PROVE  (h + 1) % n = (IF h = n - 1 THEN 0 ELSE h + 1) /\ (h + 1) % n \in 0..n - 1
<1>1. PICK x \in 0..2 * n - 1 : x = h + 1
    OBVIOUS
<1>2. x % n = IF x < n THEN x ELSE x - n
    BY Wraps
<1>3. (x < n <=> h # n - 1) /\ (h = n - 1 => x - n = 0)
    BY <1>1
<1> QED
    BY <1>1, <1>2, <1>3

LEMMA SlotFacts ==
    ASSUME NEW n \in Nat \ {0}, NEW h \in 0..n - 1, NEW f \in 0..n, NEW i \in 0..f,
           i < n
    PROVE  /\ Slot(h, f, i, n) = IF h + i < f THEN h + i - f + n ELSE h + i - f
           /\ Slot(h, f, i, n) \in 0..n - 1
<1> DEFINE x == h - f + i + n
<1>1. x \in 0..2 * n - 1
    OBVIOUS
<1>2. x % n = IF x < n THEN x ELSE x - n
    BY <1>1, Wraps
<1>3. Slot(h, f, i, n) = x % n
    BY DEF Slot
<1>4. x < n <=> h + i < f
    OBVIOUS
<1>5. x - n = h + i - f /\ x = h + i - f + n
    OBVIOUS
<1> HIDE DEF x
<1>6. Slot(h, f, i, n) = IF h + i < f THEN h + i - f + n ELSE h + i - f
    BY <1>2, <1>3, <1>4, <1>5
<1> QED
    BY <1>6

\* The entries stand in slots of the ring.
LEMMA RingFacts ==
    ASSUME NEW S, NEW n \in Nat \ {0}, NEW b \in Buffers(S, n), NEW h \in 0..n - 1,
           NEW f \in 0..n
    PROVE  /\ Ring(b, h, f, n) \in Seq(S) /\ Len(Ring(b, h, f, n)) = f
           /\ \A i \in 1..f : Ring(b, h, f, n)[i] = b[Slot(h, f, i - 1, n)]
<1>1. \A i \in 1..f : Slot(h, f, i - 1, n) \in 0..n - 1
    BY SlotFacts
<1>2. Ring(b, h, f, n) \in [1..f -> S]
    BY <1>1 DEF Ring, Buffers
<1>3. f \in Nat
    OBVIOUS
<1>4. Ring(b, h, f, n) \in Seq(S) /\ Len(Ring(b, h, f, n)) = f
    BY <1>2, <1>3
<1> QED
    BY <1>4 DEF Ring

\* A window that is not full keeps its slots and fills the next.
LEMMA SlotsKept ==
    ASSUME NEW n \in Nat \ {0}, NEW h \in 0..n - 1, NEW f \in 0..n - 1, NEW i \in 0..f
    PROVE  /\ Slot((h + 1) % n, f + 1, i, n) = Slot(h, f, i, n)
           /\ Slot(h, f, i, n) = h <=> i = f
<1> DEFINE g == (h + 1) % n
<1>1. g = (IF h = n - 1 THEN 0 ELSE h + 1) /\ g \in 0..n - 1
    BY NextSlotOf
<1> HIDE DEF g
<1>2. f \in 0..n /\ f + 1 \in 0..n /\ i \in 0..f + 1 /\ i < n
    OBVIOUS
<1>3. Slot(h, f, i, n) = IF h + i < f THEN h + i - f + n ELSE h + i - f
    BY <1>2, SlotFacts
<1>4. Slot(g, f + 1, i, n) = IF g + i < f + 1 THEN g + i - (f + 1) + n ELSE g + i - (f + 1)
    BY <1>1, <1>2, SlotFacts
<1>5. CASE h = n - 1
    BY <1>1, <1>3, <1>4, <1>5
<1>6. CASE h # n - 1
    BY <1>1, <1>3, <1>4, <1>6
<1>7. Slot(h, f, i, n) = h <=> i = f
    BY <1>3
<1> QED
    BY <1>5, <1>6, <1>7 DEF g

\* A full window drops its oldest entry: every other moves up by one.
LEMMA SlotsMoved ==
    ASSUME NEW n \in Nat \ {0}, NEW h \in 0..n - 1, NEW i \in 0..n - 1
    PROVE  /\ i < n - 1 => Slot((h + 1) % n, n, i, n) = Slot(h, n, i + 1, n)
                           /\ Slot(h, n, i + 1, n) # h
           /\ i = n - 1 => Slot((h + 1) % n, n, i, n) = h
<1> DEFINE g == (h + 1) % n
<1>1. g = (IF h = n - 1 THEN 0 ELSE h + 1) /\ g \in 0..n - 1
    BY NextSlotOf
<1> HIDE DEF g
<1>2. n \in 0..n /\ i \in 0..n /\ i < n
    OBVIOUS
<1>3. Slot(g, n, i, n) = IF g + i < n THEN g + i - n + n ELSE g + i - n
    BY <1>1, <1>2, SlotFacts
<1>4. ASSUME i < n - 1
      PROVE  Slot(h, n, i + 1, n) = IF h + (i + 1) < n THEN h + (i + 1) - n + n ELSE h + (i + 1) - n
    <2>1. PICK j \in 0..n : j = i + 1 /\ j < n
        BY <1>4
    <2>2. Slot(h, n, j, n) = IF h + j < n THEN h + j - n + n ELSE h + j - n
        BY <1>2, <2>1, SlotFacts, ZenonT(40)
    <2> QED
        BY <2>1, <2>2, Zenon
<1>5. ASSUME i < n - 1 PROVE Slot(g, n, i, n) = Slot(h, n, i + 1, n) /\ Slot(h, n, i + 1, n) # h
    BY <1>1, <1>3, <1>4, <1>5
<1>6. ASSUME i = n - 1 PROVE Slot(g, n, i, n) = h
    BY <1>1, <1>3, <1>6
<1> QED
    BY <1>5, <1>6 DEF g

\* Recording an entry in a ring is appending it to what the ring holds, and keeping the last.
LEMMA RingRecords ==
    ASSUME NEW S, NEW n \in Nat \ {0}, NEW b \in Buffers(S, n), NEW h \in 0..n - 1,
           NEW f \in 0..n, NEW e \in S
    PROVE  Ring([b EXCEPT ![h] = e], (h + 1) % n, IF f < n THEN f + 1 ELSE f, n)
               = LastOf(Append(Ring(b, h, f, n), e), n)
<1> DEFINE r == Ring(b, h, f, n)
           q == Append(r, e)
           c == [b EXCEPT ![h] = e]
           g == (h + 1) % n
<1>1. /\ r \in Seq(S) /\ Len(r) = f
      /\ \A i \in 1..f : r[i] = b[Slot(h, f, i - 1, n)]
    BY RingFacts
<1> HIDE DEF r
<1>2. /\ q \in Seq(S) /\ Len(q) = f + 1 /\ q[f + 1] = e
      /\ \A i \in 1..f : q[i] = r[i]
    BY <1>1, AppendProperties
<1>3. c \in Buffers(S, n) /\ c[h] = e /\ \A j \in 0..n - 1 : j # h => c[j] = b[j]
    BY DEF Buffers
<1>4. g \in 0..n - 1
    BY NextSlotOf
<1> HIDE DEF q, c, g
<1>5. CASE f < n
    <2>1. f + 1 \in 0..n /\ f \in 0..n - 1
        BY <1>5
    <2>2. /\ Ring(c, g, f + 1, n) \in Seq(S) /\ Len(Ring(c, g, f + 1, n)) = f + 1
          /\ \A i \in 1..f + 1 : Ring(c, g, f + 1, n)[i] = c[Slot(g, f + 1, i - 1, n)]
        <3>1. PICK l \in 0..n : l = f + 1
            BY <2>1
        <3>2. /\ Ring(c, g, l, n) \in Seq(S) /\ Len(Ring(c, g, l, n)) = l
              /\ \A i \in 1..l : Ring(c, g, l, n)[i] = c[Slot(g, l, i - 1, n)]
            BY <1>3, <1>4, RingFacts, ZenonT(40)
        <3> QED
            BY <3>1, <3>2, Zenon
    <2>3. ASSUME NEW i \in 1..f + 1 PROVE c[Slot(g, f + 1, i - 1, n)] = q[i]
        <3>1. PICK k \in 0..f : k = i - 1
            OBVIOUS
        <3>2. /\ Slot(g, f + 1, k, n) = Slot(h, f, k, n)
              /\ Slot(h, f, k, n) = h <=> k = f
            BY <2>1, SlotsKept DEF g
        <3>3. CASE k = f
            <4>1. i = f + 1
                BY <3>1, <3>3
            <4> QED
                BY <1>2, <1>3, <3>1, <3>2, <3>3, <4>1
        <3>4. CASE k # f
            <4>1. i \in 1..f
                BY <3>1, <3>4
            <4>2. k \in 0..f /\ k < n
                BY <1>5
            <4>3. Slot(h, f, k, n) \in 0..n - 1
                BY <4>2, SlotFacts
            <4> QED
                BY <1>1, <1>2, <1>3, <3>1, <3>2, <3>4, <4>1, <4>3
        <3> QED
            BY <3>3, <3>4
    <2>4. Ring(c, g, f + 1, n) = q
        BY <1>2, <2>2, <2>3, SeqEqual
    <2>5. LastOf(q, n) = q
        BY <1>2, <1>5 DEF LastOf
    <2>6. (IF f < n THEN f + 1 ELSE f) = f + 1
        BY <1>5
    <2>7. Ring(c, g, IF f < n THEN f + 1 ELSE f, n) = LastOf(q, n)
        BY <2>4, <2>5, <2>6
    <2> QED
        BY <2>7 DEF c, g, q, r
<1>6. CASE f = n
    <2>1. /\ Ring(c, g, n, n) \in Seq(S) /\ Len(Ring(c, g, n, n)) = n
          /\ \A i \in 1..n : Ring(c, g, n, n)[i] = c[Slot(g, n, i - 1, n)]
        <3>1. n \in 0..n
            OBVIOUS
        <3> QED
            BY <1>3, <1>4, <3>1, RingFacts
    <2>2. LastOf(q, n) = SubSeq(q, 2, n + 1)
        <3>1. Len(q) = n + 1 /\ Len(q) > n /\ Len(q) - n + 1 = 2
            BY <1>2, <1>6
        <3> QED
            BY <3>1 DEF LastOf
    <2>3. /\ SubSeq(q, 2, n + 1) \in Seq(S) /\ Len(SubSeq(q, 2, n + 1)) = n
          /\ \A i \in 1..n : SubSeq(q, 2, n + 1)[i] = q[i + 1]
        <3>1. \A i \in 2..n + 1 : q[i] \in S
            BY <1>2, <1>6, ElementOfSeq
        <3>2. /\ SubSeq(q, 2, n + 1) \in Seq(S)
              /\ Len(SubSeq(q, 2, n + 1)) = IF 2 <= n + 1 THEN (n + 1) - 2 + 1 ELSE 0
              /\ \A i \in 1..(n + 1) - 2 + 1 : SubSeq(q, 2, n + 1)[i] = q[2 + i - 1]
            BY <3>1, SubSeqProperties
        <3>3. (n + 1) - 2 + 1 = n /\ 2 <= n + 1 /\ \A i \in 1..n : 2 + i - 1 = i + 1
            OBVIOUS
        <3> QED
            BY <3>2, <3>3
    <2>4. ASSUME NEW i \in 1..n PROVE c[Slot(g, n, i - 1, n)] = q[i + 1]
        <3>1. PICK k \in 0..n - 1 : k = i - 1
            OBVIOUS
        <3>2. /\ k < n - 1 => Slot(g, n, k, n) = Slot(h, n, k + 1, n)
                              /\ Slot(h, n, k + 1, n) # h
              /\ k = n - 1 => Slot(g, n, k, n) = h
            BY SlotsMoved DEF g
        <3>3. CASE k = n - 1
            <4>1. i + 1 = f + 1
                BY <1>6, <3>1, <3>3
            <4> QED
                BY <1>2, <1>3, <3>1, <3>2, <3>3, <4>1
        <3>4. CASE k < n - 1
            <4>1. i + 1 \in 1..f /\ (i + 1) - 1 = k + 1 /\ k + 1 \in 0..n /\ k + 1 < n
                BY <1>6, <3>1, <3>4
            <4>2. Slot(h, n, k + 1, n) \in 0..n - 1
                <5>1. PICK j \in 0..n : j = k + 1 /\ j < n
                    BY <4>1
                <5>2. n \in 0..n
                    OBVIOUS
                <5>3. Slot(h, n, j, n) \in 0..n - 1
                    BY <5>1, <5>2, SlotFacts
                <5> QED
                    BY <5>1, <5>3
            <4>3. q[i + 1] = b[Slot(h, n, k + 1, n)]
                BY <1>1, <1>2, <1>6, <4>1
            <4> QED
                BY <1>3, <3>1, <3>2, <3>4, <4>2, <4>3
        <3> QED
            BY <3>3, <3>4
    <2>5. Ring(c, g, n, n) = SubSeq(q, 2, n + 1)
        BY <2>1, <2>3, <2>4, SeqEqual
    <2>6. (IF f < n THEN f + 1 ELSE f) = n
        BY <1>6
    <2>7. Ring(c, g, IF f < n THEN f + 1 ELSE f, n) = LastOf(q, n)
        BY <2>2, <2>5, <2>6
    <2> QED
        BY <2>7 DEF c, g, q, r
<1> QED
    BY <1>5, <1>6

--------------------------------------------------------------------------------
\* The two windows as rings.
LEMMA LossIsRing == LossRecent = Ring(loss_buf, loss_head, loss_filled, LOSS_WINDOW)
BY DEF LossRecent, LossEntry, Ring, Slot

\* The loop starts at the oldest slot, which is itself reduced to the ring.
LEMMA SlotFromStart ==
    ASSUME NEW n \in Nat \ {0}, NEW h \in 0..n - 1, NEW f \in 0..n, NEW i \in 0..f - 1
    PROVE  (((h - f + n) % n) + i) % n = Slot(h, f, i, n)
<1>1. PICK x \in 0..2 * n - 1 : x = h - f + n
    OBVIOUS
<1>2. x % n = IF x < n THEN x ELSE x - n
    BY Wraps
<1>3. PICK start \in 0..n - 1 : start = x % n /\ start = IF x < n THEN x ELSE x - n
    BY <1>2
<1>4. PICK y \in 0..2 * n - 1 : y = start + i
    OBVIOUS
<1>5. y % n = IF y < n THEN y ELSE y - n
    BY Wraps
<1>6. i \in 0..f /\ i < n
    OBVIOUS
<1>7. Slot(h, f, i, n) = IF h + i < f THEN h + i - f + n ELSE h + i - f
    BY <1>6, SlotFacts
<1>8. (IF y < n THEN y ELSE y - n) = IF h + i < f THEN h + i - f + n ELSE h + i - f
    BY <1>1, <1>3, <1>4
<1> QED
    BY <1>1, <1>3, <1>4, <1>5, <1>7, <1>8

LEMMA PacketIsRing ==
    ASSUME TypeOK
    PROVE  PacketRecent = Ring(win_ts, win_head, win_count, FEATURE_WINDOW)
<1>1. /\ FEATURE_WINDOW \in Nat \ {0} /\ win_head \in 0..FEATURE_WINDOW - 1
      /\ win_count \in 0..FEATURE_WINDOW
    BY WindowsAssumption DEF TypeOK
<1>2. ASSUME NEW i \in 1..win_count
      PROVE  PacketEntry(i - 1) = win_ts[Slot(win_head, win_count, i - 1, FEATURE_WINDOW)]
    <2>1. PICK j \in 0..win_count - 1 : j = i - 1
        BY <1>1
    <2>2. (Start + j) % FEATURE_WINDOW = Slot(win_head, win_count, j, FEATURE_WINDOW)
        BY <1>1, SlotFromStart DEF Start
    <2> QED
        BY <2>1, <2>2 DEF PacketEntry
<1> QED
    BY <1>2 DEF PacketRecent, Ring

\* The windows hold entries of their types.
LEMMA LossFacts ==
    ASSUME TypeOK
    PROVE  LossRecent \in Seq({0, 1}) /\ Len(LossRecent) = loss_filled
<1>1. /\ LOSS_WINDOW \in Nat \ {0} /\ loss_buf \in Buffers({0, 1}, LOSS_WINDOW)
      /\ loss_head \in 0..LOSS_WINDOW - 1 /\ loss_filled \in 0..LOSS_WINDOW
    BY WindowsAssumption DEF TypeOK, Buffers
<1> QED
    BY <1>1, LossIsRing, RingFacts

LEMMA PacketFacts ==
    ASSUME TypeOK
    PROVE  /\ PacketRecent \in Seq(0..MaxTime) /\ Len(PacketRecent) = win_count
           /\ win_count \in Nat
           /\ \A i \in 1..win_count : PacketRecent[i] \in 0..MaxTime
<1>1. /\ FEATURE_WINDOW \in Nat \ {0} /\ win_ts \in Buffers(0..MaxTime, FEATURE_WINDOW)
      /\ win_head \in 0..FEATURE_WINDOW - 1 /\ win_count \in 0..FEATURE_WINDOW
    BY WindowsAssumption DEF TypeOK, Buffers
<1>2. PacketRecent \in Seq(0..MaxTime) /\ Len(PacketRecent) = win_count
    BY <1>1, PacketIsRing, RingFacts
<1>3. win_count \in Nat
    BY <1>1
<1>4. ASSUME NEW i \in 1..win_count PROVE PacketRecent[i] \in 0..MaxTime
    <2>1. PICK q \in Seq(0..MaxTime) : q = PacketRecent /\ Len(q) = win_count
        BY <1>2
    <2>2. q[i] \in 0..MaxTime
        BY <2>1, ElementOfSeq
    <2> QED
        BY <2>1, <2>2
<1> QED
    BY <1>2, <1>3, <1>4

--------------------------------------------------------------------------------
\* Type correctness, lock region by lock region.
LEMMA SendResultType ==
    ASSUME TypeOK, NEW e \in {0, 1}, record_send_result(e)
    PROVE  /\ loss_buf' \in [0..LOSS_WINDOW - 1 -> {0, 1}]
           /\ loss_head' \in 0..LOSS_WINDOW - 1 /\ loss_filled' \in 0..LOSS_WINDOW
<1>1. /\ LOSS_WINDOW \in Nat \ {0} /\ loss_buf \in [0..LOSS_WINDOW - 1 -> {0, 1}]
      /\ loss_head \in 0..LOSS_WINDOW - 1 /\ loss_filled \in 0..LOSS_WINDOW
    BY WindowsAssumption DEF TypeOK
<1>2. (loss_head + 1) % LOSS_WINDOW \in 0..LOSS_WINDOW - 1
    BY <1>1, NextSlotOf
<1> QED
    BY <1>1, <1>2 DEF record_send_result

LEMMA PushType ==
    ASSUME TypeOK, NEW e \in 0..MaxTime, PushPacket(e)
    PROVE  /\ win_ts' \in [0..FEATURE_WINDOW - 1 -> 0..MaxTime]
           /\ win_head' \in 0..FEATURE_WINDOW - 1 /\ win_count' \in 0..FEATURE_WINDOW
<1>1. /\ FEATURE_WINDOW \in Nat \ {0} /\ win_ts \in [0..FEATURE_WINDOW - 1 -> 0..MaxTime]
      /\ win_head \in 0..FEATURE_WINDOW - 1 /\ win_count \in 0..FEATURE_WINDOW
    BY WindowsAssumption DEF TypeOK
<1>2. (win_head + 1) % FEATURE_WINDOW \in 0..FEATURE_WINDOW - 1
    BY <1>1, NextSlotOf
<1> QED
    BY <1>1, <1>2 DEF PushPacket

LEMMA GotoFacts ==
    ASSUME TypeOK, NEW s \in Sessions, NEW place \in Places, Goto(s, place)
    PROVE  /\ at' \in [Sessions -> Places] /\ at'[s] = place
           /\ \A r \in Sessions : r # s => at'[r] = at[r]
BY DEF TypeOK, Goto

\* A step of a session that takes or gives back no stamp.
LEMMA StampsKeep ==
    ASSUME TypeOK, NEW s \in Sessions, NEW place \in Places, Goto(s, place),
           at[s] # "record", place # "record", UNCHANGED t
    PROVE  /\ at' \in [Sessions -> Places]
           /\ \A r \in Sessions : t'[r] # NoStamp <=> at'[r] = "record"
<1>1. /\ at' \in [Sessions -> Places] /\ at'[s] = place
      /\ \A r \in Sessions : r # s => at'[r] = at[r]
    BY GotoFacts
<1> QED
    BY <1>1 DEF TypeOK

\* The stamp of a session that records is a time.
LEMMA StampFacts ==
    ASSUME TypeOK, NEW s \in Sessions, at[s] = "record"
    PROVE  t[s] \in 0..MaxTime /\ t[s] # NoStamp
BY DEF TypeOK

LEMMA InitTypeOK == Init => TypeOK
<1> SUFFICES ASSUME Init PROVE TypeOK
    OBVIOUS
<1>1. 0 \in 0..MaxTime /\ 0 \in 0..MaxMessages /\ 0 \in 0..LOSS_WINDOW - 1 /\ 0 \in 0..LOSS_WINDOW
      /\ 0 \in 0..FEATURE_WINDOW - 1 /\ 0 \in 0..FEATURE_WINDOW
    BY WindowsAssumption, BoundsAssumption
<1> QED
    BY <1>1 DEF Init, TypeOK, Places, NoStamp, Latencies

LEMMA NextTypeOK == TypeOK /\ [Next]_vars => TypeOK'
<1> SUFFICES ASSUME TypeOK, [Next]_vars PROVE TypeOK'
    OBVIOUS
<1>0. {"recv", "record", "connect", "send", "finish", "done"} = Places
    BY DEF Places
<1>1. CASE Tick
    <2>1. clock' \in 0..MaxTime
        BY <1>1, BoundsAssumption DEF Tick, TypeOK
    <2> QED
        BY <1>1, <2>1 DEF Tick, TypeOK, lossVars, winVars, jitterVars
<1>2. ASSUME NEW s \in Sessions, Receive(s) PROVE TypeOK'
    <2>1. /\ at' \in [Sessions -> Places] /\ at'[s] = "record"
          /\ \A r \in Sessions : r # s => at'[r] = at[r]
        BY <1>0, <1>2, GotoFacts DEF Receive
    <2>2. messages' \in [Sessions -> 0..MaxMessages]
        <3>1. messages[s] + 1 \in 0..MaxMessages
            BY <1>2, BoundsAssumption DEF Receive, TypeOK
        <3> QED
            BY <1>2, <3>1 DEF Receive, TypeOK
    <2>3. t' \in [Sessions -> 0..MaxTime \cup {NoStamp}]
          /\ \A r \in Sessions : t'[r] # NoStamp <=> at'[r] = "record"
        <3>1. clock # NoStamp /\ clock \in 0..MaxTime
            BY BoundsAssumption DEF TypeOK, NoStamp
        <3>2. t'[s] = clock /\ \A r \in Sessions : r # s => t'[r] = t[r]
            BY <1>2 DEF Receive, TypeOK
        <3>3. t' \in [Sessions -> 0..MaxTime \cup {NoStamp}]
            BY <1>2, <3>1 DEF Receive, TypeOK
        <3> QED
            BY <2>1, <3>1, <3>2, <3>3 DEF TypeOK
    <2> QED
        BY <1>2, <2>1, <2>2, <2>3 DEF Receive, TypeOK, lossVars, winVars, jitterVars
<1>3. ASSUME NEW s \in Sessions, ClientCloses(s) PROVE TypeOK'
    <2>1. PICK place \in {"done", "finish"} : Goto(s, place)
        BY <1>3 DEF ClientCloses
    <2>2. /\ at' \in [Sessions -> Places]
          /\ \A r \in Sessions : t'[r] # NoStamp <=> at'[r] = "record"
        BY <1>0, <1>3, <2>1, StampsKeep DEF ClientCloses
    <2> QED
        BY <1>3, <2>2 DEF ClientCloses, TypeOK, lossVars, winVars, jitterVars
<1>4. ASSUME NEW s \in Sessions, record_packet(s) PROVE TypeOK'
    <2>1. PICK place \in {"connect", "send"} : Goto(s, place)
        BY <1>4 DEF record_packet
    <2>2. /\ at' \in [Sessions -> Places] /\ at'[s] = place
          /\ \A r \in Sessions : r # s => at'[r] = at[r]
        BY <1>0, <2>1, GotoFacts
    <2>3. t' \in [Sessions -> 0..MaxTime \cup {NoStamp}]
          /\ \A r \in Sessions : t'[r] # NoStamp <=> at'[r] = "record"
        <3>1. t'[s] = NoStamp /\ \A r \in Sessions : r # s => t'[r] = t[r]
            BY <1>4 DEF record_packet, TypeOK
        <3>2. t' \in [Sessions -> 0..MaxTime \cup {NoStamp}]
            BY <1>4 DEF record_packet, TypeOK
        <3> QED
            BY <2>1, <2>2, <3>1, <3>2 DEF TypeOK
    <2>4. /\ win_ts' \in [0..FEATURE_WINDOW - 1 -> 0..MaxTime]
          /\ win_head' \in 0..FEATURE_WINDOW - 1 /\ win_count' \in 0..FEATURE_WINDOW
        BY <1>4, StampFacts, PushType DEF record_packet
    <2>5. overtaken' \in BOOLEAN
        BY <1>4, Zenon DEF record_packet
    <2> QED
        BY <1>4, <2>2, <2>3, <2>4, <2>5 DEF record_packet, TypeOK, lossVars, jitterVars
<1>5. ASSUME NEW s \in Sessions, Connected(s) PROVE TypeOK'
    <2>1. /\ at' \in [Sessions -> Places]
          /\ \A r \in Sessions : t'[r] # NoStamp <=> at'[r] = "record"
        BY <1>0, <1>5, StampsKeep DEF Connected
    <2> QED
        BY <1>5, <2>1 DEF Connected, TypeOK, lossVars, winVars, jitterVars
<1>6. ASSUME NEW s \in Sessions, ConnectFails(s) PROVE TypeOK'
    <2>1. /\ at' \in [Sessions -> Places]
          /\ \A r \in Sessions : t'[r] # NoStamp <=> at'[r] = "record"
        BY <1>0, <1>6, StampsKeep DEF ConnectFails
    <2>2. /\ loss_buf' \in [0..LOSS_WINDOW - 1 -> {0, 1}]
          /\ loss_head' \in 0..LOSS_WINDOW - 1 /\ loss_filled' \in 0..LOSS_WINDOW
        BY <1>6, SendResultType DEF ConnectFails
    <2> QED
        BY <1>6, <2>1, <2>2 DEF ConnectFails, TypeOK, winVars, jitterVars
<1>7. ASSUME NEW s \in Sessions, Send(s) PROVE TypeOK'
    <2>1. PICK success \in {0, 1} :
              record_send_result(success) /\ Goto(s, IF success = 1 THEN "recv" ELSE "finish")
        BY <1>7 DEF Send
    <2>2. PICK place \in {"recv", "finish"} : Goto(s, place)
        BY <2>1
    <2>3. /\ at' \in [Sessions -> Places]
          /\ \A r \in Sessions : t'[r] # NoStamp <=> at'[r] = "record"
        BY <1>0, <1>7, <2>2, StampsKeep DEF Send
    <2>4. /\ loss_buf' \in [0..LOSS_WINDOW - 1 -> {0, 1}]
          /\ loss_head' \in 0..LOSS_WINDOW - 1 /\ loss_filled' \in 0..LOSS_WINDOW
        BY <2>1, SendResultType
    <2>5. UNCHANGED <<clock, t, messages, winVars, jitterVars>>
        BY <1>7 DEF Send
    <2> QED
        BY <2>3, <2>4, <2>5 DEF TypeOK, winVars, jitterVars
<1>8. ASSUME NEW s \in Sessions, Finish(s) PROVE TypeOK'
    <2>1. /\ at' \in [Sessions -> Places]
          /\ \A r \in Sessions : t'[r] # NoStamp <=> at'[r] = "record"
        BY <1>0, <1>8, StampsKeep DEF Finish
    <2> QED
        BY <1>8, <2>1 DEF Finish, TypeOK, lossVars, winVars
<1>9. CASE UNCHANGED vars
    BY <1>9 DEF vars, TypeOK, lossVars, winVars, jitterVars
<1> QED
    BY <1>1, <1>2, <1>3, <1>4, <1>5, <1>6, <1>7, <1>8, <1>9 DEF Next, SessionStep


--------------------------------------------------------------------------------
\* What the lock regions do to the windows, seen as sequences.
LEMMA NextLossIsRing ==
    LossRecent' = Ring(loss_buf', loss_head', loss_filled', LOSS_WINDOW)
BY DEF LossRecent, LossEntry, Ring, Slot

LEMMA NextPacketIsRing ==
    TypeOK' => PacketRecent' = Ring(win_ts', win_head', win_count', FEATURE_WINDOW)
<1>1. TypeOK => PacketRecent = Ring(win_ts, win_head, win_count, FEATURE_WINDOW)
    BY PacketIsRing
<1>2. (TypeOK => PacketRecent = Ring(win_ts, win_head, win_count, FEATURE_WINDOW))'
    BY <1>1, PTL
<1> QED
    BY <1>2

LEMMA NextPacketLength == TypeOK' => Len(PacketRecent') = win_count'
<1>1. TypeOK => Len(PacketRecent) = win_count
    BY PacketFacts
<1>2. (TypeOK => Len(PacketRecent) = win_count)'
    BY <1>1, PTL
<1> QED
    BY <1>2

LEMMA LossRecords ==
    ASSUME TypeOK, NEW e \in {0, 1}, record_send_result(e)
    PROVE  LossRecent' = LastOf(Append(LossRecent, e), LOSS_WINDOW)
<1>1. /\ LOSS_WINDOW \in Nat \ {0} /\ loss_buf \in Buffers({0, 1}, LOSS_WINDOW)
      /\ loss_head \in 0..LOSS_WINDOW - 1 /\ loss_filled \in 0..LOSS_WINDOW
    BY WindowsAssumption DEF TypeOK, Buffers
<1>2. Ring([loss_buf EXCEPT ![loss_head] = e], (loss_head + 1) % LOSS_WINDOW,
           IF loss_filled < LOSS_WINDOW THEN loss_filled + 1 ELSE loss_filled, LOSS_WINDOW)
          = LastOf(Append(Ring(loss_buf, loss_head, loss_filled, LOSS_WINDOW), e), LOSS_WINDOW)
    BY <1>1, RingRecords
<1>3. Ring(loss_buf', loss_head', loss_filled', LOSS_WINDOW)
          = LastOf(Append(Ring(loss_buf, loss_head, loss_filled, LOSS_WINDOW), e), LOSS_WINDOW)
    BY <1>2 DEF record_send_result
<1> QED
    BY <1>3, LossIsRing, NextLossIsRing

LEMMA PacketRecords ==
    ASSUME TypeOK, TypeOK', NEW e \in 0..MaxTime, PushPacket(e)
    PROVE  PacketRecent' = LastOf(Append(PacketRecent, e), FEATURE_WINDOW)
<1>0. PICK T : T = 0..MaxTime
    OBVIOUS
<1>1. /\ FEATURE_WINDOW \in Nat \ {0} /\ win_ts \in Buffers(T, FEATURE_WINDOW) /\ e \in T
      /\ win_head \in 0..FEATURE_WINDOW - 1 /\ win_count \in 0..FEATURE_WINDOW
    BY <1>0, WindowsAssumption DEF TypeOK, Buffers
<1>2. Ring([win_ts EXCEPT ![win_head] = e], (win_head + 1) % FEATURE_WINDOW,
           IF win_count < FEATURE_WINDOW THEN win_count + 1 ELSE win_count, FEATURE_WINDOW)
          = LastOf(Append(Ring(win_ts, win_head, win_count, FEATURE_WINDOW), e), FEATURE_WINDOW)
    BY <1>1, RingRecords
<1>3. Ring(win_ts', win_head', win_count', FEATURE_WINDOW)
          = LastOf(Append(Ring(win_ts, win_head, win_count, FEATURE_WINDOW), e), FEATURE_WINDOW)
    BY <1>2 DEF PushPacket
<1> QED
    BY <1>3, PacketIsRing, NextPacketIsRing

\* A step writes a window in one of its lock regions, or leaves it alone.
LEMMA LossSteps ==
    ASSUME [Next]_vars
    PROVE  UNCHANGED lossVars \/ \E e \in {0, 1} : record_send_result(e)
BY DEF Next, SessionStep, vars, Tick, Receive, ClientCloses, record_packet, Connected,
       ConnectFails, Send, Finish

LEMMA PacketSteps ==
    ASSUME [Next]_vars
    PROVE  UNCHANGED winVars \/ \E s \in Sessions : record_packet(s)
BY DEF Next, SessionStep, vars, Tick, Receive, ClientCloses, Connected,
       ConnectFails, Send, Finish

LEMMA SameLoss == ASSUME UNCHANGED lossVars PROVE UNCHANGED LossRecent
BY DEF lossVars, LossRecent, LossEntry

LEMMA SamePackets == ASSUME UNCHANGED winVars PROVE UNCHANGED PacketRecent /\ UNCHANGED win_count
BY DEF winVars, PacketRecent, PacketEntry, Start


--------------------------------------------------------------------------------
\* The stamps.
LEMMA LastOfFacts ==
    ASSUME NEW S, NEW q \in Seq(S), NEW n \in Nat \ {0}
    PROVE  \E d \in Nat : /\ LastOf(q, n) \in Seq(S) /\ Len(LastOf(q, n)) = Len(q) - d
                          /\ \A i \in 1..Len(q) - d : LastOf(q, n)[i] = q[i + d]
<1>1. PICK l \in Nat : l = Len(q)
    BY LenProperties
<1>2. CASE l > n
    <2>1. PICK d \in Nat : d = l - n
        BY <1>2
    <2>2. LastOf(q, n) = SubSeq(q, d + 1, l)
        BY <1>1, <1>2, <2>1 DEF LastOf
    <2>3. \A i \in d + 1..l : q[i] \in S
        BY <1>1, ElementOfSeq
    <2>4. /\ SubSeq(q, d + 1, l) \in Seq(S)
          /\ Len(SubSeq(q, d + 1, l)) = IF d + 1 <= l THEN l - (d + 1) + 1 ELSE 0
          /\ \A i \in 1..l - (d + 1) + 1 : SubSeq(q, d + 1, l)[i] = q[(d + 1) + i - 1]
        BY <2>3, SubSeqProperties
    <2>5. d + 1 <= l /\ l - (d + 1) + 1 = l - d
        BY <1>2, <2>1
    <2>6. \A i \in 1..l - d : (d + 1) + i - 1 = i + d
        OBVIOUS
    <2> QED
        BY <1>1, <2>2, <2>4, <2>5, <2>6
<1>3. CASE ~(l > n)
    <2>1. LastOf(q, n) = q
        BY <1>1, <1>3 DEF LastOf
    <2>2. l - 0 = l /\ \A i \in 1..l : i + 0 = i
        OBVIOUS
    <2>3. /\ LastOf(q, n) \in Seq(S) /\ Len(LastOf(q, n)) = Len(q) - 0
          /\ \A i \in 1..Len(q) - 0 : LastOf(q, n)[i] = q[i + 0]
        BY <1>1, <2>1, <2>2
    <2> QED
        BY <2>3
<1> QED
    BY <1>2, <1>3

\* A step that records nothing: the clock does not go back, and a new stamp is the clock.
LEMMA StampSteps ==
    ASSUME TypeOK, [Next]_vars
    PROVE  /\ clock' \in 0..MaxTime /\ clock <= clock'
           /\ \A s \in Sessions : t'[s] # NoStamp =>
                 t'[s] = clock' \/ (t[s] # NoStamp /\ t'[s] = t[s])
<1>1. clock' \in 0..MaxTime
    BY NextTypeOK DEF TypeOK
<1>2. clock <= clock'
    <2>1. clock \in 0..MaxTime
        BY DEF TypeOK
    <2>2. clock' = clock \/ clock' = clock + 1
        BY DEF Next, SessionStep, vars, Tick, Receive, ClientCloses, record_packet, Connected,
               ConnectFails, Send, Finish
    <2> QED
        BY <2>1, <2>2
<1>3. ASSUME NEW s \in Sessions, t'[s] # NoStamp
      PROVE  t'[s] = clock' \/ (t[s] # NoStamp /\ t'[s] = t[s])
    <2>1. CASE UNCHANGED t
        BY <1>3, <2>1
    <2>2. ASSUME NEW r \in Sessions, Receive(r)
          PROVE  t'[s] = clock' \/ (t[s] # NoStamp /\ t'[s] = t[s])
        BY <1>3, <2>2 DEF Receive, TypeOK
    <2>3. ASSUME NEW r \in Sessions, record_packet(r)
          PROVE  t'[s] = clock' \/ (t[s] # NoStamp /\ t'[s] = t[s])
        BY <1>3, <2>3 DEF record_packet, TypeOK
    <2> QED
        BY <2>1, <2>2, <2>3 DEF Next, SessionStep, vars, Tick, ClientCloses, Connected,
               ConnectFails, Send, Finish
<1> QED
    BY <1>1, <1>2, <1>3

LEMMA NextStampsPassed ==
    ASSUME TypeOK, StampsPassed, [Next]_vars
    PROVE  StampsPassed'
<1> SUFFICES ASSUME NEW s \in Sessions PROVE t'[s] <= clock'
    BY DEF StampsPassed
<1>1. /\ clock \in 0..MaxTime /\ t[s] \in 0..MaxTime \cup {NoStamp} /\ t[s] <= clock
      /\ t'[s] \in 0..MaxTime \cup {NoStamp}
    BY NextTypeOK DEF TypeOK, StampsPassed
<1>2. /\ clock' \in 0..MaxTime /\ clock <= clock'
      /\ t'[s] # NoStamp => t'[s] = clock' \/ t'[s] = t[s]
    BY StampSteps
<1> QED
    BY <1>1, <1>2, BoundsAssumption DEF NoStamp

\* A lock region of record_packet: the new entry is the last, and no entry or outstanding
\* stamp is out of order unless the stamp was overtaken.
LEMMA RecordOrdered ==
    ASSUME IInv, TypeOK', NEW s \in Sessions, record_packet(s)
    PROVE  StampsOrdered'
<1> SUFFICES ASSUME ~overtaken'
             PROVE  /\ \A i, j \in 1..win_count' : i < j => PacketRecent'[i] <= PacketRecent'[j]
                    /\ \A i \in 1..win_count' : PacketRecent'[i] <= clock'
                    /\ \A i \in 1..win_count', r \in Sessions :
                           t'[r] # NoStamp => PacketRecent'[i] <= t'[r]
    BY DEF StampsOrdered
<1>1. TypeOK /\ StampsPassed /\ StampsOrdered
    BY DEF IInv
<1>2. PICK e \in 0..MaxTime : e = t[s] /\ e # NoStamp /\ PushPacket(e)
    BY <1>1, StampFacts DEF record_packet
<1>3. ~overtaken /\ \A r \in Sessions : t[r] # NoStamp => ~(t[r] < e)
    BY <1>1, <1>2 DEF record_packet, TypeOK
<1>4. clock' = clock /\ \A r \in Sessions : t'[r] = IF r = s THEN NoStamp ELSE t[r]
    BY <1>1 DEF record_packet, TypeOK
<1>5. PICK p \in Seq(0..MaxTime) : /\ p = PacketRecent /\ Len(p) = win_count /\ win_count \in Nat
                                   /\ \A i \in 1..win_count : p[i] \in 0..MaxTime
    BY <1>1, PacketFacts
<1>6. /\ \A i, j \in 1..win_count : i < j => p[i] <= p[j]
      /\ \A i \in 1..win_count : p[i] <= clock /\ p[i] <= e
      /\ \A i \in 1..win_count, r \in Sessions : t[r] # NoStamp => p[i] <= t[r]
    BY <1>1, <1>2, <1>3, <1>5 DEF StampsOrdered
<1>7. PICK q \in Seq(0..MaxTime) : /\ q = Append(p, e) /\ Len(q) = win_count + 1
                                   /\ q[win_count + 1] = e
                                   /\ \A i \in 1..win_count : q[i] = p[i]
    <2>1. PICK T : T = 0..MaxTime
        OBVIOUS
    <2>2. p \in Seq(T) /\ e \in T
        BY <2>1
    <2>3. /\ Append(p, e) \in Seq(T) /\ Len(Append(p, e)) = Len(p) + 1
          /\ Append(p, e)[Len(p) + 1] = e
          /\ \A i \in 1..Len(p) : Append(p, e)[i] = p[i]
        BY <2>2, AppendProperties
    <2> QED
        BY <1>5, <2>1, <2>3
<1>8. PacketRecent' = LastOf(q, FEATURE_WINDOW)
    BY <1>1, <1>2, <1>5, <1>7, PacketRecords
<1>9. PICK d \in Nat : /\ Len(LastOf(q, FEATURE_WINDOW)) = Len(q) - d
                       /\ \A i \in 1..Len(q) - d : LastOf(q, FEATURE_WINDOW)[i] = q[i + d]
    <2>1. PICK T : T = 0..MaxTime
        OBVIOUS
    <2>2. q \in Seq(T)
        BY <2>1
    <2>4. PICK n \in Nat \ {0} : n = FEATURE_WINDOW
        BY WindowsAssumption
    <2>3. \E d \in Nat : /\ Len(LastOf(q, n)) = Len(q) - d
                        /\ \A i \in 1..Len(q) - d : LastOf(q, n)[i] = q[i + d]
        BY <2>2, LastOfFacts, ZenonT(40)
    <2> QED
        BY <2>3, <2>4
<1>10. PICK n \in Nat : n = win_count'
    BY DEF TypeOK
<1>11. Len(PacketRecent') = win_count'
    BY NextPacketLength
<1>12. n = win_count + 1 - d /\ \A i \in 1..n : PacketRecent'[i] = q[i + d]
    <2>1. Len(LastOf(q, FEATURE_WINDOW)) = n
        BY <1>8, <1>10, <1>11
    <2>2. n = win_count + 1 - d
        BY <1>5, <1>7, <1>9, <2>1
    <2>3. \A i \in 1..n : LastOf(q, FEATURE_WINDOW)[i] = q[i + d]
        <3>1. Len(q) - d = n
            BY <1>5, <1>7, <2>2
        <3> QED
            BY <1>9, <3>1
    <2> QED
        BY <1>8, <2>2, <2>3
<1>13. ASSUME NEW i \in 1..n
       PROVE  i + d \in 1..win_count \/ i + d = win_count + 1
    BY <1>5, <1>12
<1>14. \A i, j \in 1..n : i < j => PacketRecent'[i] <= PacketRecent'[j]
    <2> SUFFICES ASSUME NEW i \in 1..n, NEW j \in 1..n, i < j
                 PROVE  q[i + d] <= q[j + d]
        BY <1>12
    <2>1. i + d \in 1..win_count /\ i + d < j + d
        BY <1>5, <1>12
    <2>2. CASE j + d \in 1..win_count
        BY <1>6, <1>7, <2>1, <2>2
    <2>3. CASE j + d = win_count + 1
        BY <1>6, <1>7, <2>1, <2>3
    <2> QED
        BY <1>13, <2>2, <2>3
<1>15. ASSUME NEW i \in 1..n
       PROVE  /\ PacketRecent'[i] \in 0..MaxTime /\ PacketRecent'[i] <= clock'
              /\ \A r \in Sessions : t'[r] # NoStamp => PacketRecent'[i] <= t'[r]
    <2>1. CASE i + d \in 1..win_count
        <3>1. PacketRecent'[i] = p[i + d]
            BY <1>7, <1>12, <2>1
        <3> QED
            BY <1>4, <1>5, <1>6, <2>1, <3>1
    <2>2. CASE i + d = win_count + 1
        <3>1. PacketRecent'[i] = e
            BY <1>7, <1>12, <2>2
        <3>2. e <= clock
            BY <1>1, <1>2 DEF StampsPassed
        <3>3. ASSUME NEW r \in Sessions, t'[r] # NoStamp PROVE e <= t'[r]
            <4>1. t'[r] = t[r] /\ ~(t[r] < e)
                BY <1>3, <1>4, <3>3
            <4>2. t[r] \in 0..MaxTime
                BY <1>1, <3>3, <4>1 DEF TypeOK
            <4> QED
                BY <4>1, <4>2
        <3> QED
            BY <1>4, <3>1, <3>2, <3>3
    <2> QED
        BY <1>13, <2>1, <2>2
<1> QED
    BY <1>10, <1>14, <1>15

LEMMA NextStampsOrdered ==
    ASSUME IInv, [Next]_vars
    PROVE  StampsOrdered'
<1>1. TypeOK /\ StampsPassed /\ StampsOrdered /\ TypeOK'
    BY NextTypeOK DEF IInv
<1>2. CASE \E s \in Sessions : record_packet(s)
    BY <1>1, <1>2, RecordOrdered
<1>3. CASE UNCHANGED winVars
    <2>1. UNCHANGED PacketRecent /\ UNCHANGED win_count /\ UNCHANGED overtaken
        BY <1>3, SamePackets DEF winVars
    <2>2. PICK p \in Seq(0..MaxTime) : /\ p = PacketRecent /\ Len(p) = win_count
                                       /\ \A i \in 1..win_count : p[i] \in 0..MaxTime
        BY <1>1, PacketFacts
    <2>3. ASSUME ~overtaken'
          PROVE  /\ \A i, j \in 1..win_count : i < j => p[i] <= p[j]
                 /\ \A i \in 1..win_count : p[i] <= clock
                 /\ \A i \in 1..win_count, r \in Sessions : t[r] # NoStamp => p[i] <= t[r]
        BY <1>1, <2>1, <2>2, <2>3 DEF StampsOrdered
    <2>4. ASSUME ~overtaken', NEW i \in 1..win_count PROVE p[i] <= clock'
        <3>1. p[i] \in 0..MaxTime /\ p[i] <= clock /\ clock \in 0..MaxTime
            BY <1>1, <2>2, <2>3, <2>4 DEF TypeOK
        <3>2. clock' \in 0..MaxTime /\ clock <= clock'
            BY <1>1, StampSteps
        <3> QED
            BY <3>1, <3>2
    <2>5. ASSUME ~overtaken', NEW i \in 1..win_count, NEW r \in Sessions, t'[r] # NoStamp
          PROVE  p[i] <= t'[r]
        <3>1. t'[r] = clock' \/ (t[r] # NoStamp /\ t'[r] = t[r])
            BY <1>1, <2>5, StampSteps
        <3> QED
            BY <2>3, <2>4, <2>5, <3>1
    <2> QED
        BY <2>1, <2>2, <2>3, <2>4, <2>5 DEF StampsOrdered
<1> QED
    BY <1>2, <1>3, PacketSteps

--------------------------------------------------------------------------------
\* The inductive invariant: what the windows hold is not later than what is still to come.
THEOREM Invariance == Spec => []IInv
<1>1. Init => IInv
    <2> SUFFICES ASSUME Init PROVE IInv
        OBVIOUS
    <2>1. TypeOK
        BY InitTypeOK
    <2>2. StampsPassed
        <3>1. ASSUME NEW s \in Sessions PROVE t[s] <= clock
            <4>1. t[s] = -1 /\ clock = 0
                BY DEF Init, NoStamp
            <4>2. -1 <= 0
                OBVIOUS
            <4> QED
                BY <4>1, <4>2, Zenon
        <3> QED
            BY <3>1 DEF StampsPassed
    <2>3. StampsOrdered
        BY DEF Init, StampsOrdered, NoStamp
    <2> QED
        BY <2>1, <2>2, <2>3 DEF IInv
<1>2. IInv /\ [Next]_vars => IInv'
    <2> SUFFICES ASSUME IInv, [Next]_vars PROVE IInv'
        OBVIOUS
    <2>1. TypeOK /\ StampsPassed
        BY DEF IInv
    <2>2. TypeOK'
        BY <2>1, NextTypeOK
    <2>3. StampsPassed'
        BY <2>1, NextStampsPassed
    <2> QED
        BY <2>2, <2>3, NextStampsOrdered DEF IInv
<1> QED
    BY <1>1, <1>2, PTL DEF Spec

\* Heads, counts and entries stay within the rings, whatever the sessions interleave
\* (metrics.c: record_send_result, record_packet).
THEOREM TypeCorrect == Spec => []TypeOK
<1>1. IInv => TypeOK
    BY DEF IInv
<1> QED
    BY <1>1, Invariance, PTL

\* As long as no packet was recorded while another thread held an earlier stamp, no gap the
\* loop of get_window_features sums is negative: not before the ring has filled, nor after it
\* has wrapped (metrics.c: record_packet, get_window_features).
THEOREM GapsNotNegative == Spec => []OrderedUnlessOvertaken
<1>1. IInv => OrderedUnlessOvertaken
    <2> SUFFICES ASSUME IInv, ~overtaken, NEW i \in 1..win_count - 1 PROVE Gap(i) >= 0
        BY DEF OrderedUnlessOvertaken
    <2>1. TypeOK /\ StampsOrdered
        BY DEF IInv
    <2>2. PICK p \in Seq(0..MaxTime) : /\ p = PacketRecent /\ Len(p) = win_count
                                       /\ win_count \in Nat
                                       /\ \A j \in 1..win_count : p[j] \in 0..MaxTime
        BY <2>1, PacketFacts
    <2>3. PICK j \in 1..win_count : j = i + 1
        BY <2>2
    <2>4. i \in 1..win_count /\ i < j /\ j - 1 = i
        BY <2>2, <2>3
    <2>5. p[i] = PacketEntry(i - 1) /\ p[j] = PacketEntry(i)
        BY <2>2, <2>4 DEF PacketRecent
    <2>6. p[i] <= p[j] /\ p[i] \in 0..MaxTime /\ p[j] \in 0..MaxTime
        BY <2>1, <2>2, <2>4 DEF StampsOrdered
    <2> QED
        BY <2>5, <2>6 DEF Gap
<1> QED
    BY <1>1, Invariance, PTL

\* The ring of send results implements a window of the last LOSS_WINDOW results: what the loop
\* of get_packet_loss_pct looks at is that window, whatever the order in which sessions record.
THEOREM LossWindowImplemented == Spec => LossWindowKeepsLast
<1>1. Init => LossWindow!Init
    BY DEF Init, LossWindow!Init
<1>2. IInv /\ [Next]_vars => [LossWindow!Next]_LossRecent
    <2> SUFFICES ASSUME IInv, [Next]_vars PROVE LossWindow!Next \/ UNCHANGED LossRecent
        OBVIOUS
    <2>1. TypeOK
        BY DEF IInv
    <2>2. ASSUME NEW e \in {0, 1}, record_send_result(e) PROVE LossWindow!Next
        <3>1. LossRecent' = LastOf(Append(LossRecent, e), LOSS_WINDOW)
            BY <2>1, <2>2, LossRecords
        <3>2. LossWindow!Record(e)
            BY <3>1 DEF LossWindow!Record, LossWindow!LastEntries, LastOf, LossRecent
        <3> QED
            BY <3>2 DEF LossWindow!Next
    <2> QED
        BY <2>2, LossSteps, SameLoss
<1> QED
    BY <1>1, <1>2, Invariance, PTL DEF Spec, LossWindowKeepsLast, LossWindow!Spec, LossRecent

\* The ring of time stamps implements a window of the last FEATURE_WINDOW packets, in the order
\* in which they were recorded: the rounds of get_window_features go through that window.
THEOREM PacketWindowImplemented == Spec => PacketWindowKeepsLast
<1>1. Init => PacketWindow!Init
    BY DEF Init, PacketWindow!Init
<1>2. IInv /\ [Next]_vars => [PacketWindow!Next]_PacketRecent
    <2> SUFFICES ASSUME IInv, [Next]_vars PROVE PacketWindow!Next \/ UNCHANGED PacketRecent
        OBVIOUS
    <2>1. TypeOK /\ TypeOK'
        BY NextTypeOK DEF IInv
    <2>2. ASSUME NEW s \in Sessions, record_packet(s) PROVE PacketWindow!Next
        <3>1. PICK e \in 0..MaxTime : PushPacket(e)
            BY <2>1, <2>2, StampFacts DEF record_packet
        <3>2. PacketRecent' = LastOf(Append(PacketRecent, e), FEATURE_WINDOW)
            BY <2>1, <3>1, PacketRecords
        <3>3. PacketWindow!Record(e)
            BY <3>2 DEF PacketWindow!Record, PacketWindow!LastEntries, LastOf, PacketRecent
        <3> QED
            BY <3>3 DEF PacketWindow!Next
    <2> QED
        BY <2>2, PacketSteps, SamePackets
<1> QED
    BY <1>1, <1>2, Invariance, PTL DEF Spec, PacketWindowKeepsLast, PacketWindow!Spec, PacketRecent


--------------------------------------------------------------------------------
\* The features: sums over the rounds of the loop, by induction on the round.
Lesser == {p \in Nat \X Nat : p[1] < p[2]}

\* The library's induction theorems range over operators, WFMin over sets.
LEMMA InductionOnRounds ==
    ASSUME NEW S, 0 \in S, \A k \in Nat : k \in S => k + 1 \in S
    PROVE  \A k \in Nat : k \in S
<1>1. IsWellFoundedOn(Lesser, Nat)
    <2>1. OpToRel(<, Nat) = Lesser
        BY DEF OpToRel, Lesser
    <2> QED
        BY <2>1, NatLessThanWellFounded
<1> SUFFICES ASSUME NEW T, T = Nat \ S, T # {} PROVE FALSE
    OBVIOUS
<1>2. T \subseteq Nat
    OBVIOUS
<1>3. PICK k \in T : \A l \in T : ~(<<l, k>> \in Lesser)
    BY <1>1, <1>2, WFMin
<1>4. k # 0 /\ k - 1 \in Nat
    BY <1>2
<1>5. k - 1 \notin T
    <2>1. <<k - 1, k>> \in Lesser
        BY <1>2, <1>4 DEF Lesser
    <2> QED
        BY <1>3, <2>1
<1> QED
    BY <1>4, <1>5

\* Every sequence of terms has its partial sums.
IsSum(f, g, n) ==
    /\ f \in [0..n -> Int] /\ f[0] = 0
    /\ \A i \in 1..n : f[i] = f[i - 1] + g[i]

LEMMA SumExists ==
    ASSUME NEW n \in Nat, NEW g \in [1..n -> Int]
    PROVE  \E f : IsSum(f, g, n)
<1> DEFINE S == {k \in Nat : k <= n => \E f : IsSum(f, g, k)}
<1>1. 0 \in S
    <2>1. IsSum([i \in 0..0 |-> 0], g, 0)
        BY DEF IsSum
    <2> QED
        BY <2>1
<1>2. ASSUME NEW k \in Nat, k \in S PROVE k + 1 \in S
    <2> SUFFICES ASSUME k + 1 <= n PROVE \E f : IsSum(f, g, k + 1)
        OBVIOUS
    <2>1. PICK f : IsSum(f, g, k)
        BY <1>2
    <2>2. g[k + 1] \in Int /\ f[k] \in Int
        BY <2>1 DEF IsSum
    <2> DEFINE h == [i \in 0..k + 1 |-> IF i = k + 1 THEN f[k] + g[k + 1] ELSE f[i]]
    <2>3. h \in [0..k + 1 -> Int] /\ h[0] = 0
        BY <2>1, <2>2 DEF IsSum
    <2>4. ASSUME NEW i \in 1..k + 1 PROVE h[i] = h[i - 1] + g[i]
        <3>1. CASE i = k + 1
            BY <3>1
        <3>2. CASE i # k + 1
            <4>1. i \in 1..k /\ h[i] = f[i] /\ h[i - 1] = f[i - 1]
                BY <3>2
            <4> QED
                BY <2>1, <4>1 DEF IsSum
        <3> QED
            BY <3>1, <3>2
    <2>5. IsSum(h, g, k + 1)
        BY <2>3, <2>4 DEF IsSum
    <2> QED
        BY <2>5
<1> HIDE DEF S
<1>3. n \in S
    BY <1>1, <1>2, InductionOnRounds
<1> QED
    BY <1>3 DEF S

\* The sum of the differences of neighbours is the difference of the ends.
LEMMA Telescopes ==
    ASSUME NEW n \in Nat, NEW p, NEW g, NEW f, IsSum(f, g, n),
           \A i \in 0..n : p[i] \in Int, \A i \in 1..n : g[i] = p[i] - p[i - 1]
    PROVE  \A k \in 0..n : f[k] = p[k] - p[0]
<1> DEFINE S == {k \in Nat : k <= n => f[k] = p[k] - p[0]}
<1>1. 0 \in S
    BY DEF IsSum
<1>2. ASSUME NEW k \in Nat, k \in S PROVE k + 1 \in S
    <2> SUFFICES ASSUME k + 1 <= n PROVE f[k + 1] = p[k + 1] - p[0]
        OBVIOUS
    <2>1. f[k] = p[k] - p[0]
        BY <1>2
    <2>2. PICK j \in 1..n : j = k + 1 /\ j - 1 = k
        OBVIOUS
    <2>3. f[j] = f[j - 1] + g[j] /\ g[j] = p[j] - p[j - 1]
        BY DEF IsSum
    <2>4. p[j] \in Int /\ p[k] \in Int /\ p[0] \in Int
        BY <2>2
    <2> QED
        BY <2>1, <2>2, <2>3, <2>4
<1> HIDE DEF S
<1>3. \A k \in Nat : k \in S
    BY <1>1, <1>2, InductionOnRounds
<1>4. \A k \in 0..n : k \in S /\ k <= n
    BY <1>3
<1> QED
    BY <1>4 DEF S

\* The sum of the squares of (a * g[i] - b) is not negative: expanded, it is this polynomial.
LEMMA SquaresNotNegative ==
    ASSUME NEW n \in Nat, NEW g \in [1..n -> Int], NEW g2, NEW f, NEW f2,
           IsSum(f, g, n), IsSum(f2, g2, n), \A i \in 1..n : g2[i] = g[i] * g[i],
           NEW a \in Int, NEW b \in Int
    PROVE  \A k \in 0..n : a * a * f2[k] - 2 * a * b * f[k] + k * b * b >= 0
<1> DEFINE S == {k \in Nat : k <= n => a * a * f2[k] - 2 * a * b * f[k] + k * b * b >= 0}
<1>1. 0 \in S
    BY DEF IsSum
<1>2. ASSUME NEW k \in Nat, k \in S PROVE k + 1 \in S
    <2> SUFFICES ASSUME k + 1 <= n
                 PROVE  a * a * f2[k + 1] - 2 * a * b * f[k + 1] + (k + 1) * b * b >= 0
        OBVIOUS
    <2>1. a * a * f2[k] - 2 * a * b * f[k] + k * b * b >= 0
        BY <1>2
    <2>2. PICK j \in 1..n : j = k + 1 /\ j - 1 = k
        OBVIOUS
    <2>3. PICK x \in Int : x = g[j]
        OBVIOUS
    <2>4. PICK s \in Int : s = f[k]
        BY <2>2 DEF IsSum
    <2>5. PICK q \in Int : q = f2[k]
        BY <2>2 DEF IsSum
    <2>6. f[j] = s + x /\ f2[j] = q + x * x
        BY <2>2, <2>3, <2>4, <2>5 DEF IsSum
    <2>7. a * a * (q + x * x) - 2 * a * b * (s + x) + (k + 1) * b * b
              = (a * a * q - 2 * a * b * s + k * b * b) + (a * x - b) * (a * x - b)
        OBVIOUS
    <2>8. a * a * q - 2 * a * b * s + k * b * b >= 0
        BY <2>1, <2>4, <2>5
    <2>9. \A y \in Int : y * y >= 0
        OBVIOUS
    <2>10. PICK y \in Int : y = a * x - b
        OBVIOUS
    <2>11. PICK z \in Int : z = a * a * q - 2 * a * b * s + k * b * b
        OBVIOUS
    <2>12. a * a * (q + x * x) - 2 * a * b * (s + x) + (k + 1) * b * b = z + y * y
        BY <2>7, <2>10, <2>11
    <2>13. z + y * y >= 0
        BY <2>8, <2>9, <2>11
    <2> QED
        BY <2>2, <2>6, <2>12, <2>13
<1> HIDE DEF S
<1>3. \A k \in Nat : k \in S
    BY <1>1, <1>2, InductionOnRounds
<1>4. \A k \in 0..n : k \in S /\ k <= n
    BY <1>3
<1> QED
    BY <1>4 DEF S

\* What the variance is made of: rounds * (sum of squares) is not below the square of the sum.
LEMMA VarianceNotNegative ==
    ASSUME NEW n \in Nat, NEW g \in [1..n -> Int], NEW g2, NEW f, NEW f2,
           IsSum(f, g, n), IsSum(f2, g2, n), \A i \in 1..n : g2[i] = g[i] * g[i],
           NEW k \in 1..n
    PROVE  k * f2[k] >= f[k] * f[k]
<1>1. PICK s \in Int : s = f[k]
    BY DEF IsSum
<1>2. PICK q \in Int : q = f2[k]
    BY DEF IsSum
<1>3. k * k * q - 2 * k * s * s + k * s * s >= 0
    <2>1. k \in Int
        OBVIOUS
    <2>2. \A l \in 0..n : k * k * f2[l] - 2 * k * s * f[l] + l * s * s >= 0
        BY <2>1, SquaresNotNegative
    <2>3. k \in 0..n
        OBVIOUS
    <2> QED
        BY <1>1, <1>2, <2>2, <2>3
<1>4. PICK u \in Int, w \in Int, y \in Int : u = k * q /\ w = s * s /\ y = u - w
    OBVIOUS
<1>5. k * y >= 0
    BY <1>3, <1>4
<1>6. y >= 0
    BY <1>5
<1> QED
    <2>1. u >= w
        BY <1>4, <1>6
    <2>2. k * f2[k] = u /\ f[k] * f[k] = w
        BY <1>1, <1>2, <1>4
    <2> QED
        BY <2>1, <2>2


\* A function that adds up the terms round by round holds their partial sums.
LEMMA SumIsUnique ==
    ASSUME NEW n \in Nat, NEW g, NEW f, IsSum(f, g, n), NEW h,
           h = [i \in 0..n |-> IF i = 0 THEN 0 ELSE h[i - 1] + g[i]]
    PROVE  IsSum(h, g, n)
<1> DEFINE S == {k \in Nat : k <= n => h[k] = f[k]}
<1>1. h[0] = 0 /\ \A i \in 1..n : h[i] = h[i - 1] + g[i]
    <2>1. 0 \in 0..n /\ \A i \in 1..n : i \in 0..n /\ i # 0
        OBVIOUS
    <2> QED
        BY <2>1
<1>2. 0 \in S
    BY <1>1 DEF IsSum
<1>3. ASSUME NEW k \in Nat, k \in S PROVE k + 1 \in S
    <2> SUFFICES ASSUME k + 1 <= n PROVE h[k + 1] = f[k + 1]
        OBVIOUS
    <2>1. PICK j \in 1..n : j = k + 1 /\ j - 1 = k
        OBVIOUS
    <2>2. h[j] = h[j - 1] + g[j] /\ f[j] = f[j - 1] + g[j]
        BY <1>1 DEF IsSum
    <2>3. h[k] = f[k]
        BY <1>3
    <2> QED
        BY <2>1, <2>2, <2>3
<1> HIDE DEF S
<1>4. \A k \in Nat : k \in S
    BY <1>2, <1>3, InductionOnRounds
<1>5. \A k \in 0..n : h[k] = f[k]
    <2>1. \A k \in 0..n : k \in S /\ k <= n
        BY <1>4
    <2> QED
        BY <2>1 DEF S
<1>6. h \in [0..n -> Int]
    <2>1. \A k \in 0..n : f[k] \in Int
        BY DEF IsSum
    <2> QED
        BY <1>5, <2>1
<1> QED
    BY <1>1, <1>6 DEF IsSum

\* The features of a well-typed state belong to one window.
LEMMA Features == TypeOK => FeaturesAgree
<1> SUFFICES ASSUME TypeOK, win_count >= 2
             PROVE  /\ SumIat[win_count - 1] = Span
                    /\ (win_count - 1) * SumIat2[win_count - 1] >= Span * Span
    BY DEF FeaturesAgree
<1>1. PICK n \in Nat \ {0} : n = FEATURE_WINDOW
    BY WindowsAssumption
<1>2. /\ win_ts \in [0..n - 1 -> 0..MaxTime] /\ win_head \in 0..n - 1 /\ win_count \in 0..n
    BY <1>1 DEF TypeOK
<1>3. PICK k \in 1..n : k = win_count - 1
    BY <1>2
<1>4. Start \in 0..n - 1 /\ \A i \in 0..n : PacketEntry(i) \in Int
    <2>1. PICK x \in 0..2 * n - 1 : x = win_head - win_count + n
        BY <1>2
    <2>2. x % n \in 0..n - 1
        BY Wraps
    <2>3. PICK start \in 0..n - 1 : start = Start
        BY <1>1, <2>1, <2>2 DEF Start
    <2>4. ASSUME NEW i \in 0..n PROVE win_ts[(start + i) % n] \in Int
        <3>1. PICK y \in 0..2 * n - 1 : y = start + i
            OBVIOUS
        <3>2. y % n \in 0..n - 1
            BY Wraps
        <3> QED
            BY <1>2, <3>1, <3>2
    <2> QED
        BY <1>1, <2>3, <2>4 DEF PacketEntry
<1> DEFINE p == [i \in 0..n |-> PacketEntry(i)]
           g == [i \in 1..n |-> Gap(i)]
           g2 == [i \in 1..n |-> Gap(i) * Gap(i)]
<1>5. p \in [0..n -> Int]
    BY <1>4
<1>6. ASSUME NEW i \in 1..n PROVE Gap(i) = p[i] - p[i - 1] /\ Gap(i) \in Int
    <2>1. PICK j \in 0..n : j = i - 1
        OBVIOUS
    <2>2. i \in 0..n
        OBVIOUS
    <2> QED
        BY <1>4, <2>1, <2>2 DEF Gap
<1>7. \A i \in 1..n : g[i] = Gap(i) /\ g2[i] = Gap(i) * Gap(i)
    OBVIOUS
<1>8. p[0] = PacketEntry(0) /\ p[k] = PacketEntry(k)
    <2>1. 0 \in 0..n /\ k \in 0..n
        OBVIOUS
    <2> QED
        BY <2>1
<1> HIDE DEF p
<1>9. /\ g \in [1..n -> Int] /\ g2 \in [1..n -> Int]
      /\ \A i \in 1..n : g[i] = p[i] - p[i - 1] /\ g2[i] = g[i] * g[i]
    <2>1. g \in [1..n -> Int]
        BY <1>6
    <2>2. \A i \in 1..n : Gap(i) * Gap(i) \in Int
        BY <1>6
    <2>3. g2 \in [1..n -> Int]
        BY <2>2
    <2> HIDE DEF g, g2
    <2> QED
        BY <1>6, <1>7, <2>1, <2>3
<1> HIDE DEF g, g2
<1>10. IsSum(SumIat, g, n)
    <2>1. PICK f : IsSum(f, g, n)
        BY <1>9, SumExists
    <2>2. f = [i \in 0..FEATURE_WINDOW |-> IF i = 0 THEN 0 ELSE f[i - 1] + Gap(i)]
        BY <1>1, <1>7, <2>1 DEF IsSum
    <2>3. SumIat = [i \in 0..FEATURE_WINDOW |-> IF i = 0 THEN 0 ELSE SumIat[i - 1] + Gap(i)]
        BY <2>2 DEF SumIat
    <2>4. SumIat = [i \in 0..n |-> IF i = 0 THEN 0 ELSE SumIat[i - 1] + g[i]]
        BY <1>1, <1>7, <2>3
    <2> QED
        BY <2>1, <2>4, SumIsUnique
<1>11. IsSum(SumIat2, g2, n)
    <2>1. PICK f : IsSum(f, g2, n)
        BY <1>9, SumExists
    <2>2. f = [i \in 0..FEATURE_WINDOW |-> IF i = 0 THEN 0 ELSE f[i - 1] + Gap(i) * Gap(i)]
        BY <1>1, <1>7, <2>1 DEF IsSum
    <2>3. SumIat2 = [i \in 0..FEATURE_WINDOW |->
                        IF i = 0 THEN 0 ELSE SumIat2[i - 1] + Gap(i) * Gap(i)]
        BY <2>2 DEF SumIat2
    <2>4. SumIat2 = [i \in 0..n |-> IF i = 0 THEN 0 ELSE SumIat2[i - 1] + g2[i]]
        BY <1>1, <1>7, <2>3
    <2> QED
        BY <2>1, <2>4, SumIsUnique
<1>12. Span = PacketEntry(k) - PacketEntry(0)
    <2>1. Start % n = Start /\ (Start + 0) % n = Start
        BY <1>4, Wraps
    <2>2. PacketEntry(0) = win_ts[Start]
        BY <1>1, <2>1 DEF PacketEntry
    <2>3. (Start + k) % n = Slot(win_head, win_count, k, n)
        <3>1. Start = (win_head - win_count + n) % n
            BY <1>1 DEF Start
        <3>2. k \in 0..win_count - 1
            BY <1>2, <1>3
        <3> QED
            BY <1>2, <3>1, <3>2, SlotFromStart
    <2>4. Slot(win_head, win_count, k, n) = (win_head - 1 + n) % n
        BY <1>2, <1>3 DEF Slot
    <2>5. PacketEntry(k) = LastStamp
        BY <1>1, <2>3, <2>4 DEF PacketEntry, LastStamp
    <2> QED
        BY <2>2, <2>5 DEF Span
<1>13. SumIat[k] = Span
    <2>1. \A i \in 1..n : g[i] = p[i] - p[i - 1]
        BY <1>9
    <2>2. \A i \in 0..n : SumIat[i] = p[i] - p[0]
        <3>1. \A i \in 0..n : p[i] \in Int
            BY <1>5
        <3> QED
            BY <1>10, <2>1, <3>1, Telescopes
    <2> QED
        BY <1>8, <1>12, <2>2
<1>14. k * SumIat2[k] >= SumIat[k] * SumIat[k]
    BY <1>9, <1>10, <1>11, VarianceNotNegative
<1> QED
    BY <1>3, <1>13, <1>14

\* The features of one vector belong to one window, of whatever size: the gaps the loop sums up
\* make the span that is read from the newest and the oldest slot, and what the variance is made
\* of is not negative, so that the guard before sqrt is about rounding only (metrics.c:
\* get_window_features).
THEOREM FeaturesBelongTogether == Spec => []FeaturesAgree
BY Features, TypeCorrect, PTL

================================================================================
