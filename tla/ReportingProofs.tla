----------------------------- MODULE ReportingProofs -----------------------------
(***************************************************************************)
(* Theorems about Reporting, for any number of sessions, faults and        *)
(* request threads, and any size of the advisor's window and of the store: *)
(* what becomes of a report at either server, and what the advisor makes   *)
(* of the rows.                                                            *)
(***************************************************************************)
EXTENDS Reporting, MetricsStoreProofs

SessionTypeOK ==
    /\ at \in [Threads -> SessionPlaces]
    /\ number \in [Threads -> 0..Cardinality(Threads)]
    /\ counter \in 1..(Cardinality(Threads) + 1)

PortTypeOK ==
    /\ port \in Servers /\ up \in BOOLEAN
    /\ queue \in Seq(Threads) /\ Len(queue) <= Backlog
    /\ sent \subseteq Threads /\ kept \subseteq Threads
    /\ serving \in Threads \cup {NoReport}
    /\ faults \in 0..MaxFaults

\* A number is at most one more than the sessions that have written the counter.
Written == {t \in Threads : at[t] \in {"flow", "send", "done"}}
NumbersCounted ==
    /\ counter <= Cardinality(Written) + 1
    /\ \A t \in Threads : at[t] = "increment" => number[t] <= Cardinality(Written) + 1

\* A session has one connection, which is queued or served; a request is read whole after
\* its session has closed.
QueueOK ==
    /\ \A i, j \in 1..Len(queue) : queue[i] = queue[j] => i = j
    /\ \A i \in 1..Len(queue) : queue[i] # serving /\ at[queue[i]] \in {"send", "done"}
    /\ serving # NoReport => port = "receiver" /\ at[serving] \in {"send", "done"}
    /\ \A t \in sent : at[t] = "done"

\* A report that is in the table, was polled, or arrived at the store comes from a session
\* that is done, and has no connection any more.
Recorded == kept \cup batch \cup (UNION polls) \cup {arrivals[i] : i \in 1..Len(arrivals)}
RecordedOnce ==
    \A t \in Recorded : at[t] = "done" /\ t # serving /\ \A i \in 1..Len(queue) : queue[i] # t

\* The table holds each committed report once.
TableOK ==
    /\ Rows = kept /\ Cardinality(kept) = Len(metrics)
    /\ \A i, j \in 1..Len(metrics) : metrics[i] = metrics[j] => i = j
    /\ port = "receiver" /\ up => tables

--------------------------------------------------------------------------------
LEMMA TypeParts ==
    TypeOK <=> SessionTypeOK /\ PortTypeOK /\ AdvisorTypeOK(Threads) /\ StoreTypeOK(Threads)
BY DEF TypeOK, SessionTypeOK, PortTypeOK

LEMMA NextTypeParts ==
    TypeOK' <=> SessionTypeOK' /\ PortTypeOK' /\ AdvisorTypeOK(Threads)' /\ StoreTypeOK(Threads)'
BY TypeParts, PTL

LEMMA ThreadsFacts ==
    /\ IsFiniteSet(Threads) /\ Cardinality(Threads) \in Nat /\ NoReport \notin Threads
    /\ \A T \in SUBSET Threads : /\ IsFiniteSet(T) /\ Cardinality(T) \in Nat
                                 /\ Cardinality(T) <= Cardinality(Threads)
<1>1. IsFiniteSet(Threads) /\ Cardinality(Threads) \in Nat /\ NoReport \notin Threads
    BY ThreadsAssumption, FS_CardinalityType
<1>2. ASSUME NEW T \in SUBSET Threads
      PROVE  /\ IsFiniteSet(T) /\ Cardinality(T) \in Nat
             /\ Cardinality(T) <= Cardinality(Threads)
    BY <1>1, FS_Subset, FS_CardinalityType
<1> QED
    BY <1>1, <1>2

--------------------------------------------------------------------------------
\* The sessions: a step numbers one, sends one on, or ends them all.
Moves(t, from, place) ==
    at[t] \in from /\ Goto(t, place) /\ UNCHANGED <<number, counter>>

LEMMA SessionSteps ==
    ASSUME [Next]_vars
    PROVE  \/ UNCHANGED sessionVars
           \/ \E t \in Threads :
                 \/ ReadCounter(t) \/ WriteCounter(t)
                 \/ \E place \in {"send", "done"} : Moves(t, {"flow", "send"}, place)
           \/ StackStops
<1>1. CASE \E t \in Threads : ReadCounter(t) \/ WriteCounter(t)
    BY <1>1
<1>2. ASSUME NEW t \in Threads,
             ReturnsEarly(t) \/ Connect(t) \/ ConnectFails(t) \/ SendAndClose(t)
      PROVE  \E place \in {"send", "done"} : Moves(t, {"flow", "send"}, place)
    BY <1>2 DEF ReturnsEarly, Connect, ConnectFails, SendAndClose, Moves
<1>3. CASE ReceiverStep \/ PostFails \/ \E w \in Workers : ReceiveMetrics(w)
    BY <1>3 DEF ReceiverStep, AcceptPost, CommitPost, PostFails, ReceiveMetrics
<1>4. CASE \/ AdvisorComesUp \/ AdvisorStep \/ AdvisorFault
           \/ JavaStep \/ ServerEnds \/ ServerStarts
    BY <1>4 DEF AdvisorComesUp, AdvisorStep, AdvisorFault, JavaStep, ServerEnds, ServerStarts
<1>5. CASE StackStops
    BY <1>5
<1>6. CASE UNCHANGED vars
    BY <1>6 DEF vars
<1> QED
    BY <1>1, <1>2, <1>3, <1>4, <1>5, <1>6 DEF Next, SessionStep

\* No session goes back: one with a connection keeps it, is done, or stays done.
LEMMA Onward ==
    ASSUME SessionTypeOK, [Next]_vars
    PROVE  /\ at' \in [Threads -> SessionPlaces]
           /\ \A t \in Threads :
                 /\ at[t] = "done" => at'[t] = "done"
                 /\ at[t] \in {"send", "done"} => at'[t] \in {"send", "done"}
                 /\ t \in Written => at'[t] \in {"flow", "send", "done"}
<1>1. at \in [Threads -> SessionPlaces]
    BY DEF SessionTypeOK
<1>2. CASE UNCHANGED sessionVars
    BY <1>1, <1>2 DEF sessionVars, Written
<1>3. ASSUME NEW s \in Threads, ReadCounter(s) \/ WriteCounter(s)
      PROVE  /\ at' \in [Threads -> SessionPlaces] /\ at[s] \in {"idle", "increment"}
             /\ \A t \in Threads : t # s => at'[t] = at[t]
    BY <1>1, <1>3 DEF ReadCounter, WriteCounter, Goto, SessionPlaces
<1>4. ASSUME NEW s \in Threads, NEW place \in {"send", "done"}, Moves(s, {"flow", "send"}, place)
      PROVE  /\ at' \in [Threads -> SessionPlaces] /\ at[s] \in {"flow", "send"} /\ at'[s] = place
             /\ \A t \in Threads : t # s => at'[t] = at[t]
    BY <1>1, <1>4 DEF Moves, Goto, SessionPlaces
<1>5. CASE StackStops
    BY <1>1, <1>5 DEF StackStops, SessionPlaces, Written
<1>6. CASE \E s \in Threads : ReadCounter(s) \/ WriteCounter(s)
    BY <1>3, <1>6 DEF Written
<1>7. CASE \E s \in Threads : \E place \in {"send", "done"} : Moves(s, {"flow", "send"}, place)
    BY <1>4, <1>7 DEF Written
<1> QED
    BY <1>2, <1>5, <1>6, <1>7, SessionSteps

LEMMA NextNumbers ==
    ASSUME SessionTypeOK, NumbersCounted, [Next]_vars
    PROVE  SessionTypeOK' /\ NumbersCounted'
<1>1. /\ Written \in SUBSET Threads /\ Written' \in SUBSET Threads /\ Written \subseteq Written'
      /\ at' \in [Threads -> SessionPlaces]
    BY Onward DEF Written
<1>2. PICK k \in Nat : k = Cardinality(Written)
    BY <1>1, ThreadsFacts
<1>3. PICK m \in Nat : m = Cardinality(Written')
    BY <1>1, ThreadsFacts
<1>4. PICK n \in Nat : n = Cardinality(Threads)
    BY ThreadsFacts
<1>5. k <= m /\ m <= n
    <2>1. IsFiniteSet(Written')
        BY <1>1, ThreadsFacts
    <2>2. Cardinality(Written) <= Cardinality(Written')
        BY <1>1, <2>1, FS_Subset
    <2> QED
        BY <1>1, <1>2, <1>3, <1>4, <2>2, ThreadsFacts
<1>6. /\ at \in [Threads -> SessionPlaces] /\ number \in [Threads -> 0..n] /\ counter \in 1..n + 1
      /\ counter <= k + 1 /\ \A t \in Threads : at[t] = "increment" => number[t] <= k + 1
    BY <1>2, <1>4 DEF SessionTypeOK, NumbersCounted
<1> SUFFICES /\ number' \in [Threads -> 0..n] /\ counter' \in 1..n + 1 /\ counter' <= m + 1
             /\ \A t \in Threads : at'[t] = "increment" => number'[t] <= m + 1
    BY <1>1, <1>3, <1>4 DEF SessionTypeOK, NumbersCounted
<1>7. ASSUME NEW s \in Threads, s \notin Written
      PROVE  k + 1 <= n
    <2>1. Written \cup {s} \in SUBSET Threads
        BY <1>1
    <2>2. Cardinality(Written \cup {s}) = k + 1
        BY <1>1, <1>2, <1>7, ThreadsFacts, FS_AddElement
    <2> QED
        BY <1>4, <2>1, <2>2, ThreadsFacts
<1>8. ASSUME NEW s \in Threads, s \notin Written, s \in Written'
      PROVE  k + 1 <= m
    <2>1. Written \cup {s} \in SUBSET Written' /\ IsFiniteSet(Written')
        BY <1>1, <1>8, ThreadsFacts
    <2>2. Cardinality(Written \cup {s}) = k + 1
        BY <1>1, <1>2, <1>8, ThreadsFacts, FS_AddElement
    <2> QED
        BY <1>3, <2>1, <2>2, FS_Subset
<1>9. CASE UNCHANGED sessionVars
    BY <1>5, <1>6, <1>9 DEF sessionVars
<1>10. ASSUME NEW s \in Threads, ReadCounter(s)
       PROVE  /\ number' \in [Threads -> 0..n] /\ counter' \in 1..n + 1 /\ counter' <= m + 1
              /\ \A t \in Threads : at'[t] = "increment" => number'[t] <= m + 1
    <2>1. s \notin Written
        BY <1>10 DEF ReadCounter, Written
    <2>2. counter <= n /\ counter <= m + 1
        BY <1>5, <1>6, <1>7, <2>1
    <2>3. /\ number' = [number EXCEPT ![s] = counter] /\ counter' = counter
          /\ \A t \in Threads : t # s => at'[t] = at[t]
        BY <1>6, <1>10 DEF ReadCounter, Goto
    <2>4. number' \in [Threads -> 0..n] /\ number'[s] = counter
          /\ \A t \in Threads : t # s => number'[t] = number[t]
        BY <1>6, <2>2, <2>3
    <2>5. \A t \in Threads : at[t] = "increment" => number[t] <= m + 1
        BY <1>5, <1>6
    <2> QED
        BY <1>6, <2>2, <2>3, <2>4, <2>5
<1>11. ASSUME NEW s \in Threads, WriteCounter(s)
       PROVE  /\ number' \in [Threads -> 0..n] /\ counter' \in 1..n + 1 /\ counter' <= m + 1
              /\ \A t \in Threads : at'[t] = "increment" => number'[t] <= m + 1
    <2>1. /\ at[s] = "increment" /\ at'[s] = "flow" /\ number' = number /\ counter' = number[s] + 1
          /\ \A t \in Threads : t # s => at'[t] = at[t]
        BY <1>6, <1>11 DEF WriteCounter, Goto
    <2>2. k + 1 <= m
        BY <1>8, <2>1 DEF Written
    <2>3. number[s] \in 0..n /\ number[s] <= k + 1
        BY <1>6, <2>1
    <2>4. \A t \in Threads : at'[t] = "increment" => number[t] <= m + 1
        BY <1>5, <1>6, <2>1
    <2> QED
        BY <1>5, <1>6, <2>1, <2>2, <2>3, <2>4
<1>12. ASSUME NEW s \in Threads, NEW place \in {"send", "done"}, Moves(s, {"flow", "send"}, place)
       PROVE  /\ number' \in [Threads -> 0..n] /\ counter' \in 1..n + 1 /\ counter' <= m + 1
              /\ \A t \in Threads : at'[t] = "increment" => number'[t] <= m + 1
    <2>1. /\ number' = number /\ counter' = counter
          /\ \A t \in Threads : at'[t] = "increment" => at[t] = "increment"
        BY <1>6, <1>12 DEF Moves, Goto
    <2> QED
        BY <1>5, <1>6, <2>1
<1>13. CASE StackStops
    <2>1. /\ number' = number /\ counter' = 1
          /\ \A t \in Threads : at'[t] # "increment"
        BY <1>6, <1>13 DEF StackStops
    <2> QED
        BY <1>6, <2>1
<1> QED
    BY <1>9, <1>10, <1>11, <1>12, <1>13, SessionSteps


--------------------------------------------------------------------------------
\* Connections.
LEMMA RemoveAtFacts ==
    ASSUME NEW S, NEW q \in Seq(S), NEW i \in 1..Len(q)
    PROVE  /\ RemoveAt(q, i) \in Seq(S) /\ Len(RemoveAt(q, i)) = Len(q) - 1
           /\ \A j \in 1..Len(q) - 1 : RemoveAt(q, i)[j] = q[IF j < i THEN j ELSE j + 1]
<1>1. PICK n \in Nat : n = Len(q)
    BY LenProperties
<1>2. i \in 1..n /\ \A j \in 1..n : q[j] \in S
    BY <1>1, ElementOfSeq
<1>3. PICK a \in 0..n - 1 : a = i - 1
    BY <1>2
<1>4. /\ SubSeq(q, 1, a) \in Seq(S) /\ Len(SubSeq(q, 1, a)) = a
      /\ \A j \in 1..a : SubSeq(q, 1, a)[j] = q[j]
    <2>1. \A j \in 1..a : q[j] \in S
        BY <1>2
    <2>2. /\ SubSeq(q, 1, a) \in Seq(S)
          /\ Len(SubSeq(q, 1, a)) = IF 1 <= a THEN a - 1 + 1 ELSE 0
          /\ \A j \in 1..a - 1 + 1 : SubSeq(q, 1, a)[j] = q[1 + j - 1]
        BY <2>1, SubSeqProperties
    <2>3. a - 1 + 1 = a /\ (~(1 <= a) => a = 0) /\ \A j \in 1..a : 1 + j - 1 = j
        OBVIOUS
    <2> QED
        BY <2>2, <2>3
<1>5. /\ SubSeq(q, i + 1, n) \in Seq(S) /\ Len(SubSeq(q, i + 1, n)) = n - i
      /\ \A j \in 1..n - i : SubSeq(q, i + 1, n)[j] = q[i + j]
    <2>1. PICK b \in Nat \ {0} : b = i + 1
        BY <1>2
    <2>2. \A j \in b..n : q[j] \in S
        BY <1>2, <2>1
    <2>3. /\ SubSeq(q, b, n) \in Seq(S)
          /\ Len(SubSeq(q, b, n)) = IF b <= n THEN n - b + 1 ELSE 0
          /\ \A j \in 1..n - b + 1 : SubSeq(q, b, n)[j] = q[b + j - 1]
        BY <2>2, SubSeqProperties
    <2>4. /\ n - b + 1 = n - i /\ (~(b <= n) => n - i = 0)
          /\ \A j \in 1..n - i : b + j - 1 = i + j
        BY <1>2, <2>1
    <2>5. SubSeq(q, i + 1, n) = SubSeq(q, b, n)
        BY <2>1
    <2> QED
        BY <2>3, <2>4, <2>5
<1>6. PICK x \in Seq(S) : x = SubSeq(q, 1, a) /\ Len(x) = a /\ \A j \in 1..a : x[j] = q[j]
    BY <1>4
<1>7. PICK y \in Seq(S) : /\ y = SubSeq(q, i + 1, n) /\ Len(y) = n - i
                          /\ \A j \in 1..n - i : y[j] = q[i + j]
    BY <1>5
<1>8. RemoveAt(q, i) = x \o y
    BY <1>1, <1>3, <1>6, <1>7 DEF RemoveAt
<1>9. /\ x \o y \in Seq(S) /\ Len(x \o y) = a + (n - i)
      /\ \A j \in 1..a + (n - i) : (x \o y)[j] = IF j <= a THEN x[j] ELSE y[j - a]
    <2>1. /\ x \o y \in Seq(S) /\ Len(x \o y) = Len(x) + Len(y)
          /\ \A j \in 1..Len(x) + Len(y) :
                (x \o y)[j] = IF j <= Len(x) THEN x[j] ELSE y[j - Len(x)]
        BY ConcatProperties
    <2> QED
        BY <1>6, <1>7, <2>1
<1>10. a + (n - i) = n - 1
    BY <1>2, <1>3
<1>11. ASSUME NEW j \in 1..n - 1 PROVE (x \o y)[j] = q[IF j < i THEN j ELSE j + 1]
    <2>1. CASE j < i
        <3>1. j \in 1..a /\ j <= a
            BY <1>3, <2>1
        <3> QED
            BY <1>6, <1>9, <1>10, <2>1, <3>1
    <2>2. CASE ~(j < i)
        <3>1. ~(j <= a) /\ j - a \in 1..n - i /\ i + (j - a) = j + 1
            BY <1>2, <1>3, <2>2
        <3> QED
            BY <1>7, <1>9, <1>10, <2>2, <3>1
    <2> QED
        BY <2>1, <2>2
<1> QED
    BY <1>1, <1>8, <1>9, <1>10, <1>11

\* A step that leaves the connections alone, or what it does to them.
LEMMA PortSteps ==
    ASSUME [Next]_vars
    PROVE  \/ /\ UNCHANGED <<port, up, queue, sent, serving, kept>>
              /\ faults' = faults \/ (faults < MaxFaults /\ faults' = faults + 1)
           \/ \E t \in Threads : Connect(t) \/ SendAndClose(t)
           \/ AcceptPost \/ CommitPost \/ PostFails
           \/ \E w \in Workers : ReceiveMetrics(w)
           \/ ServerEnds \/ ServerStarts \/ StackStops
<1>1. ASSUME NEW t \in Threads,
             ReadCounter(t) \/ WriteCounter(t) \/ ReturnsEarly(t) \/ ConnectFails(t)
      PROVE  UNCHANGED <<port, up, queue, sent, serving, kept>> /\ faults' = faults
    BY <1>1 DEF ReadCounter, WriteCounter, ReturnsEarly, ConnectFails, portVars
<1>2. CASE \E t \in Threads : ReadCounter(t) \/ SessionStep(t)
    BY <1>1, <1>2 DEF SessionStep
<1>3. CASE AdvisorComesUp \/ AdvisorStep \/ JavaStep \/ UNCHANGED vars
    <2>1. UNCHANGED <<port, up, queue, sent, serving, kept>> /\ faults' = faults
        BY <1>3 DEF AdvisorComesUp, AdvisorStep, JavaStep, vars, portVars
    <2> QED
        BY <2>1
<1>4. CASE AdvisorFault
    <2>1. UNCHANGED <<port, up, queue, sent, serving, kept>> /\ faults' = faults + 1
          /\ faults < MaxFaults
        BY <1>4 DEF AdvisorFault, portVars
    <2> QED
        BY <2>1
<1>5. CASE ReceiverStep
    BY <1>5 DEF ReceiverStep
<1>6. CASE \/ PostFails \/ ServerEnds \/ ServerStarts \/ StackStops
           \/ \E w \in Workers : ReceiveMetrics(w)
    BY <1>6
<1> QED
    BY <1>2, <1>3, <1>4, <1>5, <1>6 DEF Next

LEMMA NextPortTypeOK ==
    ASSUME PortTypeOK, [Next]_vars
    PROVE  PortTypeOK'
<1>1. /\ queue \in Seq(Threads) /\ Len(queue) \in Nat /\ Len(queue) <= Backlog /\ Backlog \in Nat \ {0}
      /\ faults \in 0..MaxFaults /\ MaxFaults \in Nat
      /\ sent \subseteq Threads /\ kept \subseteq Threads
    BY LimitsAssumption, LenProperties DEF PortTypeOK
<1>2. << >> \in Seq(Threads) /\ Len(<< >>) = 0
    BY EmptySeq
<1>3. CASE /\ UNCHANGED <<port, up, queue, sent, serving, kept>>
           /\ faults' = faults \/ (faults < MaxFaults /\ faults' = faults + 1)
    BY <1>1, <1>3 DEF PortTypeOK
<1>4. ASSUME NEW t \in Threads, Connect(t) PROVE PortTypeOK'
    <2>1. queue' \in Seq(Threads) /\ Len(queue') = Len(queue) + 1
        BY <1>1, <1>4, AppendProperties DEF Connect
    <2>2. Len(queue') <= Backlog
        BY <1>1, <1>4, <2>1 DEF Connect
    <2> QED
        BY <1>4, <2>1, <2>2 DEF Connect, PortTypeOK
<1>5. ASSUME NEW t \in Threads, SendAndClose(t) PROVE PortTypeOK'
    BY <1>1, <1>5 DEF SendAndClose, PortTypeOK
<1>6. CASE AcceptPost
    <2>1. queue # << >>
        BY <1>6 DEF AcceptPost
    <2>2. Head(queue) \in Threads /\ Tail(queue) \in Seq(Threads) /\ Len(Tail(queue)) = Len(queue) - 1
        BY <1>1, <2>1, HeadTailProperties
    <2>3. queue' = Tail(queue) /\ serving' = Head(queue)
        BY <1>6 DEF AcceptPost
    <2>4. Len(queue') <= Backlog
        BY <1>1, <2>2, <2>3
    <2> QED
        BY <1>6, <2>2, <2>3, <2>4 DEF AcceptPost, PortTypeOK
<1>7. CASE CommitPost \/ PostFails
    <2>1. /\ UNCHANGED <<port, up, queue>> /\ serving' = NoReport /\ sent' \subseteq sent
          /\ kept' \subseteq kept \cup sent /\ faults' \in 0..MaxFaults
        BY <1>1, <1>7 DEF CommitPost, PostFails
    <2> QED
        BY <1>1, <2>1 DEF PortTypeOK
<1>8. ASSUME NEW w \in Workers, ReceiveMetrics(w) PROVE PortTypeOK'
    <2>1. PICK i \in 1..Len(queue) : queue' = RemoveAt(queue, i)
        BY <1>1, <1>8 DEF ReceiveMetrics
    <2>2. queue' \in Seq(Threads) /\ Len(queue') = Len(queue) - 1
        BY <1>1, <2>1, RemoveAtFacts
    <2>3. Len(queue') <= Backlog
        BY <1>1, <2>2
    <2>4. sent' \subseteq sent
        BY <1>8 DEF ReceiveMetrics
    <2> QED
        BY <1>1, <1>8, <2>2, <2>3, <2>4 DEF ReceiveMetrics, PortTypeOK
<1>9. CASE ServerEnds
    <2>1. /\ port' = port /\ up' = FALSE /\ queue' = << >> /\ serving' = NoReport /\ sent' = {}
          /\ kept' = kept /\ faults' = faults + 1 /\ faults < MaxFaults
        BY <1>9 DEF ServerEnds
    <2>2. faults' \in 0..MaxFaults
        BY <1>1, <2>1
    <2>3. queue' \in Seq(Threads) /\ Len(queue') <= Backlog
        BY <1>1, <1>2, <2>1
    <2> QED
        BY <1>1, <2>1, <2>2, <2>3 DEF PortTypeOK
<1>10. CASE ServerStarts
    BY <1>10 DEF ServerStarts, PortTypeOK
<1>11. CASE StackStops
    <2>1. kept' \subseteq kept
        BY <1>11 DEF StackStops
    <2>2. /\ port' = port /\ up' = FALSE /\ queue' = << >> /\ serving' = NoReport /\ sent' = {}
          /\ faults' = faults + 1 /\ faults < MaxFaults
        BY <1>11 DEF StackStops
    <2>3. faults' \in 0..MaxFaults
        BY <1>1, <2>2
    <2>4. queue' \in Seq(Threads) /\ Len(queue') <= Backlog
        BY <1>1, <1>2, <2>2
    <2> QED
        BY <1>1, <2>1, <2>2, <2>3, <2>4 DEF PortTypeOK
<1> QED
    BY <1>3, <1>4, <1>5, <1>6, <1>7, <1>8, <1>9, <1>10, <1>11, PortSteps

LEMMA NextQueueOK ==
    ASSUME SessionTypeOK, PortTypeOK, QueueOK, [Next]_vars
    PROVE  QueueOK'
<1>1. /\ queue \in Seq(Threads) /\ Len(queue) \in Nat /\ \A i \in 1..Len(queue) : queue[i] \in Threads
      /\ sent \subseteq Threads /\ serving \in Threads \cup {NoReport} /\ NoReport \notin Threads
    BY LenProperties, ElementOfSeq, ThreadsFacts DEF PortTypeOK
<1>2. PICK n \in Nat : n = Len(queue)
    BY <1>1
<1>3. /\ \A i, j \in 1..n : queue[i] = queue[j] => i = j
      /\ \A i \in 1..n : queue[i] \in Threads /\ queue[i] # serving /\ at'[queue[i]] \in {"send", "done"}
      /\ serving # NoReport => port = "receiver" /\ at'[serving] \in {"send", "done"}
      /\ \A t \in sent : at'[t] = "done"
    BY <1>1, <1>2, Onward DEF QueueOK
<1>4. CASE UNCHANGED <<port, up, queue, sent, serving, kept>>
    BY <1>2, <1>3, <1>4 DEF QueueOK
<1>5. ASSUME NEW t \in Threads, Connect(t) PROVE QueueOK'
    <2>1. /\ Len(queue') = n + 1 /\ queue'[n + 1] = t /\ \A i \in 1..n : queue'[i] = queue[i]
        BY <1>1, <1>2, <1>5, AppendProperties DEF Connect
    <2>2. /\ UNCHANGED <<port, sent, serving>> /\ at[t] = "flow" /\ at'[t] = "send"
        BY <1>5 DEF Connect, Goto, SessionTypeOK
    <2>3. t # serving /\ \A i \in 1..n : queue[i] # t
        BY <1>1, <1>2, <2>2 DEF QueueOK
    <2>4. \A i \in 1..n + 1 : i \in 1..n \/ i = n + 1
        OBVIOUS
    <2>5. \A i, j \in 1..n + 1 : queue'[i] = queue'[j] => i = j
        BY <1>3, <2>1, <2>3, <2>4
    <2>6. \A i \in 1..n + 1 : queue'[i] # serving' /\ at'[queue'[i]] \in {"send", "done"}
        BY <1>3, <2>1, <2>2, <2>3, <2>4
    <2> QED
        BY <1>3, <2>1, <2>2, <2>5, <2>6 DEF QueueOK
<1>6. ASSUME NEW t \in Threads, SendAndClose(t) PROVE QueueOK'
    <2>1. UNCHANGED <<port, queue, serving>> /\ sent' \subseteq sent \cup {t} /\ at'[t] = "done"
        BY <1>6 DEF SendAndClose, Goto, SessionTypeOK
    <2> QED
        BY <1>2, <1>3, <2>1 DEF QueueOK
<1>7. CASE AcceptPost
    <2>1. queue # << >> /\ n # 0
        BY <1>1, <1>2, <1>7, EmptySeq DEF AcceptPost
    <2>2. /\ Len(Tail(queue)) = n - 1 /\ Head(queue) = queue[1]
          /\ \A i \in 1..n - 1 : Tail(queue)[i] = queue[i + 1]
        BY <1>1, <1>2, <2>1, HeadTailProperties
    <2>3. /\ serving' = Head(queue) /\ queue' = Tail(queue) /\ port' = "receiver" /\ sent' = sent
          /\ port = "receiver"
        BY <1>7 DEF AcceptPost
    <2>4. \A i \in 1..n - 1 : i + 1 \in 1..n /\ i + 1 # 1
        OBVIOUS
    <2>5. 1 \in 1..n
        BY <2>1
    <2>6. /\ Len(queue') = n - 1 /\ serving' = queue[1]
          /\ \A i \in 1..n - 1 : queue'[i] = queue[i + 1]
        BY <2>2, <2>3
    <2>7. \A i, j \in 1..n - 1 : queue'[i] = queue'[j] => i = j
        BY <1>3, <2>4, <2>6
    <2>8. \A i \in 1..n - 1 : queue'[i] # serving' /\ at'[queue'[i]] \in {"send", "done"}
        BY <1>3, <2>4, <2>5, <2>6
    <2> QED
        BY <1>3, <2>3, <2>5, <2>6, <2>7, <2>8 DEF QueueOK
<1>8. CASE CommitPost \/ PostFails
    <2>1. UNCHANGED <<port, queue>> /\ sent' \subseteq sent /\ serving' = NoReport
        BY <1>8 DEF CommitPost, PostFails
    <2> QED
        BY <1>1, <1>2, <1>3, <2>1 DEF QueueOK
<1>9. ASSUME NEW w \in Workers, ReceiveMetrics(w) PROVE QueueOK'
    <2>1. PICK i \in 1..n : queue' = RemoveAt(queue, i)
        BY <1>1, <1>2, <1>9 DEF ReceiveMetrics
    <2>2. /\ Len(queue') = n - 1
          /\ \A j \in 1..n - 1 : queue'[j] = queue[IF j < i THEN j ELSE j + 1]
        BY <1>1, <1>2, <2>1, RemoveAtFacts
    <2>3. \A j \in 1..n - 1 : (IF j < i THEN j ELSE j + 1) \in 1..n
        OBVIOUS
    <2>4. \A j, k \in 1..n - 1 :
              (IF j < i THEN j ELSE j + 1) = (IF k < i THEN k ELSE k + 1) => j = k
        OBVIOUS
    <2>5. UNCHANGED <<port, serving>> /\ sent' \subseteq sent
        BY <1>9 DEF ReceiveMetrics
    <2>6. \A j, k \in 1..n - 1 : queue'[j] = queue'[k] => j = k
        BY <1>3, <2>2, <2>3, <2>4
    <2>7. \A j \in 1..n - 1 : queue'[j] # serving' /\ at'[queue'[j]] \in {"send", "done"}
        BY <1>3, <2>2, <2>3, <2>5
    <2> QED
        BY <1>3, <2>2, <2>5, <2>6, <2>7 DEF QueueOK
<1>10. CASE ServerEnds \/ StackStops
    <2>1. queue' = << >> /\ serving' = NoReport /\ sent' = {}
        BY <1>10 DEF ServerEnds, StackStops
    <2>2. Len(queue') = 0
        BY <2>1, EmptySeq
    <2> QED
        BY <2>1, <2>2 DEF QueueOK
<1>11. CASE ServerStarts
    BY <1>2, <1>3, <1>11 DEF ServerStarts, QueueOK
<1> QED
    BY <1>4, <1>5, <1>6, <1>7, <1>8, <1>9, <1>10, <1>11, PortSteps


--------------------------------------------------------------------------------
\* What a step does to the advisor with the table, and to the store.
AdvisorActs ==
    \/ AdvisorStarts \/ AdvisorEnds
    \/ Query \/ CreatesFile \/ QueryMax \/ QueryMaxFails
    \/ \E succeeds \in BOOLEAN : Explain(succeeds) \/ Store(succeeds)

LEMMA AdvisorSteps ==
    ASSUME tables \in BOOLEAN, [Next]_vars
    PROVE  \/ UNCHANGED advisorVars /\ kept' = kept
           \/ AdvisorActs /\ kept' = kept
           \/ CreateTables /\ kept' = kept
           \/ CommitPost
           \/ StackStops /\ Wipe /\ kept' = {}
<1>1. ASSUME NEW t \in Threads, ReadCounter(t) \/ SessionStep(t)
      PROVE  UNCHANGED advisorVars /\ kept' = kept
    BY <1>1 DEF ReadCounter, SessionStep, WriteCounter, ReturnsEarly, Connect, ConnectFails,
                SendAndClose, portVars
<1>2. CASE AcceptPost \/ PostFails \/ JavaStep \/ ServerEnds
    BY <1>2 DEF AcceptPost, PostFails, JavaStep, ServerEnds, portVars
<1>3. CASE \E w \in Workers : ReceiveMetrics(w)
    BY <1>3 DEF ReceiveMetrics
<1>4. CASE UNCHANGED vars
    BY <1>4 DEF vars, portVars
<1>5. CASE AdvisorStep
    BY <1>5 DEF AdvisorStep, AdvisorActs, portVars
<1>6. CASE AdvisorComesUp \/ AdvisorFault
    BY <1>6 DEF AdvisorComesUp, AdvisorFault, AdvisorActs, portVars
<1>7. CASE ServerStarts
    BY <1>7 DEF ServerStarts
<1>8. CASE StackStops
    <2>1. \/ Wipe /\ kept' = {}
          \/ UNCHANGED <<advisorVars, kept>>
        BY <1>8 DEF StackStops
    <2> QED
        BY <1>8, <2>1
<1> QED
    BY <1>1, <1>2, <1>3, <1>4, <1>5, <1>6, <1>7, <1>8 DEF Next, ReceiverStep

LEMMA StoreSteps ==
    ASSUME [Next]_vars
    PROVE  \/ UNCHANGED storeVars
           \/ StoreStep
           \/ StoreEnds
           \/ \E w \in Workers : ReceiveMetrics(w)
<1>1. ASSUME NEW t \in Threads, ReadCounter(t) \/ SessionStep(t)
      PROVE  UNCHANGED storeVars
    BY <1>1 DEF ReadCounter, SessionStep, WriteCounter, ReturnsEarly, Connect, ConnectFails,
                SendAndClose
<1>2. CASE \/ ReceiverStep \/ PostFails \/ ServerStarts \/ StackStops
           \/ AdvisorComesUp \/ AdvisorStep \/ AdvisorFault
    BY <1>2 DEF ReceiverStep, AcceptPost, CommitPost, PostFails, AdvisorComesUp, AdvisorStep,
                AdvisorFault, ServerStarts, StackStops
<1>3. CASE JavaStep
    BY <1>3 DEF JavaStep
<1>4. CASE ServerEnds
    BY <1>4 DEF ServerEnds, StoreEnds
<1>5. CASE UNCHANGED vars
    BY <1>5 DEF vars
<1> QED
    BY <1>1, <1>2, <1>3, <1>4, <1>5 DEF Next

LEMMA PortStays ==
    ASSUME [Next]_vars
    PROVE  /\ port' = port
           /\ \/ up' = up
              \/ up' = FALSE
              \/ up' = TRUE /\ (port = "receiver" => CreateTables)
<1>1. CASE UNCHANGED <<port, up, queue, sent, serving, kept>>
    BY <1>1
<1>2. ASSUME NEW t \in Threads, Connect(t) \/ SendAndClose(t) PROVE port' = port /\ up' = up
    BY <1>2 DEF Connect, SendAndClose
<1>3. CASE AcceptPost \/ CommitPost \/ PostFails
    BY <1>3 DEF AcceptPost, CommitPost, PostFails
<1>4. CASE \E w \in Workers : ReceiveMetrics(w)
    BY <1>4 DEF ReceiveMetrics
<1>5. CASE ServerEnds \/ StackStops
    BY <1>5 DEF ServerEnds, StackStops
<1>6. CASE ServerStarts
    BY <1>6 DEF ServerStarts
<1> QED
    BY <1>1, <1>2, <1>3, <1>4, <1>5, <1>6, PortSteps

--------------------------------------------------------------------------------
\* A session that is done and has no connection gets none.
LEMMA ConnectionsClosed ==
    ASSUME SessionTypeOK, PortTypeOK, [Next]_vars,
           NEW t \in Threads, at[t] = "done", t # serving, \A i \in 1..Len(queue) : queue[i] # t
    PROVE  /\ at'[t] = "done" /\ t # serving'
           /\ \A i \in 1..Len(queue') : queue'[i] # t
<1>1. at'[t] = "done" /\ t # NoReport
    BY Onward, ThreadsFacts
<1>2. queue \in Seq(Threads)
    BY DEF PortTypeOK
<1>3. PICK n \in Nat : n = Len(queue) /\ \A i \in 1..n : queue[i] # t
    BY <1>2, LenProperties
<1>4. CASE UNCHANGED <<port, up, queue, sent, serving, kept>>
    BY <1>1, <1>4
<1>5. ASSUME NEW s \in Threads, Connect(s)
      PROVE  serving' = serving /\ \A i \in 1..Len(queue') : queue'[i] # t
    <2>1. /\ Len(queue') = n + 1 /\ queue'[n + 1] = s /\ \A i \in 1..n : queue'[i] = queue[i]
        BY <1>2, <1>3, <1>5, AppendProperties DEF Connect
    <2>2. s # t /\ serving' = serving
        BY <1>5 DEF Connect
    <2>3. \A i \in 1..n + 1 : i \in 1..n \/ i = n + 1
        OBVIOUS
    <2> QED
        BY <1>3, <2>1, <2>2, <2>3
<1>6. ASSUME NEW s \in Threads, SendAndClose(s) PROVE serving' = serving /\ queue' = queue
    BY <1>6 DEF SendAndClose
<1>7. CASE AcceptPost
    <2>1. queue # << >> /\ serving' = Head(queue) /\ queue' = Tail(queue)
        BY <1>7 DEF AcceptPost
    <2>2. n # 0
        BY <1>2, <1>3, <2>1, EmptySeq
    <2>3. /\ Len(queue') = n - 1 /\ serving' = queue[1]
          /\ \A i \in 1..n - 1 : queue'[i] = queue[i + 1]
        BY <1>2, <1>3, <2>1, HeadTailProperties
    <2>4. 1 \in 1..n /\ \A i \in 1..n - 1 : i + 1 \in 1..n
        BY <2>2
    <2> QED
        BY <1>1, <1>3, <2>3, <2>4
<1>8. CASE CommitPost \/ PostFails
    <2>1. queue' = queue /\ serving' = NoReport
        BY <1>8 DEF CommitPost, PostFails
    <2> QED
        BY <1>1, <2>1
<1>9. ASSUME NEW w \in Workers, ReceiveMetrics(w)
      PROVE  serving' = serving /\ \A i \in 1..Len(queue') : queue'[i] # t
    <2>1. PICK i \in 1..n : queue' = RemoveAt(queue, i)
        BY <1>2, <1>3, <1>9, LenProperties DEF ReceiveMetrics
    <2>2. /\ Len(queue') = n - 1
          /\ \A j \in 1..n - 1 : queue'[j] = queue[IF j < i THEN j ELSE j + 1]
        BY <1>2, <1>3, <2>1, RemoveAtFacts
    <2>3. \A j \in 1..n - 1 : (IF j < i THEN j ELSE j + 1) \in 1..n
        OBVIOUS
    <2>4. serving' = serving
        BY <1>9 DEF ReceiveMetrics
    <2> QED
        BY <1>3, <2>2, <2>3, <2>4
<1>10. CASE ServerEnds \/ StackStops
    <2>1. queue' = << >> /\ serving' = NoReport
        BY <1>10 DEF ServerEnds, StackStops
    <2>2. Len(queue') = 0
        BY <2>1, EmptySeq
    <2> QED
        BY <1>1, <2>1, <2>2
<1>11. CASE ServerStarts
    BY <1>1, <1>11 DEF ServerStarts
<1> QED
    BY <1>1, <1>4, <1>5, <1>6, <1>7, <1>8, <1>9, <1>10, <1>11, PortSteps


--------------------------------------------------------------------------------
\* What was recorded.
LEMMA Received ==
    ASSUME PortTypeOK, NEW w \in Workers, ReceiveMetrics(w)
    PROVE  \E i \in 1..Len(queue) :
              /\ queue[i] \in sent /\ queue[i] \in Threads
              /\ AddFirst(w, queue[i]) /\ queue' = RemoveAt(queue, i)
              /\ port = "spring" /\ serving' = serving
<1>1. DOMAIN queue = 1..Len(queue) /\ \A i \in 1..Len(queue) : queue[i] \in Threads
    BY LenProperties, ElementOfSeq DEF PortTypeOK
<1>2. PICK i \in 1..Len(queue) :
          queue[i] \in sent /\ AddFirst(w, queue[i]) /\ queue' = RemoveAt(queue, i)
    BY <1>1 DEF ReceiveMetrics
<1> QED
    BY <1>1, <1>2 DEF ReceiveMetrics

LEMMA AdvisorBooks ==
    ASSUME AdvisorActs
    PROVE  /\ metrics' = metrics /\ tables' = tables
           /\ batch' \subseteq batch \cup Rows
           /\ UNION polls' \subseteq (UNION polls) \cup batch
<1>1. CASE Query
    BY <1>1 DEF Query, Rows
<1>2. CASE QueryMax
    BY <1>2 DEF QueryMax, Polled
<1>3. CASE QueryMaxFails
    BY <1>3 DEF QueryMaxFails
<1>4. CASE AdvisorStarts \/ AdvisorEnds \/ CreatesFile
    BY <1>4 DEF AdvisorStarts, AdvisorEnds, CreatesFile
<1>5. ASSUME NEW succeeds \in BOOLEAN, Explain(succeeds) \/ Store(succeeds)
      PROVE  /\ metrics' = metrics /\ tables' = tables
             /\ batch' \subseteq batch /\ polls' = polls
    BY <1>5 DEF Explain, Store
<1> QED
    BY <1>1, <1>2, <1>3, <1>4, <1>5 DEF AdvisorActs

Arrived == {arrivals[i] : i \in 1..Len(arrivals)}
Tabled == kept \cup batch \cup (UNION polls)

LEMMA ArrivedGrows ==
    ASSUME PortTypeOK, StoreTypeOK(Threads), [Next]_vars, NEW t \in Arrived'
    PROVE  \/ t \in Arrived
           \/ \E w \in Workers : \E i \in 1..Len(queue) :
                 /\ t = queue[i] /\ ReceiveMetrics(w) /\ queue[i] \in sent
                 /\ queue' = RemoveAt(queue, i) /\ port = "spring" /\ serving' = serving
<1>1. CASE arrivals' = arrivals
    BY <1>1 DEF Arrived
<1>2. CASE StoreEnds
    <2>1. Len(arrivals') = 0
        BY <1>2, EmptySeq DEF StoreEnds
    <2> QED
        BY <2>1 DEF Arrived
<1>3. ASSUME NEW w \in Workers, ReceiveMetrics(w)
      PROVE  \/ t \in Arrived
             \/ \E i \in 1..Len(queue) :
                   /\ t = queue[i] /\ ReceiveMetrics(w) /\ queue[i] \in sent
                   /\ queue' = RemoveAt(queue, i) /\ port = "spring" /\ serving' = serving
    <2>1. PICK i \in 1..Len(queue) :
              /\ queue[i] \in sent /\ queue[i] \in Threads
              /\ AddFirst(w, queue[i]) /\ queue' = RemoveAt(queue, i)
              /\ port = "spring" /\ serving' = serving
        BY <1>3, Received
    <2>2. PICK a \in Nat : a = Len(arrivals)
        BY StoreFacts
    <2>3. /\ Len(arrivals') = a + 1 /\ arrivals'[a + 1] = queue[i]
          /\ \A j \in 1..a : arrivals'[j] = arrivals[j]
        BY <2>1, <2>2, Added
    <2>4. PICK j \in 1..a + 1 : t = arrivals'[j]
        BY <2>3 DEF Arrived
    <2>5. j \in 1..a \/ j = a + 1
        OBVIOUS
    <2>6. t \in Arrived \/ t = queue[i]
        BY <2>2, <2>3, <2>4, <2>5 DEF Arrived
    <2> QED
        BY <1>3, <2>1, <2>6
<1>4. CASE StoreStep
    <2>1. arrivals' = arrivals
        BY <1>4 DEF StoreStep, BeginSize, EndSize, RemoveLast, ReadRecent, ReadIsEmpty,
                    PeekFirst, Respond
    <2> QED
        BY <1>1, <2>1
<1>5. CASE UNCHANGED storeVars
    BY <1>1, <1>5 DEF storeVars
<1> QED
    BY <1>2, <1>3, <1>4, <1>5, StoreSteps

LEMMA TabledGrows ==
    ASSUME tables \in BOOLEAN, Rows = kept, [Next]_vars, NEW t \in Tabled'
    PROVE  t \in Tabled \/ (CommitPost /\ t = serving)
<1>1. CASE UNCHANGED advisorVars /\ kept' = kept
    BY <1>1 DEF advisorVars, Tabled
<1>2. CASE AdvisorActs /\ kept' = kept
    BY <1>2, AdvisorBooks DEF Tabled
<1>3. CASE CreateTables /\ kept' = kept
    BY <1>3 DEF CreateTables, Tabled
<1>4. CASE CommitPost
    BY <1>4 DEF CommitPost, Insert, Tabled
<1>5. CASE StackStops /\ Wipe /\ kept' = {}
    BY <1>5 DEF Wipe, Tabled
<1> QED
    BY <1>1, <1>2, <1>3, <1>4, <1>5, AdvisorSteps

LEMMA RecordedThreads ==
    ASSUME PortTypeOK, AdvisorTypeOK(Threads), StoreTypeOK(Threads)
    PROVE  Recorded = Tabled \cup Arrived /\ Recorded \subseteq Threads
<1>1. Recorded = Tabled \cup Arrived
    BY DEF Recorded, Tabled, Arrived
<1>2. Arrived \subseteq Threads
    BY StoreFacts DEF Arrived
<1>3. Tabled \subseteq Threads
    BY DEF Tabled, PortTypeOK, AdvisorTypeOK
<1> QED
    BY <1>1, <1>2, <1>3

LEMMA NextRecordedOnce ==
    ASSUME TypeOK, QueueOK, TableOK, RecordedOnce, [Next]_vars
    PROVE  RecordedOnce'
<1> USE TypeParts
<1>1. tables \in BOOLEAN /\ Rows = kept /\ Recorded \subseteq Threads
      /\ Recorded = Tabled \cup Arrived
    BY RecordedThreads DEF TableOK, AdvisorTypeOK
<1>2. Recorded' = Tabled' \cup Arrived'
    BY DEF Recorded, Tabled, Arrived
<1>3. ASSUME NEW t \in Recorded
      PROVE  at'[t] = "done" /\ t # serving' /\ \A i \in 1..Len(queue') : queue'[i] # t
    <2>1. at[t] = "done" /\ t # serving /\ \A i \in 1..Len(queue) : queue[i] # t
        BY <1>3 DEF RecordedOnce
    <2> QED
        BY <1>1, <2>1, ConnectionsClosed
<1>4. ASSUME CommitPost
      PROVE  /\ at'[serving] = "done" /\ serving # serving'
             /\ \A i \in 1..Len(queue') : queue'[i] # serving
    <2>1. serving \in sent /\ serving' = NoReport /\ queue' = queue
        BY <1>4 DEF CommitPost
    <2>2. serving \in Threads
        BY <2>1 DEF PortTypeOK
    <2>3. at[serving] = "done" /\ \A i \in 1..Len(queue) : queue[i] # serving
        BY <2>1 DEF QueueOK
    <2>4. at'[serving] = "done"
        BY <2>2, <2>3, Onward
    <2> QED
        BY <2>1, <2>2, <2>3, <2>4, ThreadsFacts
<1>5. ASSUME NEW i \in 1..Len(queue), queue[i] \in sent, queue' = RemoveAt(queue, i),
             port = "spring", serving' = serving
      PROVE  /\ at'[queue[i]] = "done" /\ queue[i] # serving'
             /\ \A j \in 1..Len(queue') : queue'[j] # queue[i]
    <2>1. queue[i] \in Threads /\ at[queue[i]] = "done"
        BY <1>5 DEF PortTypeOK, QueueOK
    <2>2. queue[i] # serving'
        BY <1>5, <2>1, ThreadsFacts DEF QueueOK
    <2>3. PICK n \in Nat : n = Len(queue)
        BY LenProperties DEF PortTypeOK
    <2>4. /\ Len(queue') = n - 1
          /\ \A j \in 1..n - 1 : queue'[j] = queue[IF j < i THEN j ELSE j + 1]
        BY <1>5, <2>3, RemoveAtFacts DEF PortTypeOK
    <2>5. i \in 1..n /\ \A j, k \in 1..n : queue[j] = queue[k] => j = k
        BY <2>3 DEF QueueOK
    <2>6. \A j \in 1..n - 1 : /\ (IF j < i THEN j ELSE j + 1) \in 1..n
                              /\ (IF j < i THEN j ELSE j + 1) # i
        BY <2>5
    <2>7. \A j \in 1..n - 1 : queue'[j] # queue[i]
        BY <2>4, <2>5, <2>6
    <2> QED
        BY <2>1, <2>2, <2>4, <2>7, Onward
<1>6. ASSUME NEW t \in Tabled'
      PROVE  at'[t] = "done" /\ t # serving' /\ \A i \in 1..Len(queue') : queue'[i] # t
    <2>1. t \in Tabled \/ (CommitPost /\ t = serving)
        BY <1>1, <1>6, TabledGrows
    <2> QED
        BY <1>1, <1>3, <1>4, <2>1
<1>7. ASSUME NEW t \in Arrived'
      PROVE  at'[t] = "done" /\ t # serving' /\ \A i \in 1..Len(queue') : queue'[i] # t
    <2>1. CASE t \in Arrived
        BY <1>1, <1>3, <2>1
    <2>2. CASE t \notin Arrived
        <3>1. PICK w \in Workers, i \in 1..Len(queue) :
                 /\ t = queue[i] /\ ReceiveMetrics(w) /\ queue[i] \in sent
                 /\ queue' = RemoveAt(queue, i) /\ port = "spring" /\ serving' = serving
            BY <1>7, <2>2, ArrivedGrows
        <3> QED
            BY <1>5, <3>1
    <2> QED
        BY <2>1, <2>2
<1> QED
    BY <1>2, <1>6, <1>7 DEF RecordedOnce


--------------------------------------------------------------------------------
\* The table.
LEMMA TableFacts ==
    ASSUME PortTypeOK, AdvisorTypeOK(Threads)
    PROVE  /\ metrics \in Seq(Threads) /\ Len(metrics) \in Nat
           /\ DOMAIN metrics = 1..Len(metrics)
           /\ \A i \in 1..Len(metrics) : metrics[i] \in Threads
           /\ Rows = {metrics[i] : i \in 1..Len(metrics)}
<1>1. metrics \in Seq(Threads)
    BY DEF AdvisorTypeOK
<1>2. /\ Len(metrics) \in Nat /\ DOMAIN metrics = 1..Len(metrics)
      /\ \A i \in 1..Len(metrics) : metrics[i] \in Threads
    BY <1>1, LenProperties, ElementOfSeq
<1> QED
    BY <1>1, <1>2 DEF Rows

LEMMA Inserted ==
    ASSUME PortTypeOK, AdvisorTypeOK(Threads), CommitPost
    PROVE  /\ serving \in Threads /\ serving \in sent
           /\ metrics' \in Seq(Threads) /\ Len(metrics') = Len(metrics) + 1
           /\ metrics'[Len(metrics) + 1] = serving
           /\ \A i \in 1..Len(metrics) : metrics'[i] = metrics[i]
           /\ DOMAIN metrics' = 1..Len(metrics) + 1
           /\ \A i \in 1..Len(metrics) + 1 : i \in 1..Len(metrics) \/ i = Len(metrics) + 1
<1>1. serving \in Threads /\ serving \in sent /\ metrics' = Append(metrics, serving)
    BY DEF CommitPost, Insert, PortTypeOK
<1>2. PICK l \in Nat : l = Len(metrics)
    BY TableFacts
<1>3. /\ metrics' \in Seq(Threads) /\ Len(metrics') = l + 1 /\ metrics'[l + 1] = serving
      /\ \A i \in 1..l : metrics'[i] = metrics[i]
    BY <1>1, <1>2, TableFacts, AppendProperties
<1>4. DOMAIN metrics' = 1..l + 1
    BY <1>3, LenProperties
<1>5. \A i \in 1..l + 1 : i \in 1..l \/ i = l + 1
    OBVIOUS
<1> QED
    BY <1>1, <1>2, <1>3, <1>4, <1>5

LEMMA NextTables ==
    ASSUME tables \in BOOLEAN, port = "receiver" /\ up => tables, [Next]_vars
    PROVE  port' = "receiver" /\ up' => tables'
<1>1. \/ tables' = tables
      \/ tables' = TRUE
      \/ up' = FALSE
    <2>1. AdvisorActs => tables' = tables
        BY AdvisorBooks
    <2>2. CommitPost => tables' = tables
        BY DEF CommitPost, Insert
    <2>3. StackStops => up' = FALSE
        BY DEF StackStops
    <2> QED
        BY <2>1, <2>2, <2>3, AdvisorSteps DEF advisorVars, CreateTables
<1>2. CreateTables => tables' = TRUE
    BY DEF CreateTables
<1> QED
    BY <1>1, <1>2, PortStays

LEMMA NextTableOK ==
    ASSUME TypeOK, QueueOK, TableOK, RecordedOnce, [Next]_vars
    PROVE  TableOK'
<1> USE TypeParts
<1>1. port' = "receiver" /\ up' => tables'
    BY NextTables DEF TableOK, AdvisorTypeOK
<1>2. metrics' = metrics /\ kept' = kept => TableOK'
    BY <1>1 DEF TableOK, Rows
<1>3. CASE CommitPost
    <2>1. PICK l \in Nat : l = Len(metrics)
        BY TableFacts
    <2>2. /\ serving \in Threads /\ Len(metrics') = l + 1 /\ metrics'[l + 1] = serving
          /\ \A i \in 1..l : metrics'[i] = metrics[i]
          /\ DOMAIN metrics' = 1..l + 1 /\ \A i \in 1..l + 1 : i \in 1..l \/ i = l + 1
        BY <1>3, <2>1, Inserted
    <2>3. \A i \in 1..l : i \in 1..l + 1
        OBVIOUS
    <2>4. /\ Rows = kept /\ Cardinality(kept) = l /\ Rows = {metrics[i] : i \in 1..l}
          /\ \A i, j \in 1..l : metrics[i] = metrics[j] => i = j
        BY <2>1, TableFacts DEF TableOK
    <2>5. serving \notin kept /\ kept' = kept \cup {serving}
        BY <1>3 DEF CommitPost, RecordedOnce, Recorded
    <2>6. Rows' = kept'
        <3>1. Rows' = {metrics'[i] : i \in 1..l + 1}
            BY <2>2 DEF Rows
        <3>2. l + 1 \in 1..l + 1
            OBVIOUS
        <3> QED
            <4>1. \A i \in 1..l + 1 : metrics'[i] \in kept'
                BY <2>2, <2>4, <2>5
            <4>2. \A t \in kept' : \E i \in 1..l + 1 : metrics'[i] = t
                <5>1. \A t \in kept : \E i \in 1..l : metrics[i] = t
                    BY <2>4
                <5> QED
                    BY <2>2, <2>3, <2>5, <3>2, <5>1
            <4> QED
                BY <3>1, <4>1, <4>2
    <2>7. Cardinality(kept') = l + 1
        <3>1. IsFiniteSet(kept)
            BY ThreadsFacts DEF PortTypeOK
        <3> QED
            BY <2>4, <2>5, <3>1, FS_AddElement
    <2>8. \A i \in 1..l : metrics[i] # serving
        BY <2>4, <2>5
    <2>9. \A i, j \in 1..l + 1 : metrics'[i] = metrics'[j] => i = j
        BY <2>2, <2>4, <2>8
    <2> QED
        BY <1>1, <2>2, <2>6, <2>7, <2>9 DEF TableOK
<1>4. CASE StackStops /\ Wipe /\ kept' = {}
    <2>1. metrics' = << >> /\ Len(metrics') = 0 /\ DOMAIN metrics' = {}
        BY <1>4, EmptySeq DEF Wipe
    <2>2. Rows' = {} /\ Cardinality(kept') = 0
        BY <1>4, <2>1, FS_EmptySet DEF Rows
    <2> QED
        BY <1>1, <1>4, <2>1, <2>2 DEF TableOK
<1>5. CASE AdvisorActs /\ kept' = kept
    BY <1>2, <1>5, AdvisorBooks
<1>6. CASE CreateTables /\ kept' = kept
    BY <1>2, <1>6 DEF CreateTables
<1>7. CASE UNCHANGED advisorVars /\ kept' = kept
    BY <1>2, <1>7 DEF advisorVars
<1> QED
    BY <1>3, <1>4, <1>5, <1>6, <1>7, AdvisorSteps DEF AdvisorTypeOK

\* Which file the advisor has open, and whether the dashboard's is there.
FileOK ==
    /\ dashboardFile \in BOOLEAN
    /\ tables /\ Home = "dashboard" => dashboardFile
    /\ reads \in {"none", "root", "dashboard"}
    /\ reads = "none" <=> advisor = "down"
    /\ advisor \in {"max", "explain", "store"} => reads = Home

LEMMA NextFileOK ==
    ASSUME TypeOK, [Next]_vars
    PROVE  FileOK'
<1> USE TypeParts
<1>1. FileOK /\ tables \in BOOLEAN /\ advisor \in AdvisorPlaces
    BY DEF AdvisorTypeOK, FileOK
<1>2. /\ dashboardFile' = dashboardFile /\ (tables' => tables) /\ reads' = reads
      /\ advisor' = advisor \/ (advisor # "down" /\ advisor' = "poll")
      => FileOK'
    BY <1>1 DEF FileOK
<1>3. CASE UNCHANGED advisorVars
    BY <1>2, <1>3 DEF advisorVars
<1>4. CASE CreateTables \/ Wipe \/ CreatesFile
    BY <1>1, <1>4 DEF CreateTables, Wipe, CreatesFile, FileOK
<1>5. CASE CommitPost
    BY <1>2, <1>5 DEF CommitPost, Insert
<1>6. CASE AdvisorStarts \/ AdvisorEnds
    BY <1>1, <1>6 DEF AdvisorStarts, AdvisorEnds, FileOK
<1>7. CASE Query
    BY <1>1, <1>7, HomeAssumption DEF Query, FileOK
<1>8. CASE QueryMax
    BY <1>1, <1>8 DEF QueryMax, Polled, FileOK
<1>9. CASE QueryMaxFails
    BY <1>2, <1>9 DEF QueryMaxFails
<1>10. ASSUME NEW succeeds \in BOOLEAN, Explain(succeeds) \/ Store(succeeds)
       PROVE  FileOK'
    <2>1. /\ advisor \in {"explain", "store"} /\ advisor' \in {"store", "poll"}
          /\ tables' = tables /\ reads' = reads
        BY <1>10 DEF Explain, Store
    <2>2. dashboardFile' \in BOOLEAN /\ (dashboardFile => dashboardFile')
        BY <1>1, <1>10 DEF Explain, Store, FileOK
    <2> QED
        BY <1>1, <2>1, <2>2 DEF FileOK
<1> QED
    BY <1>1, <1>3, <1>4, <1>5, <1>6, <1>7, <1>8, <1>9, <1>10, AdvisorSteps DEF AdvisorActs

LEMMA NextAdvisorTypeOK ==
    ASSUME TypeOK, QueueOK, TableOK, [Next]_vars
    PROVE  AdvisorTypeOK(Threads)'
<1> USE TypeParts
<1>1. PICK n \in Nat : n = Cardinality(Threads)
    BY ThreadsFacts
<1>2. /\ metrics \in Seq(Threads) /\ (metrics # <<>> => tables) /\ cursor \in 0..n
      /\ advisor \in AdvisorPlaces /\ polls \subseteq SUBSET Threads
      /\ wiped \in BOOLEAN /\ tables \in BOOLEAN
      /\ batch \subseteq Threads /\ between \subseteq Threads
      /\ explained \subseteq Threads /\ dropped \subseteq Threads
    BY <1>1 DEF AdvisorTypeOK
<1>3. /\ metrics' \in Seq(Threads) /\ (metrics' # <<>> => tables') /\ cursor' \in 0..n
      /\ advisor' \in AdvisorPlaces /\ polls' \subseteq SUBSET Threads
      /\ wiped' \in BOOLEAN /\ tables' \in BOOLEAN
      /\ batch' \subseteq Threads /\ between' \subseteq Threads
      /\ explained' \subseteq Threads /\ dropped' \subseteq Threads
      => AdvisorTypeOK(Threads)'
    BY <1>1, NextFileOK DEF AdvisorTypeOK, FileOK
<1>4. CASE UNCHANGED advisorVars
    BY <1>2, <1>3, <1>4 DEF advisorVars
<1>5. CASE CreateTables
    BY <1>2, <1>3, <1>5 DEF CreateTables
<1>6. CASE CommitPost
    <2>1. serving \in Threads /\ metrics' \in Seq(Threads)
        BY <1>6, Inserted
    <2>2. tables
        <3>1. port = "receiver" /\ up
            BY <1>6, <2>1, ThreadsFacts DEF QueueOK, CommitPost
        <3> QED
            BY <3>1 DEF TableOK
    <2>3. /\ between' \subseteq between \cup {serving}
          /\ UNCHANGED <<tables, cursor, advisor, batch, polls, wiped, explained, dropped>>
        BY <1>6 DEF CommitPost, Insert
    <2> QED
        BY <1>2, <1>3, <2>1, <2>2, <2>3
<1>7. CASE Wipe \/ CreatesFile \/ AdvisorStarts
    BY <1>2, <1>3, <1>7, EmptySeq DEF Wipe, CreatesFile, AdvisorStarts, AdvisorPlaces
<1>8. CASE Query
    <2>1. batch' \subseteq Rows /\ Rows \subseteq Threads
        BY <1>8, TableFacts DEF Query, Rows
    <2> QED
        BY <1>2, <1>3, <1>8, <2>1 DEF Query, AdvisorPlaces
<1>9. CASE QueryMax
    <2>1. Len(metrics) \in 0..n
        <3>1. PICK m \in Nat : m = Cardinality(kept) /\ m <= n
            BY <1>1, ThreadsFacts DEF PortTypeOK
        <3> QED
            BY <3>1 DEF TableOK
    <2>2. /\ cursor' = Len(metrics) /\ polls' = polls \cup {batch} /\ advisor' = "explain"
          /\ UNCHANGED <<tables, metrics, batch, between, wiped, explained, dropped>>
        BY <1>9 DEF QueryMax, Polled
    <2> QED
        BY <1>2, <1>3, <2>1, <2>2 DEF AdvisorPlaces
<1>10. CASE QueryMaxFails
    BY <1>2, <1>3, <1>10 DEF QueryMaxFails, AdvisorPlaces
<1>11. CASE AdvisorEnds
    <2>1. /\ cursor' = 0 /\ advisor' = "down" /\ batch' = {} /\ polls' = {} /\ between' = {}
          /\ wiped' = FALSE /\ dropped' = {} /\ UNCHANGED <<tables, metrics, explained>>
        BY <1>11 DEF AdvisorEnds
    <2>2. 0 \in 0..n
        BY <1>1
    <2> QED
        BY <1>2, <1>3, <2>1, <2>2 DEF AdvisorPlaces
<1>12. ASSUME NEW succeeds \in BOOLEAN, Explain(succeeds) \/ Store(succeeds)
       PROVE  AdvisorTypeOK(Threads)'
    <2>1. /\ explained' \subseteq explained \cup batch /\ dropped' \subseteq dropped \cup batch
          /\ batch' \subseteq batch /\ advisor' \in AdvisorPlaces
          /\ UNCHANGED <<tables, metrics, cursor, polls, between, wiped>>
        BY <1>12 DEF Explain, Store, AdvisorPlaces
    <2> QED
        BY <1>2, <1>3, <2>1
<1> QED
    BY <1>4, <1>5, <1>6, <1>7, <1>8, <1>9, <1>10, <1>11, <1>12, AdvisorSteps
    DEF AdvisorActs, AdvisorTypeOK


--------------------------------------------------------------------------------
\* What the advisor makes of the rows.

\* A row that was polled has been passed; the cursor stays in the table it was moved over.
PolledPassed == \A i \in 1..Len(metrics) : metrics[i] \in Polls => i <= cursor
CursorInTable ==
    /\ wiped \/ cursor <= Len(metrics)
    /\ advisor = "down" => cursor = 0

\* Between its queries a poll holds the newest rows of the table as it was, and what came
\* since is known.
BatchPolled ==
    advisor = "max" =>
        \E n \in cursor + 1..Len(metrics) :
            /\ batch = {metrics[i] : i \in {j \in cursor + 1..n : j + WindowSize > n}}
            /\ \A i \in n + 1..Len(metrics) : metrics[i] \in between

LEMMA NextPolledPassed ==
    ASSUME TypeOK, RecordedOnce, PolledPassed, [Next]_vars
    PROVE  PolledPassed'
<1> USE TypeParts
<1>1. metrics' = metrics /\ polls' = polls /\ cursor' = cursor => PolledPassed'
    BY DEF PolledPassed, Polls
<1>2. CASE UNCHANGED advisorVars
    BY <1>1, <1>2 DEF advisorVars
<1>3. CASE CreateTables
    BY <1>1, <1>3 DEF CreateTables
<1>4. CASE CommitPost
    <2>1. serving \notin Polls
        BY <1>4, Inserted DEF RecordedOnce, Recorded, Polls
    <2>2. polls' = polls /\ cursor' = cursor
        BY <1>4 DEF CommitPost, Insert
    <2>3. PICK l \in Nat : l = Len(metrics)
        BY TableFacts
    <2>4. /\ Len(metrics') = l + 1 /\ metrics'[l + 1] = serving
          /\ \A i \in 1..l : metrics'[i] = metrics[i]
          /\ \A i \in 1..l + 1 : i \in 1..l \/ i = l + 1
        BY <1>4, <2>3, Inserted
    <2>5. \A i \in 1..l : metrics[i] \in Polls => i <= cursor
        BY <2>3 DEF PolledPassed
    <2>6. \A i \in 1..l + 1 : metrics'[i] \in Polls => i <= cursor
        BY <2>1, <2>4, <2>5
    <2> QED
        BY <2>2, <2>4, <2>6 DEF PolledPassed, Polls
<1>5. CASE Wipe
    <2>1. Len(metrics') = 0
        BY <1>5, EmptySeq DEF Wipe
    <2> QED
        BY <2>1 DEF PolledPassed
<1>6. CASE QueryMax
    <2>1. cursor' = Len(metrics) /\ metrics' = metrics
        BY <1>6 DEF QueryMax, Polled
    <2>2. \A i \in 1..Len(metrics) : i <= Len(metrics)
        OBVIOUS
    <2> QED
        BY <2>1, <2>2 DEF PolledPassed
<1>7. CASE AdvisorEnds
    <2>1. Polls' = {}
        BY <1>7 DEF AdvisorEnds, Polls
    <2> QED
        BY <2>1 DEF PolledPassed
<1>8. CASE Query \/ QueryMaxFails \/ CreatesFile \/ AdvisorStarts
    BY <1>1, <1>8 DEF Query, QueryMaxFails, CreatesFile, AdvisorStarts
<1>9. CASE \E succeeds \in BOOLEAN : Explain(succeeds) \/ Store(succeeds)
    BY <1>1, <1>9 DEF Explain, Store
<1> QED
    BY <1>2, <1>3, <1>4, <1>5, <1>6, <1>7, <1>8, <1>9, AdvisorSteps
    DEF AdvisorActs, AdvisorTypeOK

LEMMA NextExplainedOnce ==
    ASSUME TypeOK, PolledPassed, ExplainedOnce, [Next]_vars
    PROVE  ExplainedOnce'
<1> USE TypeParts
<1>1. /\ polls' = polls
      /\ (advisor' = "max" => advisor = "max" /\ batch' = batch)
      => ExplainedOnce'
    BY DEF ExplainedOnce
<1>2. CASE UNCHANGED advisorVars
    BY <1>1, <1>2 DEF advisorVars
<1>3. CASE CreateTables
    BY <1>1, <1>3 DEF CreateTables
<1>4. CASE CommitPost
    BY <1>1, <1>4 DEF CommitPost, Insert
<1>5. CASE Wipe
    BY <1>1, <1>5 DEF Wipe
<1>6. CASE QueryMaxFails \/ CreatesFile \/ AdvisorStarts
    BY <1>1, <1>6 DEF QueryMaxFails, CreatesFile, AdvisorStarts
<1>7. CASE \E succeeds \in BOOLEAN : Explain(succeeds) \/ Store(succeeds)
    BY <1>1, <1>7 DEF Explain, Store
<1>8. CASE AdvisorEnds
    BY <1>8 DEF AdvisorEnds, ExplainedOnce
<1>9. CASE Query
    <2>1. polls' = polls
        BY <1>9 DEF Query
    <2>2. ASSUME NEW p \in polls, NEW row \in batch' PROVE row \notin p
        <3>1. PICK i \in 1..Len(metrics) : row = metrics[i] /\ i > cursor
            BY <1>9, <2>2, TableFacts DEF Query
        <3>2. cursor \in Nat
            BY ThreadsFacts DEF AdvisorTypeOK
        <3>3. metrics[i] \notin Polls
            BY <3>1, <3>2 DEF PolledPassed
        <3> QED
            BY <3>1, <3>3 DEF Polls
    <2>3. \A p \in polls : batch' \cap p = {}
        BY <2>2
    <2> QED
        BY <2>1, <2>3 DEF ExplainedOnce
<1>10. CASE QueryMax
    <2>1. polls' = polls \cup {batch} /\ advisor' = "explain" /\ advisor = "max"
        BY <1>10 DEF QueryMax, Polled
    <2>2. \A p \in polls : batch \cap p = {}
        BY <2>1 DEF ExplainedOnce
    <2>3. \A p, q \in polls : p = q \/ p \cap q = {}
        BY DEF ExplainedOnce
    <2>4. \A p, q \in polls' : p = q \/ p \cap q = {}
        BY <2>1, <2>2, <2>3
    <2> QED
        BY <2>1, <2>4 DEF ExplainedOnce
<1> QED
    BY <1>2, <1>3, <1>4, <1>5, <1>6, <1>7, <1>8, <1>9, <1>10, AdvisorSteps
    DEF AdvisorActs, AdvisorTypeOK

LEMMA NextCursorInTable ==
    ASSUME TypeOK, CursorInTable, [Next]_vars
    PROVE  CursorInTable'
<1> USE TypeParts
<1>1. cursor \in Nat /\ Len(metrics) \in Nat
    BY ThreadsFacts, TableFacts DEF AdvisorTypeOK
<1>2. /\ cursor' = cursor /\ metrics' = metrics /\ wiped' = wiped
      /\ advisor' = "down" => advisor = "down"
      => CursorInTable'
    BY DEF CursorInTable
<1>3. CASE UNCHANGED advisorVars
    BY <1>2, <1>3 DEF advisorVars
<1>4. CASE CreateTables
    BY <1>2, <1>4 DEF CreateTables
<1>5. CASE CommitPost
    <2>1. /\ Len(metrics') = Len(metrics) + 1
          /\ cursor' = cursor /\ wiped' = wiped /\ advisor' = advisor
        BY <1>5, Inserted DEF CommitPost, Insert
    <2> QED
        BY <1>1, <2>1 DEF CursorInTable
<1>6. CASE Wipe
    <2>1. /\ Len(metrics') = 0 /\ cursor' = cursor /\ advisor' = advisor
        BY <1>6, EmptySeq DEF Wipe
    <2>2. wiped' \/ advisor = "down"
        BY <1>6 DEF Wipe
    <2> QED
        BY <1>1, <2>1, <2>2 DEF CursorInTable
<1>7. CASE QueryMax
    <2>1. cursor' = Len(metrics) /\ metrics' = metrics /\ advisor' = "explain"
        BY <1>7 DEF QueryMax, Polled
    <2> QED
        BY <1>1, <2>1 DEF CursorInTable
<1>8. CASE AdvisorEnds
    <2>1. cursor' = 0 /\ metrics' = metrics
        BY <1>8 DEF AdvisorEnds
    <2> QED
        BY <1>1, <2>1 DEF CursorInTable
<1>9. CASE Query \/ QueryMaxFails \/ CreatesFile \/ AdvisorStarts
    BY <1>2, <1>9 DEF Query, QueryMaxFails, CreatesFile, AdvisorStarts
<1>10. CASE \E succeeds \in BOOLEAN : Explain(succeeds) \/ Store(succeeds)
    BY <1>2, <1>10 DEF Explain, Store
<1> QED
    BY <1>3, <1>4, <1>5, <1>6, <1>7, <1>8, <1>9, <1>10, AdvisorSteps
    DEF AdvisorActs, AdvisorTypeOK


LEMMA NextBatchPolled ==
    ASSUME TypeOK, BatchPolled, [Next]_vars
    PROVE  BatchPolled'
<1> USE TypeParts
<1>1. PICK c \in Nat, l \in Nat, s \in Nat : c = cursor /\ l = Len(metrics) /\ s = WindowSize
    BY ThreadsFacts, TableFacts, WindowSizeAssumption DEF AdvisorTypeOK
<1>2. \/ advisor' # "max"
      \/ UNCHANGED <<metrics, cursor, advisor, batch, between>>
      => BatchPolled'
    BY DEF BatchPolled
<1>3. CASE UNCHANGED advisorVars
    BY <1>2, <1>3 DEF advisorVars
<1>4. CASE CreateTables
    BY <1>2, <1>4 DEF CreateTables
<1>5. CASE CommitPost
    <2>1. /\ UNCHANGED <<cursor, advisor, batch>>
          /\ advisor = "max" => between' = between \cup {serving}
        BY <1>5 DEF CommitPost, Insert
    <2>2. /\ Len(metrics') = l + 1 /\ metrics'[l + 1] = serving
          /\ \A i \in 1..l : metrics'[i] = metrics[i]
        BY <1>1, <1>5, Inserted
    <2>3. ASSUME advisor = "max"
          PROVE  \E n \in c + 1..l + 1 :
                    /\ batch = {metrics'[i] : i \in {j \in c + 1..n : j + s > n}}
                    /\ \A i \in n + 1..l + 1 : metrics'[i] \in between'
        <3>1. PICK n \in c + 1..l :
                 /\ batch = {metrics[i] : i \in {j \in c + 1..n : j + s > n}}
                 /\ \A i \in n + 1..l : metrics[i] \in between
            BY <1>1, <2>3 DEF BatchPolled
        <3>2. n \in c + 1..l + 1 /\ \A i \in {j \in c + 1..n : j + s > n} : i \in 1..l
            OBVIOUS
        <3>3. batch = {metrics'[i] : i \in {j \in c + 1..n : j + s > n}}
            BY <2>2, <3>1, <3>2
        <3>4. \A i \in n + 1..l + 1 : i = l + 1 \/ (i \in n + 1..l /\ i \in 1..l)
            OBVIOUS
        <3>5. \A i \in n + 1..l + 1 : metrics'[i] \in between'
            BY <2>1, <2>2, <2>3, <3>1, <3>4
        <3> QED
            BY <3>2, <3>3, <3>5
    <2> QED
        BY <1>1, <2>1, <2>2, <2>3 DEF BatchPolled
<1>6. CASE Wipe
    BY <1>2, <1>6 DEF Wipe
<1>7. CASE Query
    <2>1. /\ c < l /\ metrics' = metrics /\ cursor' = cursor /\ between' = between
          /\ batch' = {metrics[i] : i \in {j \in 1..l : j > c /\ j + s > l}}
        BY <1>1, <1>7, TableFacts DEF Query
    <2>2. {j \in 1..l : j > c /\ j + s > l} = {j \in c + 1..l : j + s > l}
        BY <2>1
    <2>3. l \in c + 1..l /\ \A i \in l + 1..l : FALSE
        BY <2>1
    <2> QED
        BY <1>1, <2>1, <2>2, <2>3 DEF BatchPolled
<1>8. CASE \/ QueryMax \/ QueryMaxFails
           \/ CreatesFile \/ AdvisorStarts \/ AdvisorEnds
    BY <1>2, <1>8
    DEF QueryMax, Polled, QueryMaxFails, CreatesFile, AdvisorStarts, AdvisorEnds
<1>9. CASE \E succeeds \in BOOLEAN : Explain(succeeds) \/ Store(succeeds)
    BY <1>2, <1>9 DEF Explain, Store
<1> QED
    BY <1>3, <1>4, <1>5, <1>6, <1>7, <1>8, <1>9, AdvisorSteps
    DEF AdvisorActs, AdvisorTypeOK

\* Rows of as many places are as many rows.
RowsFrom(p, a, n) == {p[i] : i \in a + 1..n}

LEMMA FullPoll ==
    ASSUME NEW p, NEW a \in Nat, NEW n \in Nat, a <= n,
           \A i, j \in a + 1..n : p[i] = p[j] => i = j
    PROVE  Cardinality(RowsFrom(p, a, n)) = n - a
<1> DEFINE S == a + 1..n
           T == {p[i] : i \in S}
           f == [i \in S |-> p[i]]
<1>1. IsFiniteSet(S) /\ Cardinality(S) = n - a
    <2>1. PICK b \in Int : b = a + 1
        OBVIOUS
    <2>2. IsFiniteSet(b..n) /\ Cardinality(b..n) = IF b > n THEN 0 ELSE n - b + 1
        BY FS_Interval
    <2>3. (IF b > n THEN 0 ELSE n - b + 1) = n - a
        BY <2>1
    <2> QED
        BY <2>1, <2>2, <2>3
<1>2. \A i, j \in S : p[i] = p[j] => i = j
    OBVIOUS
<1> HIDE DEF S
<1>3. f \in Surjection(S, T)
    BY DEF Surjection
<1>4. f \in Injection(S, T)
    BY <1>2 DEF Injection, IsInjective
<1> HIDE DEF f, T
<1>5. Cardinality(T) = Cardinality(S)
    BY <1>1, <1>3, <1>4, FS_Surjection
<1> QED
    BY <1>1, <1>5 DEF S, T, RowsFrom

\* Why a row that was passed is not lost without a cause.
Excused(i) == metrics[i] \in Polls \cup between \/ Crowded(i) \/ wiped

LEMMA StaysExcused ==
    ASSUME TypeOK, NEW i \in 1..Len(metrics), Excused(i),
           Len(metrics') \in Nat, Len(metrics') >= Len(metrics),
           DOMAIN metrics' = 1..Len(metrics'),
           \A j \in 1..Len(metrics) : metrics'[j] = metrics[j],
           polls \subseteq polls', between \subseteq between', wiped => wiped'
    PROVE  Excused(i)'
<1> USE TypeParts
<1>1. PICK l \in Nat, m \in Nat :
          l = Len(metrics) /\ m = Len(metrics') /\ l <= m /\ DOMAIN metrics = 1..l
    BY TableFacts
<1>2. Polls \subseteq Polls'
    BY DEF Polls
<1>3. metrics[i] \in Polls \cup between => metrics'[i] \in Polls' \cup between'
    BY <1>2
<1>4. ASSUME Crowded(i) PROVE Crowded(i)'
    <2>1. PICK p \in polls :
             /\ Cardinality(p) = WindowSize
             /\ p \subseteq {metrics[j] : j \in {k \in 1..l : k > i}}
        BY <1>1, <1>4 DEF Crowded
    <2>2. \A j \in 1..l : j \in 1..m /\ metrics'[j] = metrics[j]
        BY <1>1
    <2>3. p \subseteq {metrics'[j] : j \in {k \in 1..m : k > i}}
        BY <2>1, <2>2
    <2>4. p \in polls'
        BY <2>1
    <2> QED
        BY <1>1, <2>1, <2>3, <2>4 DEF Crowded
<1> QED
    BY <1>3, <1>4 DEF Excused


LEMMA NextSkippedForCause ==
    ASSUME TypeOK, TableOK, CursorInTable, BatchPolled, SkippedForCause, [Next]_vars
    PROVE  SkippedForCause'
<1> USE TypeParts
<1>1. PICK c \in Nat, l \in Nat, s \in Nat \ {0} :
          /\ c = cursor /\ l = Len(metrics) /\ s = WindowSize
          /\ DOMAIN metrics = 1..l
    BY ThreadsFacts, TableFacts, WindowSizeAssumption DEF AdvisorTypeOK
<1>2. \A i \in 1..l : i <= c => Excused(i)
    BY <1>1 DEF SkippedForCause, Excused
<1>3. ASSUME metrics' = metrics, cursor' = cursor, polls \subseteq polls', between \subseteq between',
             wiped' = wiped
      PROVE  SkippedForCause'
    <2>1. \A i \in 1..l : i <= c => Excused(i)'
        BY <1>1, <1>2, <1>3, StaysExcused
    <2> QED
        BY <1>1, <1>3, <2>1 DEF SkippedForCause, Excused
<1>4. CASE UNCHANGED advisorVars
    BY <1>3, <1>4 DEF advisorVars
<1>5. CASE CreateTables
    BY <1>3, <1>5 DEF CreateTables
<1>6. CASE CommitPost
    <2>1. /\ cursor' = c /\ polls' = polls /\ wiped' = wiped /\ between \subseteq between'
        BY <1>1, <1>6 DEF CommitPost, Insert
    <2>2. /\ Len(metrics') = l + 1 /\ DOMAIN metrics' = 1..l + 1
          /\ \A i \in 1..l : metrics'[i] = metrics[i]
          /\ \A i \in 1..l + 1 : i \in 1..l \/ i = l + 1
        BY <1>1, <1>6, Inserted
    <2>3. \A i \in 1..l : i <= c => Excused(i)'
        BY <1>1, <1>2, <2>1, <2>2, StaysExcused
    <2>4. l + 1 <= c => Excused(l + 1)'
        BY <1>1, <2>1 DEF CursorInTable, Excused
    <2>5. \A i \in 1..l + 1 : i <= c => Excused(i)'
        BY <2>2, <2>3, <2>4
    <2> QED
        BY <2>1, <2>2, <2>5 DEF SkippedForCause, Excused
<1>7. CASE Wipe
    <2>1. DOMAIN metrics' = {}
        BY <1>7, EmptySeq DEF Wipe
    <2> QED
        BY <2>1 DEF SkippedForCause
<1>8. CASE AdvisorEnds
    <2>1. cursor' = 0 /\ metrics' = metrics
        BY <1>8 DEF AdvisorEnds
    <2>2. \A i \in 1..l : ~(i <= 0)
        OBVIOUS
    <2> QED
        BY <1>1, <2>1, <2>2 DEF SkippedForCause
<1>9. CASE Query \/ QueryMaxFails \/ CreatesFile \/ AdvisorStarts
    BY <1>3, <1>9 DEF Query, QueryMaxFails, CreatesFile, AdvisorStarts
<1>10. CASE \E succeeds \in BOOLEAN : Explain(succeeds) \/ Store(succeeds)
    BY <1>3, <1>10 DEF Explain, Store
<1>11. CASE QueryMax
    <2>1. /\ advisor = "max" /\ cursor' = l /\ polls' = polls \cup {batch}
          /\ metrics' = metrics /\ between' = between /\ wiped' = wiped
        BY <1>1, <1>11 DEF QueryMax, Polled
    <2>2. PICK n \in c + 1..l :
             /\ batch = {metrics[i] : i \in {j \in c + 1..n : j + s > n}}
             /\ \A i \in n + 1..l : metrics[i] \in between
        BY <1>1, <2>1 DEF BatchPolled
    <2>3. ASSUME NEW i \in 1..l, i <= c PROVE Excused(i)'
        BY <1>1, <1>2, <2>1, <2>3, StaysExcused
    <2>4. ASSUME NEW i \in 1..l, n < i PROVE Excused(i)'
        <3>1. i \in n + 1..l
            BY <2>4
        <3> QED
            BY <2>1, <2>2, <3>1 DEF Excused
    <2>5. ASSUME NEW i \in 1..l, c < i, i <= n, i + s > n PROVE Excused(i)'
        <3>1. i \in {j \in c + 1..n : j + s > n}
            BY <2>5
        <3>2. metrics[i] \in batch
            BY <2>2, <3>1
        <3> QED
            BY <2>1, <3>2 DEF Excused, Polls
    <2>6. ASSUME NEW i \in 1..l, c < i, i <= n, i + s <= n PROVE Excused(i)'
        <3>1. PICK a \in Nat : a = n - s /\ i <= a /\ a <= n /\ n - a = s
            BY <2>6
        <3>2. {j \in c + 1..n : j + s > n} = a + 1..n
            BY <2>6, <3>1
        <3>3. batch = {metrics[j] : j \in a + 1..n}
            BY <2>2, <3>2
        <3>4. \A j, k \in a + 1..n : metrics[j] = metrics[k] => j = k
            <4>1. \A j \in a + 1..n : j \in 1..l
                OBVIOUS
            <4> QED
                BY <1>1, <4>1 DEF TableOK
        <3>5. Cardinality(RowsFrom(metrics, a, n)) = n - a
            BY <3>1, <3>4, FullPoll
        <3>6. Cardinality(batch) = s
            BY <3>1, <3>3, <3>5 DEF RowsFrom
        <3>7. \A j \in a + 1..n : j \in 1..l /\ j > i
            BY <3>1
        <3>8. batch \subseteq {metrics[j] : j \in {k \in 1..l : k > i}}
            BY <3>3, <3>7
        <3>9. Crowded(i)'
            BY <1>1, <2>1, <3>6, <3>8 DEF Crowded
        <3> QED
            BY <3>9 DEF Excused
    <2>7. \A i \in 1..l : i <= c \/ n < i \/ (c < i /\ i <= n /\ (i + s > n \/ i + s <= n))
        OBVIOUS
    <2>8. \A i \in 1..l : Excused(i)'
        BY <2>3, <2>4, <2>5, <2>6, <2>7
    <2> QED
        BY <1>1, <2>1, <2>8 DEF SkippedForCause, Excused
<1> QED
    BY <1>4, <1>5, <1>6, <1>7, <1>8, <1>9, <1>10, <1>11, AdvisorSteps
    DEF AdvisorActs, AdvisorTypeOK

--------------------------------------------------------------------------------
\* The Java server.
LEMMA NextStoreInv ==
    ASSUME TypeOK, QueueOK, RecordedOnce, StoreInv(Threads), [Next]_vars
    PROVE  StoreInv(Threads)'
<1> USE TypeParts
<1>1. NoReport \notin Threads
    BY ThreadsFacts
<1>2. CASE UNCHANGED storeVars
    BY <1>2, StoreStandsInv
<1>3. CASE StoreStep
    BY <1>1, <1>3, StoreStepInv
<1>4. CASE StoreEnds
    BY <1>4, StoreEndsInv
<1>5. ASSUME NEW w \in Workers, ReceiveMetrics(w)
      PROVE  StoreInv(Threads)'
    <2>1. PICK i \in 1..Len(queue) : queue[i] \in Threads /\ AddFirst(w, queue[i])
        BY <1>5, Received
    <2>2. \A j \in 1..Len(arrivals) : arrivals[j] # queue[i]
        BY DEF RecordedOnce, Recorded
    <2> QED
        BY <1>1, <2>1, <2>2, AddFirstInv
<1> QED
    BY <1>2, <1>3, <1>4, <1>5, StoreSteps


--------------------------------------------------------------------------------
\* The inductive invariant.
AdvisorOK == PolledPassed /\ ExplainedOnce /\ CursorInTable /\ BatchPolled /\ SkippedForCause

IInv ==
    /\ TypeOK /\ NumbersCounted /\ QueueOK /\ TableOK /\ RecordedOnce
    /\ AdvisorOK /\ StoreInv(Threads)

LEMMA InitIInv == Init => IInv
<1> SUFFICES ASSUME Init PROVE IInv
    OBVIOUS
<1>1. << >> \in Seq(Threads) /\ Len(<< >>) = 0 /\ DOMAIN << >> = {}
    BY EmptySeq
<1>2. Cardinality(Threads) \in Nat /\ IsFiniteSet({}) /\ Cardinality({}) = 0
      /\ Backlog \in Nat /\ MaxFaults \in Nat
    BY ThreadsFacts, FS_EmptySet, LimitsAssumption
<1>3. /\ at = [t \in Threads |-> "idle"] /\ number = [t \in Threads |-> 0] /\ counter = 1
      /\ port \in Servers /\ up = FALSE /\ queue = << >> /\ sent = {} /\ serving = NoReport
      /\ kept = {} /\ faults = 0
    BY DEF Init
<1>4. /\ tables = FALSE /\ metrics = << >> /\ cursor = 0 /\ advisor = "down" /\ batch = {}
      /\ dashboardFile \in BOOLEAN /\ reads = "none"
      /\ polls = {} /\ between = {} /\ wiped = FALSE /\ explained = {} /\ dropped = {}
    BY DEF Init, AdvisorInit
<1>5. arrivals = << >> /\ StoreInv(Threads)
    BY StoreInitInv DEF Init, StoreInit
<1>6. SessionTypeOK
    BY <1>2, <1>3 DEF SessionTypeOK, SessionPlaces
<1>7. PortTypeOK
    <2>1. queue \in Seq(Threads) /\ Len(queue) <= Backlog
        BY <1>1, <1>2, <1>3
    <2>2. faults \in 0..MaxFaults
        BY <1>2, <1>3
    <2> QED
        BY <1>3, <2>1, <2>2 DEF PortTypeOK
<1>8. AdvisorTypeOK(Threads)
    <2>1. cursor \in 0..Cardinality(Threads)
        BY <1>2, <1>4
    <2> QED
        BY <1>1, <1>4, <2>1 DEF AdvisorTypeOK, AdvisorPlaces
<1>9. TypeOK
    BY <1>5, <1>6, <1>7, <1>8, TypeParts DEF StoreInv
<1>10. NumbersCounted
    <2>1. Written = {} /\ \A t \in Threads : at[t] # "increment"
        BY <1>3 DEF Written
    <2> QED
        BY <1>2, <1>3, <2>1 DEF NumbersCounted
<1>11. QueueOK
    BY <1>1, <1>3 DEF QueueOK
<1>12. TableOK
    BY <1>1, <1>2, <1>3, <1>4 DEF TableOK, Rows
<1>13. RecordedOnce
    <2>1. Recorded = {}
        BY <1>1, <1>3, <1>4, <1>5 DEF Recorded
    <2> QED
        BY <2>1 DEF RecordedOnce
<1>14. AdvisorOK
    BY <1>1, <1>4
    DEF AdvisorOK, PolledPassed, ExplainedOnce, CursorInTable, BatchPolled, SkippedForCause
<1> QED
    BY <1>5, <1>9, <1>10, <1>11, <1>12, <1>13, <1>14 DEF IInv

LEMMA NextIInv == IInv /\ [Next]_vars => IInv'
<1> SUFFICES ASSUME IInv, [Next]_vars PROVE IInv'
    OBVIOUS
<1>1. /\ TypeOK /\ NumbersCounted /\ QueueOK /\ TableOK /\ RecordedOnce
      /\ PolledPassed /\ ExplainedOnce /\ CursorInTable /\ BatchPolled /\ SkippedForCause
      /\ StoreInv(Threads)
    BY DEF IInv, AdvisorOK
<1>2. SessionTypeOK /\ PortTypeOK
    BY <1>1, TypeParts
<1>3. SessionTypeOK' /\ NumbersCounted'
    BY <1>1, <1>2, NextNumbers
<1>4. PortTypeOK'
    BY <1>2, NextPortTypeOK
<1>5. AdvisorTypeOK(Threads)'
    BY <1>1, NextAdvisorTypeOK
<1>6. StoreInv(Threads)'
    BY <1>1, NextStoreInv
<1>7. StoreTypeOK(Threads)'
    BY <1>6 DEF StoreInv
<1>8. SessionTypeOK' /\ PortTypeOK' /\ AdvisorTypeOK(Threads)' /\ StoreTypeOK(Threads)' => TypeOK'
    BY DEF TypeOK, SessionTypeOK, PortTypeOK
<1>9. TypeOK'
    BY <1>3, <1>4, <1>5, <1>7, <1>8
<1>10. QueueOK'
    BY <1>1, <1>2, NextQueueOK
<1>11. TableOK' /\ RecordedOnce'
    BY <1>1, NextTableOK, NextRecordedOnce
<1>12. AdvisorOK'
    BY <1>1, NextPolledPassed, NextExplainedOnce, NextCursorInTable, NextBatchPolled,
       NextSkippedForCause
    DEF AdvisorOK
<1> QED
    BY <1>3, <1>6, <1>9, <1>10, <1>11, <1>12 DEF IInv

--------------------------------------------------------------------------------
(***************************************************************************)
(* The invariant holds of every behaviour, whatever the receiver, the Java *)
(* server, the advisor and the operator do in turn.                        *)
(***************************************************************************)
THEOREM Invariance == Spec => []IInv
<1>1. Init => IInv
    BY InitIInv
<1>2. IInv /\ [Next]_vars => IInv'
    BY NextIInv
<1> QED
    BY <1>1, <1>2, PTL DEF Spec

(***************************************************************************)
(* The sessions, both servers, the advisor and the store are well typed.   *)
(* The counter the threads share without a lock is never higher than the   *)
(* number of sessions, whatever updates are lost.                          *)
(***************************************************************************)
THEOREM TypeCorrect == Spec => []TypeOK
<1>1. IInv => TypeOK
    BY DEF IInv
<1> QED
    BY <1>1, Invariance, PTL

(***************************************************************************)
(* do_POST of the receiver: every report it committed stays in the table,  *)
(* once, until the file is removed, whatever number its session took.      *)
(***************************************************************************)
THEOREM ReportsStay == Spec => []ReportsKept
<1>1. IInv => ReportsKept
    BY DEF IInv, TableOK, ReportsKept
<1> QED
    BY <1>1, Invariance, PTL

(***************************************************************************)
(* get_new_metrics: one run of the advisor hands no row to the language    *)
(* model twice, through inserts, failed queries, restarts of the receiver  *)
(* and the removal of the file.                                            *)
(***************************************************************************)
THEOREM ExplainedAtMostOnce == Spec => []ExplainedOnce
<1>1. IInv => ExplainedOnce
    BY DEF IInv, AdvisorOK
<1> QED
    BY <1>1, Invariance, PTL

(***************************************************************************)
(* get_new_metrics: a row that last_analyzed_id has passed was polled, or  *)
(* crowded out by a full poll, or inserted between the two queries of a    *)
(* poll, or is of another file than the cursor.                            *)
(***************************************************************************)
THEOREM SkipsHaveCauses == Spec => []SkippedForCause
<1>1. IInv => SkippedForCause
    BY DEF IInv, AdvisorOK
<1> QED
    BY <1>1, Invariance, PTL

(***************************************************************************)
(* addSession: the store holds the newest sessions in the order of their   *)
(* arrival, and at least MaxSessions + 1 - workers of them, for any number *)
(* of threads that count and trim at the same time.                        *)
(***************************************************************************)
THEOREM StoreHoldsNewest == Spec => []StoreKeepsNewest
<1>1. IInv => StoreKeepsNewest
    BY ThreadsFacts, StoreInvKeeps DEF IInv
<1> QED
    BY <1>1, Invariance, PTL

(***************************************************************************)
(* getStatus and addSession, with no more request threads than the store   *)
(* has places, as Tomcat's 200 by default and MAX_SESSIONS: an answer      *)
(* agrees with itself, and removeLast finds a session.                     *)
(***************************************************************************)
RemovalsFind == \A w \in Workers : worker[w].pc = "trim" => sessions # <<>>

THEOREM AnswersAgree == FewThreads => (Spec => [](StatusIsConsistent /\ RemovalsFind))
<1>1. IInv /\ FewThreads => StatusIsConsistent /\ RemovalsFind
    BY ThreadsFacts, StoreInvKeeps, NeverEmptied DEF IInv, StoreInv, FewThreads, RemovalsFind
<1>2. FewThreads => FewThreads'
    BY DEF FewThreads
<1> QED
    BY <1>1, <1>2, Invariance, PTL DEF Spec

================================================================================
