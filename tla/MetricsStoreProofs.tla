--------------------------- MODULE MetricsStoreProofs ---------------------------
(***************************************************************************)
(* What the steps of MetricsStore preserve, for any number of request      *)
(* threads, any size of the store and any set of reports.  The deque has   *)
(* no lock: what a thread counted is out of date when it removes, and the  *)
(* proof that no removal is one too many weighs the sessions that are      *)
(* there with the threads that are free to add another.                    *)
(***************************************************************************)
EXTENDS MetricsStore, SequenceTheorems, FiniteSetTheorems, TLAPS

\* The branch of ServerEnds for the Java server: its memory is gone.
StoreEnds ==
    /\ sessions' = <<>> /\ arrivals' = <<>>
    /\ worker' = [w \in Workers |-> Idle] /\ status' = NoStatus

--------------------------------------------------------------------------------
\* The sessions in the store are the newest arrivals, newest first.
NewestFirst ==
    \A i \in 1..Len(sessions) : sessions[i] = arrivals[Len(arrivals) + 1 - i]

\* A thread that is not free has added a session and not yet left: with the free ones the
\* sessions make a surplus that adding does not change and removing does not either.
Free == {w \in Workers : worker[w].pc = "idle"}
Surplus == Len(sessions) + Cardinality(Free)

\* A thread counts at most the surplus, so one that removes found it above MaxSessions.
StoreOK ==
    /\ Len(sessions) <= Len(arrivals)
    /\ Removed > 0 => Surplus > MaxSessions
    /\ \A w \in Workers :
          /\ worker[w].pc = "count" => Surplus >= worker[w].head - worker[w].gone
          /\ worker[w].pc = "trim" => Surplus > MaxSessions

--------------------------------------------------------------------------------
LEMMA StoreFacts ==
    ASSUME NEW R, StoreTypeOK(R)
    PROVE  /\ sessions \in Seq(R) /\ Len(sessions) \in Nat
           /\ arrivals \in Seq(R) /\ Len(arrivals) \in Nat
           /\ \A i \in 1..Len(sessions) : sessions[i] \in R
           /\ \A i \in 1..Len(arrivals) : arrivals[i] \in R
           /\ (sessions = <<>> <=> Len(sessions) = 0)
           /\ (arrivals = <<>> <=> Len(arrivals) = 0)
<1>1. sessions \in Seq(R) /\ arrivals \in Seq(R)
    BY DEF StoreTypeOK
<1>2. Len(sessions) \in Nat /\ Len(arrivals) \in Nat
    BY <1>1, LenProperties
<1>3. /\ \A i \in 1..Len(sessions) : sessions[i] \in R
      /\ \A i \in 1..Len(arrivals) : arrivals[i] \in R
    BY <1>1, ElementOfSeq
<1>4. (sessions = <<>> <=> Len(sessions) = 0) /\ (arrivals = <<>> <=> Len(arrivals) = 0)
    BY <1>1, EmptySeq
<1> QED
    BY <1>1, <1>2, <1>3, <1>4

LEMMA FreeFinite ==
    IsFiniteSet(Free) /\ Cardinality(Free) \in Nat
    /\ Cardinality(Workers) \in Nat /\ Cardinality(Free) <= Cardinality(Workers)
<1>1. Free \subseteq Workers
    BY DEF Free
<1> QED
    BY <1>1, WorkersAssumption, FS_Subset, FS_CardinalityType

LEMMA FreeCount ==
    ASSUME NEW w \in Workers, \A v \in Workers : v # w => worker'[v].pc = worker[v].pc
    PROVE  /\ IsFiniteSet(Free') /\ Cardinality(Free') \in Nat
           /\ worker[w].pc = "idle" /\ worker'[w].pc # "idle"
                 => Cardinality(Free') = Cardinality(Free) - 1
           /\ worker[w].pc # "idle" /\ worker'[w].pc = "idle"
                 => Cardinality(Free') = Cardinality(Free) + 1
           /\ (worker[w].pc = "idle" <=> worker'[w].pc = "idle")
                 => Cardinality(Free') = Cardinality(Free)
<1>1. Free \subseteq Workers /\ Free' \subseteq Workers
    BY DEF Free
<1>2. IsFiniteSet(Free) /\ IsFiniteSet(Free')
    BY <1>1, WorkersAssumption, FS_Subset
<1>3. Cardinality(Free) \in Nat /\ Cardinality(Free') \in Nat
    BY <1>2, FS_CardinalityType
<1>4. ASSUME worker[w].pc = "idle", worker'[w].pc # "idle"
      PROVE  Cardinality(Free') = Cardinality(Free) - 1
    <2>1. Free' = Free \ {w} /\ w \in Free
        BY <1>4 DEF Free
    <2> QED
        BY <1>2, <2>1, FS_RemoveElement
<1>5. ASSUME worker[w].pc # "idle", worker'[w].pc = "idle"
      PROVE  Cardinality(Free') = Cardinality(Free) + 1
    <2>1. Free' = Free \cup {w} /\ w \notin Free
        BY <1>5 DEF Free
    <2> QED
        BY <1>2, <2>1, FS_AddElement
<1>6. ASSUME worker[w].pc = "idle" <=> worker'[w].pc = "idle"
      PROVE  Cardinality(Free') = Cardinality(Free)
    <2>1. Free' = Free
        BY <1>6 DEF Free
    <2> QED
        BY <2>1
<1> QED
    BY <1>2, <1>3, <1>4, <1>5, <1>6

--------------------------------------------------------------------------------
\* The deque.
LEMMA Added ==
    ASSUME NEW R, StoreTypeOK(R), NEW w \in Workers, NEW r \in R, AddFirst(w, r)
    PROVE  /\ sessions' \in Seq(R) /\ Len(sessions') = Len(sessions) + 1
           /\ sessions'[1] = r
           /\ \A i \in 1..Len(sessions) : sessions'[i + 1] = sessions[i]
           /\ arrivals' \in Seq(R) /\ Len(arrivals') = Len(arrivals) + 1
           /\ arrivals'[Len(arrivals) + 1] = r
           /\ \A i \in 1..Len(arrivals) : arrivals'[i] = arrivals[i]
<1>1. PICK x \in Seq(R) : x = <<r>> /\ Len(x) = 1 /\ x[1] = r
    <2>1. <<r>> \in Seq(R) /\ Len(<<r>>) = 1 /\ <<r>>[1] = r
        OBVIOUS
    <2> QED
        BY <2>1
<1>2. sessions' = x \o sessions /\ arrivals' = Append(arrivals, r)
    BY <1>1 DEF AddFirst
<1>3. /\ x \o sessions \in Seq(R) /\ Len(x \o sessions) = Len(x) + Len(sessions)
      /\ \A i \in 1..Len(x) + Len(sessions) :
            (x \o sessions)[i] = IF i <= Len(x) THEN x[i] ELSE sessions[i - Len(x)]
    BY StoreFacts, ConcatProperties
<1>4. PICK l \in Nat : l = Len(sessions)
    BY StoreFacts
<1>5. /\ sessions' \in Seq(R) /\ Len(sessions') = 1 + l
      /\ \A i \in 1..1 + l : sessions'[i] = IF i <= 1 THEN x[i] ELSE sessions[i - 1]
    BY <1>1, <1>2, <1>3, <1>4
<1>6. sessions'[1] = r
    BY <1>1, <1>5
<1>7. ASSUME NEW i \in 1..l PROVE sessions'[i + 1] = sessions[i]
    <2>1. i + 1 \in 1..1 + l /\ ~(i + 1 <= 1) /\ i + 1 - 1 = i
        OBVIOUS
    <2> QED
        BY <1>5, <2>1
<1>8. /\ arrivals' \in Seq(R) /\ Len(arrivals') = Len(arrivals) + 1
      /\ arrivals'[Len(arrivals) + 1] = r
      /\ \A i \in 1..Len(arrivals) : arrivals'[i] = arrivals[i]
    BY <1>2, StoreFacts, AppendProperties
<1> QED
    BY <1>4, <1>5, <1>6, <1>7, <1>8

LEMMA LastRemoved ==
    ASSUME NEW R, StoreTypeOK(R), NEW w \in Workers, RemoveLast(w)
    PROVE  /\ sessions' \in Seq(R) /\ Len(sessions) > 0 /\ Len(sessions') = Len(sessions) - 1
           /\ \A i \in 1..Len(sessions) - 1 : sessions'[i] = sessions[i]
<1>1. PICK l \in Nat : l = Len(sessions)
    BY StoreFacts
<1>2. l > 0 /\ sessions' = SubSeq(sessions, 1, l - 1)
    BY <1>1, StoreFacts DEF RemoveLast
<1>3. PICK m \in Nat : m = l - 1
    BY <1>2
<1>4. \A i \in 1..m : sessions[i] \in R
    BY <1>1, <1>3, StoreFacts
<1>5. /\ SubSeq(sessions, 1, m) \in Seq(R)
      /\ Len(SubSeq(sessions, 1, m)) = IF 1 <= m THEN m - 1 + 1 ELSE 0
      /\ \A i \in 1..m - 1 + 1 : SubSeq(sessions, 1, m)[i] = sessions[1 + i - 1]
    BY <1>4, SubSeqProperties
<1>6. m - 1 + 1 = m /\ (~(1 <= m) => m = 0) /\ \A i \in 1..m : 1 + i - 1 = i
    OBVIOUS
<1>7. /\ sessions' \in Seq(R) /\ Len(sessions') = m
      /\ \A i \in 1..m : sessions'[i] = sessions[i]
    BY <1>2, <1>3, <1>5, <1>6
<1> QED
    BY <1>1, <1>2, <1>3, <1>7

--------------------------------------------------------------------------------
\* The threads.
WorkerPlaces == {"idle", "size", "count", "trim"}

\* A step of one thread, and what it may begin with.
LEMMA OneWorker ==
    ASSUME NEW R, StoreTypeOK(R), NEW w \in Workers,
           NEW pc \in WorkerPlaces, NEW head \in Nat, NEW gone \in Nat,
           worker' = [worker EXCEPT ![w] = [pc |-> pc, head |-> head, gone |-> gone]]
    PROVE  /\ worker' \in [Workers -> [pc : WorkerPlaces, head : Nat, gone : Nat]]
           /\ worker'[w].pc = pc /\ worker'[w].head = head /\ worker'[w].gone = gone
           /\ \A v \in Workers : v # w => worker'[v] = worker[v]
<1>1. worker \in [Workers -> [pc : WorkerPlaces, head : Nat, gone : Nat]]
    BY DEF StoreTypeOK, WorkerPlaces
<1> QED
    BY <1>1

LEMMA WorkerSteps ==
    ASSUME NEW R, StoreTypeOK(R), NEW w \in Workers
    PROVE  /\ \A r \in R : AddFirst(w, r) =>
                 \E head, gone \in Nat :
                    worker' = [worker EXCEPT ![w] = [pc |-> "size", head |-> head, gone |-> gone]]
           /\ EndSize(w) =>
                 \E size \in Counts(w) :
                    \/ size > MaxSessions
                       /\ worker' = [worker EXCEPT ![w] = [pc |-> "trim", head |-> 0, gone |-> 0]]
                    \/ worker' = [worker EXCEPT ![w] = [pc |-> "idle", head |-> 0, gone |-> 0]]
           /\ RemoveLast(w) =>
                 worker' = [worker EXCEPT ![w] = [pc |-> "idle", head |-> 0, gone |-> 0]]
<1>1. worker[w] \in [pc : WorkerPlaces, head : Nat, gone : Nat]
    BY DEF StoreTypeOK, WorkerPlaces
<1>2. ASSUME NEW r \in R, AddFirst(w, r)
      PROVE  \E head, gone \in Nat :
                worker' = [worker EXCEPT ![w] = [pc |-> "size", head |-> head, gone |-> gone]]
    <2>1. worker[w].head \in Nat /\ worker[w].gone \in Nat
        BY <1>1
    <2>2. [worker[w] EXCEPT !.pc = "size"]
              = [pc |-> "size", head |-> worker[w].head, gone |-> worker[w].gone]
        BY <1>1
    <2>3. worker' = [worker EXCEPT ![w] = [worker[w] EXCEPT !.pc = "size"]]
        BY <1>2 DEF AddFirst
    <2> QED
        BY <2>1, <2>2, <2>3
<1>3. ASSUME EndSize(w)
      PROVE  \E size \in Counts(w) :
                \/ size > MaxSessions
                   /\ worker' = [worker EXCEPT ![w] = [pc |-> "trim", head |-> 0, gone |-> 0]]
                \/ worker' = [worker EXCEPT ![w] = [pc |-> "idle", head |-> 0, gone |-> 0]]
    <2>1. [Idle EXCEPT !.pc = "trim"] = [pc |-> "trim", head |-> 0, gone |-> 0]
        BY DEF Idle
    <2>2. PICK size \in Counts(w) :
              worker' = [worker EXCEPT ![w] =
                  IF size > MaxSessions THEN [Idle EXCEPT !.pc = "trim"] ELSE Idle]
        BY <1>3 DEF EndSize
    <2>3. CASE size > MaxSessions
        BY <2>1, <2>2, <2>3
    <2>4. CASE ~(size > MaxSessions)
        BY <2>2, <2>4 DEF Idle
    <2> QED
        BY <2>3, <2>4
<1>4. ASSUME RemoveLast(w)
      PROVE  worker' = [worker EXCEPT ![w] = [pc |-> "idle", head |-> 0, gone |-> 0]]
    BY <1>4 DEF RemoveLast, Idle
<1> QED
    BY <1>2, <1>3, <1>4

--------------------------------------------------------------------------------
\* What a step of one thread does to the surplus decides what it keeps.
LEMMA SurplusKept ==
    ASSUME NEW R, StoreTypeOK(R), StoreOK, NEW w \in Workers,
           \A v \in Workers : v # w => worker'[v] = worker[v],
           Len(sessions') \in Nat, Len(arrivals') \in Nat, Len(sessions') <= Len(arrivals'),
           Surplus' >= Surplus,
           Len(arrivals') - Len(sessions') > Removed => Surplus > MaxSessions,
           worker'[w].pc = "count" => Surplus >= worker'[w].head - worker'[w].gone,
           worker'[w].head \in Nat, worker'[w].gone \in Nat,
           worker'[w].pc = "trim" => Surplus > MaxSessions
    PROVE  StoreOK'
<1>1. PICK l \in Nat, a \in Nat : l = Len(sessions) /\ a = Len(arrivals)
    BY StoreFacts
<1>2. PICK l1 \in Nat, a1 \in Nat : l1 = Len(sessions') /\ a1 = Len(arrivals')
    OBVIOUS
<1>3. PICK s \in Nat : s = Surplus
    BY StoreFacts, FreeFinite DEF Surplus
<1>4. PICK s1 \in Nat : s1 = Surplus'
    <2>1. Free' \subseteq Workers
        BY DEF Free
    <2>2. Cardinality(Free') \in Nat
        BY <2>1, WorkersAssumption, FS_Subset, FS_CardinalityType
    <2>3. Surplus' = Len(sessions') + Cardinality(Free')
        BY DEF Surplus
    <2> QED
        BY <2>2, <2>3
<1>5. MaxSessions \in Nat
    BY MaxSessionsAssumption
<1>6. /\ s1 >= s /\ Removed = a - l /\ Removed' = a1 - l1 /\ l <= a
      /\ a - l > 0 => s > MaxSessions
      /\ a1 - l1 > a - l => s > MaxSessions
    <2>1. Removed = a - l /\ Removed' = a1 - l1
        BY <1>1, <1>2 DEF Removed
    <2> QED
        BY <1>1, <1>2, <1>3, <1>4, <2>1 DEF StoreOK
<1>7. Removed' > 0 => s1 > MaxSessions
    <2>1. a1 - l1 > 0 => s1 > MaxSessions
        BY <1>5, <1>6
    <2> QED
        BY <1>6, <2>1
<1>8. ASSUME NEW v \in Workers
      PROVE  /\ worker'[v].pc = "count" => s1 >= worker'[v].head - worker'[v].gone
             /\ worker'[v].pc = "trim" => s1 > MaxSessions
    <2>1. worker[v].head \in Nat /\ worker[v].gone \in Nat
        BY DEF StoreTypeOK
    <2>2. PICK head \in Nat, gone \in Nat : head = worker'[v].head /\ gone = worker'[v].gone
        BY <2>1
    <2>3. /\ worker'[v].pc = "count" => s >= head - gone
          /\ worker'[v].pc = "trim" => s > MaxSessions
        <3>1. CASE v = w
            BY <1>3, <2>2, <3>1
        <3>2. CASE v # w
            BY <1>3, <2>2, <3>2 DEF StoreOK
        <3> QED
            BY <3>1, <3>2
    <2>4. /\ s >= head - gone => s1 >= head - gone
          /\ s > MaxSessions => s1 > MaxSessions
        BY <1>5, <1>6
    <2> QED
        BY <2>2, <2>3, <2>4
<1> QED
    BY <1>4, <1>7, <1>8 DEF StoreOK

LEMMA AddFirstKeeps ==
    ASSUME NEW R, StoreTypeOK(R), StoreOK, NewestFirst,
           NEW w \in Workers, NEW r \in R, AddFirst(w, r)
    PROVE  StoreTypeOK(R)' /\ StoreOK' /\ NewestFirst'
<1>1. PICK l \in Nat, a \in Nat : l = Len(sessions) /\ a = Len(arrivals)
    BY StoreFacts
<1>2. /\ sessions' \in Seq(R) /\ Len(sessions') = l + 1 /\ sessions'[1] = r
      /\ \A i \in 1..l : sessions'[i + 1] = sessions[i]
      /\ arrivals' \in Seq(R) /\ Len(arrivals') = a + 1 /\ arrivals'[a + 1] = r
      /\ \A i \in 1..a : arrivals'[i] = arrivals[i]
    BY <1>1, Added
<1>3. PICK head \in Nat, gone \in Nat :
          worker' = [worker EXCEPT ![w] = [pc |-> "size", head |-> head, gone |-> gone]]
    BY WorkerSteps
<1>4. /\ worker' \in [Workers -> [pc : WorkerPlaces, head : Nat, gone : Nat]]
      /\ worker'[w].pc = "size" /\ worker'[w].head = head /\ worker'[w].gone = gone
      /\ \A v \in Workers : v # w => worker'[v] = worker[v]
    BY <1>3, OneWorker DEF WorkerPlaces
<1>5. worker[w].pc = "idle" /\ status' = status
    BY DEF AddFirst
<1>6. StoreTypeOK(R)'
    BY <1>2, <1>4, <1>5 DEF StoreTypeOK, WorkerPlaces
<1>7. Surplus' = Surplus
    <2>1. PICK k \in Nat : k = Cardinality(Free)
        BY FreeFinite
    <2>2. Cardinality(Free') = k - 1
        BY <1>4, <1>5, <2>1, FreeCount
    <2>3. Surplus = l + k /\ Surplus' = l + 1 + (k - 1)
        BY <1>1, <1>2, <2>1, <2>2 DEF Surplus
    <2>4. l + 1 + (k - 1) = l + k
        OBVIOUS
    <2> QED
        BY <2>3, <2>4
<1>8. l <= a
    BY <1>1 DEF StoreOK
<1>9. StoreOK'
    <2>1. l + 1 <= a + 1 /\ (a + 1) - (l + 1) = a - l /\ l + 1 \in Nat /\ a + 1 \in Nat
        BY <1>8
    <2>2. PICK s \in Nat : s = Surplus
        BY StoreFacts, FreeFinite DEF Surplus
    <2>3. ~(Len(arrivals') - Len(sessions') > Removed)
        BY <1>1, <1>2, <2>1 DEF Removed
    <2>4. /\ Len(sessions') \in Nat /\ Len(arrivals') \in Nat
          /\ Len(sessions') <= Len(arrivals')
        BY <1>2, <2>1
    <2>5. Surplus' >= Surplus
        BY <1>7, <2>2
    <2>6. worker'[w].head \in Nat /\ worker'[w].gone \in Nat
        BY <1>4
    <2> QED
        BY <1>4, <2>3, <2>4, <2>5, <2>6, SurplusKept
<1>10. ASSUME NEW i \in 1..l + 1 PROVE sessions'[i] = arrivals'[a + 1 + 1 - i]
    <2>1. CASE i = 1
        BY <1>2, <2>1
    <2>2. CASE i # 1
        <3>1. PICK j \in 1..l : j = i - 1 /\ i = j + 1
            BY <2>2
        <3>2. a + 1 - j \in 1..a /\ a + 1 + 1 - i = a + 1 - j
            BY <1>8, <3>1
        <3>3. sessions'[j + 1] = sessions[j] /\ sessions[j] = arrivals[a + 1 - j]
            BY <1>1, <1>2 DEF NewestFirst
        <3> QED
            BY <1>2, <3>1, <3>2, <3>3
    <2> QED
        BY <2>1, <2>2
<1>11. NewestFirst'
    BY <1>2, <1>10 DEF NewestFirst
<1> QED
    BY <1>6, <1>9, <1>11

LEMMA RemoveLastKeeps ==
    ASSUME NEW R, StoreTypeOK(R), StoreOK, NewestFirst, NEW w \in Workers, RemoveLast(w)
    PROVE  StoreTypeOK(R)' /\ StoreOK' /\ NewestFirst'
<1>1. PICK l \in Nat, a \in Nat : l = Len(sessions) /\ a = Len(arrivals)
    BY StoreFacts
<1>2. /\ sessions' \in Seq(R) /\ l > 0 /\ Len(sessions') = l - 1
      /\ \A i \in 1..l - 1 : sessions'[i] = sessions[i]
      /\ arrivals' = arrivals /\ status' = status
    <2>1. arrivals' = arrivals /\ status' = status
        BY DEF RemoveLast
    <2> QED
        BY <1>1, <2>1, LastRemoved
<1>3. /\ worker' \in [Workers -> [pc : WorkerPlaces, head : Nat, gone : Nat]]
      /\ worker'[w].pc = "idle" /\ worker'[w].head = 0 /\ worker'[w].gone = 0
      /\ \A v \in Workers : v # w => worker'[v] = worker[v]
    BY WorkerSteps, OneWorker DEF WorkerPlaces
<1>4. worker[w].pc = "trim"
    BY DEF RemoveLast
<1>5. StoreTypeOK(R)'
    BY <1>2, <1>3 DEF StoreTypeOK, WorkerPlaces
<1>6. Surplus' = Surplus
    <2>1. PICK k \in Nat : k = Cardinality(Free)
        BY FreeFinite
    <2>2. Cardinality(Free') = k + 1
        BY <1>3, <1>4, <2>1, FreeCount
    <2> QED
        BY <1>1, <1>2, <2>1, <2>2 DEF Surplus
<1>7. l <= a /\ Surplus > MaxSessions
    BY <1>1, <1>4 DEF StoreOK
<1>8. StoreOK'
    <2>1. l - 1 <= a /\ l - 1 \in Nat
        BY <1>2, <1>7
    <2>2. PICK s \in Nat : s = Surplus
        BY StoreFacts, FreeFinite DEF Surplus
    <2> QED
        BY <1>1, <1>2, <1>3, <1>6, <1>7, <2>1, <2>2, SurplusKept
<1>9. NewestFirst'
    BY <1>1, <1>2 DEF NewestFirst
<1> QED
    BY <1>5, <1>8, <1>9


LEMMA BeginSizeKeeps ==
    ASSUME NEW R, StoreTypeOK(R), StoreOK, NewestFirst, NEW w \in Workers, BeginSize(w)
    PROVE  StoreTypeOK(R)' /\ StoreOK' /\ NewestFirst'
<1>1. PICK l \in Nat, a \in Nat : l = Len(sessions) /\ a = Len(arrivals)
    BY StoreFacts
<1>2. sessions' = sessions /\ arrivals' = arrivals /\ status' = status
    BY DEF BeginSize
<1>3. l <= a
    BY <1>1 DEF StoreOK
<1>4. PICK d \in Nat : d = a - l
    BY <1>3
<1>5. worker' = [worker EXCEPT ![w] = [pc |-> "count", head |-> a, gone |-> d]]
    BY <1>1, <1>4 DEF BeginSize, Removed
<1>6. /\ worker' \in [Workers -> [pc : WorkerPlaces, head : Nat, gone : Nat]]
      /\ worker'[w].pc = "count" /\ worker'[w].head = a /\ worker'[w].gone = d
      /\ \A v \in Workers : v # w => worker'[v] = worker[v]
    BY <1>5, OneWorker DEF WorkerPlaces
<1>7. worker[w].pc # "idle"
    BY DEF BeginSize
<1>8. StoreTypeOK(R)'
    BY <1>2, <1>6 DEF StoreTypeOK, WorkerPlaces
<1>9. Surplus' = Surplus
    <2>1. Cardinality(Free') = Cardinality(Free)
        BY <1>6, <1>7, FreeCount
    <2> QED
        BY <1>2, <2>1 DEF Surplus
<1>10. PICK s \in Nat : s = Surplus /\ s >= l
    BY <1>1, StoreFacts, FreeFinite DEF Surplus
<1>11. StoreOK'
    <2>1. ~(Len(arrivals') - Len(sessions') > Removed) /\ Surplus' >= Surplus
        BY <1>1, <1>2, <1>4, <1>9, <1>10 DEF Removed
    <2>2. Surplus >= worker'[w].head - worker'[w].gone
        BY <1>3, <1>4, <1>6, <1>10
    <2>3. worker'[w].pc # "trim" /\ worker'[w].head \in Nat /\ worker'[w].gone \in Nat
        BY <1>6
    <2>4. /\ Len(sessions') \in Nat /\ Len(arrivals') \in Nat
          /\ Len(sessions') <= Len(arrivals')
        BY <1>1, <1>2, <1>3
    <2> QED
        BY <1>6, <2>1, <2>2, <2>3, <2>4, SurplusKept
<1>12. NewestFirst'
    BY <1>2 DEF NewestFirst
<1> QED
    BY <1>8, <1>11, <1>12

LEMMA EndSizeKeeps ==
    ASSUME NEW R, StoreTypeOK(R), StoreOK, NewestFirst, NEW w \in Workers, EndSize(w)
    PROVE  StoreTypeOK(R)' /\ StoreOK' /\ NewestFirst'
<1>1. PICK l \in Nat, a \in Nat : l = Len(sessions) /\ a = Len(arrivals)
    BY StoreFacts
<1>2. sessions' = sessions /\ arrivals' = arrivals /\ status' = status /\ worker[w].pc = "count"
    BY DEF EndSize
<1>3. l <= a
    BY <1>1 DEF StoreOK
<1>4. PICK head \in Nat, gone \in Nat : head = worker[w].head /\ gone = worker[w].gone
    BY DEF StoreTypeOK
<1>5. PICK s \in Nat : s = Surplus
    BY StoreFacts, FreeFinite DEF Surplus
<1>6. s >= head - gone
    BY <1>2, <1>4, <1>5 DEF StoreOK
<1>7. PICK size \in Counts(w) :
          \/ size > MaxSessions
             /\ worker' = [worker EXCEPT ![w] = [pc |-> "trim", head |-> 0, gone |-> 0]]
          \/ worker' = [worker EXCEPT ![w] = [pc |-> "idle", head |-> 0, gone |-> 0]]
    BY WorkerSteps
<1>8. size > MaxSessions => s > MaxSessions
    <2>1. size \in 0..(head - gone)
        BY <1>4 DEF Counts
    <2> QED
        BY <1>6, <2>1, MaxSessionsAssumption
<1>9. ASSUME NEW pc \in {"trim", "idle"},
             worker' = [worker EXCEPT ![w] = [pc |-> pc, head |-> 0, gone |-> 0]],
             pc = "trim" => s > MaxSessions
      PROVE  StoreTypeOK(R)' /\ StoreOK'
    <2>1. /\ worker' \in [Workers -> [pc : WorkerPlaces, head : Nat, gone : Nat]]
          /\ worker'[w].pc = pc /\ worker'[w].head = 0 /\ worker'[w].gone = 0
          /\ \A v \in Workers : v # w => worker'[v] = worker[v]
        BY <1>9, OneWorker DEF WorkerPlaces
    <2>2. StoreTypeOK(R)'
        BY <1>2, <2>1 DEF StoreTypeOK, WorkerPlaces
    <2>3. PICK k \in Nat : k = Cardinality(Free)
        BY FreeFinite
    <2>4. Cardinality(Free') = k \/ Cardinality(Free') = k + 1
        BY <1>2, <2>1, <2>3, FreeCount
    <2>5. Surplus = l + k /\ (Surplus' = l + k \/ Surplus' = l + (k + 1))
        BY <1>1, <1>2, <2>3, <2>4 DEF Surplus
    <2>6. Surplus' >= Surplus
        BY <2>5
    <2>7. ~(Len(arrivals') - Len(sessions') > Removed)
        BY <1>1, <1>2 DEF Removed
    <2>8. /\ Len(sessions') \in Nat /\ Len(arrivals') \in Nat
          /\ Len(sessions') <= Len(arrivals')
        BY <1>1, <1>2, <1>3
    <2>9. /\ worker'[w].pc # "count" /\ worker'[w].head \in Nat /\ worker'[w].gone \in Nat
          /\ worker'[w].pc = "trim" => Surplus > MaxSessions
        BY <1>5, <1>9, <2>1
    <2> QED
        BY <2>1, <2>2, <2>6, <2>7, <2>8, <2>9, SurplusKept
<1>10. StoreTypeOK(R)' /\ StoreOK'
    BY <1>7, <1>8, <1>9
<1>11. NewestFirst'
    BY <1>2 DEF NewestFirst
<1> QED
    BY <1>10, <1>11

\* The deque and its threads, whatever the status request does.
LEMMA StandsKeeps ==
    ASSUME NEW R, StoreOK, NewestFirst, UNCHANGED <<sessions, arrivals, worker>>
    PROVE  StoreOK' /\ NewestFirst'
<1>1. Free' = Free
    BY DEF Free
<1>2. Surplus' = Surplus /\ Removed' = Removed
    BY <1>1 DEF Surplus, Removed
<1>3. StoreOK'
    BY <1>2 DEF StoreOK
<1> QED
    BY <1>3 DEF NewestFirst

LEMMA StoreEndsKeeps ==
    ASSUME NEW R, StoreEnds
    PROVE  StoreTypeOK(R)' /\ StoreOK' /\ NewestFirst'
<1>1. sessions' = <<>> /\ arrivals' = <<>> /\ <<>> \in Seq(R) /\ Len(<<>>) = 0
    BY EmptySeq DEF StoreEnds
<1>2. /\ worker' \in [Workers -> [pc : WorkerPlaces, head : Nat, gone : Nat]]
      /\ \A w \in Workers : worker'[w].pc = "idle"
    BY DEF StoreEnds, Idle, WorkerPlaces
<1>3. status' = NoStatus
    BY DEF StoreEnds
<1>4. StoreTypeOK(R)'
    BY <1>1, <1>2, <1>3 DEF StoreTypeOK, WorkerPlaces, NoStatus, StatusPlaces
<1>5. Len(sessions') = 0 /\ Len(arrivals') = 0
    BY <1>1
<1>6. StoreOK'
    <2>1. Removed' = 0
        BY <1>5 DEF Removed
    <2> QED
        BY <1>2, <1>5, <2>1 DEF StoreOK
<1> QED
    BY <1>4, <1>5, <1>6 DEF NewestFirst


LEMMA StoreKeeps ==
    ASSUME NEW R, StoreTypeOK(R), StoreOK, NewestFirst
    PROVE  StoreKeepsNewest
<1>1. PICK l \in Nat, a \in Nat : l = Len(sessions) /\ a = Len(arrivals)
    BY StoreFacts
<1>2. NewestKept
    <2>1. sessions = [i \in 1..l |-> sessions[i]]
        BY <1>1, LenProperties DEF StoreTypeOK
    <2>2. \A i \in 1..l : sessions[i] = arrivals[a + 1 - i]
        BY <1>1 DEF NewestFirst
    <2>3. sessions = [i \in 1..l |-> arrivals[a + 1 - i]]
        BY <2>1, <2>2
    <2> QED
        BY <1>1, <2>3 DEF NewestKept
<1>3. FloorKept
    <2>1. PICK k \in Nat, n \in Nat : k = Cardinality(Free) /\ n = Cardinality(Workers) /\ k <= n
        BY FreeFinite
    <2>2. a - l > 0 => l + k > MaxSessions
        BY <1>1, <2>1 DEF StoreOK, Removed, Surplus
    <2>3. l <= a
        BY <1>1 DEF StoreOK
    <2>4. a - l = 0 \/ l + n > MaxSessions
        BY <2>1, <2>2, <2>3, MaxSessionsAssumption
    <2> QED
        BY <1>1, <2>1, <2>4 DEF FloorKept, Removed
<1> QED
    BY <1>2, <1>3 DEF StoreKeepsNewest

\* With no more threads than the store has places, the last session is never removed: a
\* thread that removes finds one, and a store something was added to is not empty.
LEMMA NeverEmptied ==
    ASSUME NEW R, StoreTypeOK(R), StoreOK, Cardinality(Workers) <= MaxSessions
    PROVE  /\ arrivals # <<>> => sessions # <<>>
           /\ \A w \in Workers : worker[w].pc = "trim" => sessions # <<>>
<1>1. PICK l \in Nat, a \in Nat : l = Len(sessions) /\ a = Len(arrivals)
    BY StoreFacts
<1>2. PICK k \in Nat, n \in Nat : k = Cardinality(Free) /\ n = Cardinality(Workers) /\ k <= n
    BY FreeFinite
<1>3. l + k > MaxSessions => l > 0
    BY <1>2, MaxSessionsAssumption
<1>4. a - l > 0 => l + k > MaxSessions
    BY <1>1, <1>2 DEF StoreOK, Removed, Surplus
<1>5. a > 0 => l > 0
    BY <1>3, <1>4
<1>6. \A w \in Workers : worker[w].pc = "trim" => l > 0
    BY <1>1, <1>2, <1>3 DEF StoreOK, Surplus
<1>7. (l > 0 <=> sessions # <<>>) /\ (a > 0 <=> arrivals # <<>>)
    BY <1>1, StoreFacts
<1> QED
    BY <1>5, <1>6, <1>7

--------------------------------------------------------------------------------
\* The status request.
ArrivedOnce ==
    \A i, j \in 1..Len(arrivals) : arrivals[i] = arrivals[j] => i = j

\* What the request has read arrived, and its latest session after its recent ones.
StatusOK ==
    /\ status.recent = NoReport \/ \E i \in 1..Len(arrivals) : status.recent = arrivals[i]
    /\ status.pc = "peek" => arrivals # <<>>
    /\ status.pc = "with" =>
          \E i \in 1..Len(arrivals) :
             /\ status.latest = arrivals[i]
             /\ \A j \in 1..Len(arrivals) : status.recent = arrivals[j] => j <= i
    /\ status.pc = "without" => status.recent = NoReport

LEMMA NewestArrived ==
    ASSUME NEW R, StoreTypeOK(R), StoreOK, NewestFirst
    PROVE  sessions # <<>> => /\ Len(arrivals) \in 1..Len(arrivals)
                              /\ Newest = arrivals[Len(arrivals)]
<1>1. PICK l \in Nat, a \in Nat : l = Len(sessions) /\ a = Len(arrivals) /\ l <= a
    BY StoreFacts DEF StoreOK
<1>2. ASSUME sessions # <<>> PROVE a \in 1..a /\ Newest = arrivals[a]
    <2>1. 1 \in 1..l /\ a \in 1..a
        BY <1>1, <1>2, StoreFacts
    <2>2. sessions[1] = arrivals[a + 1 - 1]
        BY <1>1, <2>1 DEF NewestFirst
    <2>3. Newest = sessions[1]
        BY <1>2, StoreFacts, HeadTailProperties DEF Newest
    <2>4. a + 1 - 1 = a
        OBVIOUS
    <2> QED
        BY <2>1, <2>2, <2>3, <2>4
<1> QED
    BY <1>1, <1>2

LEMMA StatusKept ==
    ASSUME NEW R, NoReport \notin R, StoreTypeOK(R), StatusOK, status' = status
    PROVE  /\ arrivals' = arrivals => StatusOK'
           /\ \A w \in Workers, r \in R :
                 AddFirst(w, r) /\ (\A i \in 1..Len(arrivals) : arrivals[i] # r) => StatusOK'
<1>1. arrivals' = arrivals => StatusOK'
    BY DEF StatusOK
<1>2. ASSUME NEW w \in Workers, NEW r \in R, AddFirst(w, r),
             \A i \in 1..Len(arrivals) : arrivals[i] # r
      PROVE  StatusOK'
    <2>1. PICK a \in Nat : a = Len(arrivals)
        BY StoreFacts
    <2>2. /\ Len(arrivals') = a + 1 /\ arrivals'[a + 1] = r
          /\ \A i \in 1..a : arrivals'[i] = arrivals[i]
          /\ \A i \in 1..a + 1 : i \in 1..a \/ i = a + 1
          /\ \A i \in 1..a : i \in 1..a + 1
        BY <1>2, <2>1, Added
    <2>3. status.recent = NoReport \/ \E i \in 1..a : status.recent = arrivals[i]
        BY <2>1 DEF StatusOK
    <2>4. status.recent # r
        BY <1>2, <2>1, <2>3
    <2>5. arrivals' # <<>>
        BY <2>1, <2>2, EmptySeq
    <2>6. status.recent = NoReport \/ \E i \in 1..a + 1 : status.recent = arrivals'[i]
        BY <2>2, <2>3
    <2>7. ASSUME status.pc = "with"
          PROVE  \E i \in 1..a + 1 :
                    /\ status.latest = arrivals'[i]
                    /\ \A j \in 1..a + 1 : status.recent = arrivals'[j] => j <= i
        <3>1. PICK i \in 1..a :
                 /\ status.latest = arrivals[i]
                 /\ \A j \in 1..a : status.recent = arrivals[j] => j <= i
            BY <2>1, <2>7 DEF StatusOK
        <3>2. i \in 1..a + 1 /\ status.latest = arrivals'[i]
            BY <2>2, <3>1
        <3>3. \A j \in 1..a + 1 : status.recent = arrivals'[j] => j <= i
            BY <2>2, <2>4, <3>1
        <3> QED
            BY <3>2, <3>3
    <2> QED
        BY <2>2, <2>5, <2>6, <2>7 DEF StatusOK
<1> QED
    BY <1>1, <1>2

\* The steps of the request itself.
LEMMA StatusSteps ==
    ASSUME NEW R, StoreTypeOK(R), StoreOK, NewestFirst, StatusOK,
           Cardinality(Workers) <= MaxSessions,
           ReadRecent \/ ReadIsEmpty \/ PeekFirst \/ Respond
    PROVE  StatusOK'
<1>1. PICK a \in Nat : a = Len(arrivals)
    BY StoreFacts
<1>2. arrivals' = arrivals /\ sessions' = sessions
    BY DEF ReadRecent, ReadIsEmpty, PeekFirst, Respond
<1>3. CASE ReadRecent
    <2>1. status' = [pc |-> "isEmpty", recent |-> Newest, latest |-> NoReport]
        BY <1>3 DEF ReadRecent
    <2>2. Newest = NoReport \/ \E i \in 1..a : Newest = arrivals[i]
        BY <1>1, NewestArrived DEF Newest
    <2> QED
        BY <1>1, <1>2, <2>1, <2>2 DEF StatusOK
<1>4. CASE ReadIsEmpty
    <2>1. /\ status'.recent = status.recent
          /\ status'.pc = IF sessions = <<>> THEN "without" ELSE "peek"
        BY <1>4 DEF ReadIsEmpty, StoreTypeOK
    <2>2. sessions = <<>> => arrivals = <<>> /\ a = 0
        BY <1>1, NeverEmptied, StoreFacts
    <2>3. arrivals = <<>> => sessions = <<>>
        <3>1. Len(sessions) <= Len(arrivals)
            BY DEF StoreOK
        <3> QED
            BY <3>1, StoreFacts
    <2>4. status.recent = NoReport \/ \E i \in 1..a : status.recent = arrivals[i]
        BY <1>1 DEF StatusOK
    <2>5. sessions = <<>> => status.recent = NoReport
        BY <2>2, <2>4
    <2> QED
        BY <1>1, <1>2, <2>1, <2>3, <2>4, <2>5 DEF StatusOK
<1>5. CASE PeekFirst
    <2>1. /\ status.pc = "peek" /\ status'.pc = "with" /\ status'.latest = Newest
          /\ status'.recent = status.recent
        BY <1>5 DEF PeekFirst, StoreTypeOK
    <2>2. sessions # <<>>
        BY <2>1, NeverEmptied DEF StatusOK
    <2>3. a \in 1..a /\ Newest = arrivals[a] /\ \A j \in 1..a : j <= a
        BY <1>1, <2>2, NewestArrived
    <2>4. \E i \in 1..a : /\ status'.latest = arrivals[i]
                          /\ \A j \in 1..a : status'.recent = arrivals[j] => j <= i
        BY <2>1, <2>3
    <2> QED
        BY <1>1, <1>2, <2>1, <2>4 DEF StatusOK
<1>6. CASE Respond
    <2>1. status' = [pc |-> "none", recent |-> NoReport, latest |-> NoReport]
        BY <1>6 DEF Respond, NoStatus
    <2> QED
        BY <2>1 DEF StatusOK
<1> QED
    BY <1>3, <1>4, <1>5, <1>6

LEMMA StatusConsistent ==
    ASSUME NEW R, NoReport \notin R, StoreTypeOK(R), ArrivedOnce, StatusOK
    PROVE  StatusIsConsistent
<1>1. PICK a \in Nat : a = Len(arrivals) /\ DOMAIN arrivals = 1..a
    BY StoreFacts, LenProperties
<1>2. \A i \in 1..a : arrivals[i] \in R
    BY <1>1, StoreFacts
<1>3. ASSUME NEW i \in 1..a PROVE Age(arrivals[i]) = i
    <2>1. \A j \in 1..a : arrivals[j] = arrivals[i] => j = i
        BY <1>1 DEF ArrivedOnce
    <2> QED
        BY <1>1, <2>1 DEF Age
<1>4. ASSUME status.pc = "with"
      PROVE  /\ status.latest # NoReport
             /\ status.recent # NoReport => Age(status.latest) >= Age(status.recent)
    <2>1. PICK i \in 1..a :
             /\ status.latest = arrivals[i]
             /\ \A j \in 1..a : status.recent = arrivals[j] => j <= i
        BY <1>1, <1>4 DEF StatusOK
    <2>2. status.recent # NoReport => \E j \in 1..a : status.recent = arrivals[j]
        BY <1>1 DEF StatusOK
    <2>3. ASSUME status.recent # NoReport PROVE Age(status.latest) >= Age(status.recent)
        <3>1. PICK j \in 1..a : status.recent = arrivals[j]
            BY <2>2, <2>3
        <3>2. j <= i /\ Age(status.recent) = j /\ Age(status.latest) = i
            BY <1>3, <2>1, <3>1
        <3> QED
            BY <3>2
    <2> QED
        BY <1>2, <2>1, <2>3
<1>5. status.pc = "without" => status.recent = NoReport
    BY DEF StatusOK
<1> QED
    BY <1>4, <1>5 DEF StatusIsConsistent


--------------------------------------------------------------------------------
\* The invariant of the store, of which each kind of step keeps every part.
FewThreads == Cardinality(Workers) <= MaxSessions

StoreInv(R) ==
    /\ StoreTypeOK(R) /\ StoreOK /\ NewestFirst /\ ArrivedOnce
    /\ FewThreads => StatusOK

LEMMA StoreInitInv ==
    ASSUME NEW R, StoreInit
    PROVE  StoreInv(R)
<1>1. sessions = <<>> /\ arrivals = <<>> /\ <<>> \in Seq(R) /\ Len(<<>>) = 0
    BY EmptySeq DEF StoreInit
<1>2. /\ worker \in [Workers -> [pc : WorkerPlaces, head : Nat, gone : Nat]]
      /\ \A w \in Workers : worker[w].pc = "idle"
    BY DEF StoreInit, Idle, WorkerPlaces
<1>3. status = NoStatus
    BY DEF StoreInit
<1>4. StoreTypeOK(R)
    BY <1>1, <1>2, <1>3 DEF StoreTypeOK, WorkerPlaces, NoStatus, StatusPlaces
<1>5. Len(sessions) = 0 /\ Len(arrivals) = 0
    BY <1>1
<1>6. StoreOK
    <2>1. Removed = 0
        BY <1>5 DEF Removed
    <2> QED
        BY <1>2, <1>5, <2>1 DEF StoreOK
<1>7. NewestFirst /\ ArrivedOnce /\ StatusOK
    BY <1>3, <1>5 DEF NewestFirst, ArrivedOnce, StatusOK, NoStatus
<1> QED
    BY <1>4, <1>6, <1>7 DEF StoreInv

LEMMA StoreEndsInv ==
    ASSUME NEW R, StoreEnds
    PROVE  StoreInv(R)'
<1>1. StoreTypeOK(R)' /\ StoreOK' /\ NewestFirst'
    BY StoreEndsKeeps
<1>2. Len(arrivals') = 0 /\ status' = [pc |-> "none", recent |-> NoReport, latest |-> NoReport]
    BY EmptySeq DEF StoreEnds, NoStatus
<1>3. ArrivedOnce' /\ StatusOK'
    BY <1>2 DEF ArrivedOnce, StatusOK
<1> QED
    BY <1>1, <1>3 DEF StoreInv

LEMMA StoreStandsInv ==
    ASSUME NEW R, StoreInv(R), UNCHANGED storeVars
    PROVE  StoreInv(R)'
<1>1. sessions' = sessions /\ arrivals' = arrivals /\ worker' = worker /\ status' = status
    BY DEF storeVars
<1>2. StoreTypeOK(R)' /\ ArrivedOnce' /\ (StatusOK => StatusOK')
    BY <1>1 DEF StoreInv, StoreTypeOK, ArrivedOnce, StatusOK
<1>3. StoreOK' /\ NewestFirst'
    BY <1>1, StandsKeeps DEF StoreInv
<1> QED
    BY <1>2, <1>3 DEF StoreInv, FewThreads

LEMMA AddFirstInv ==
    ASSUME NEW R, NoReport \notin R, StoreInv(R), NEW w \in Workers, NEW r \in R, AddFirst(w, r),
           \A i \in 1..Len(arrivals) : arrivals[i] # r
    PROVE  StoreInv(R)'
<1>1. StoreTypeOK(R) /\ StoreOK /\ NewestFirst /\ ArrivedOnce /\ status' = status
    BY DEF StoreInv, AddFirst
<1>2. StoreTypeOK(R)' /\ StoreOK' /\ NewestFirst'
    BY <1>1, AddFirstKeeps
<1>3. FewThreads => StatusOK'
    <2>1. StatusOK => StatusOK'
        BY <1>1, StatusKept
    <2> QED
        BY <2>1 DEF StoreInv
<1>4. ArrivedOnce'
    <2>1. PICK a \in Nat : a = Len(arrivals)
        BY <1>1, StoreFacts
    <2>2. /\ Len(arrivals') = a + 1 /\ arrivals'[a + 1] = r
          /\ \A i \in 1..a : arrivals'[i] = arrivals[i]
          /\ \A i \in 1..a + 1 : i \in 1..a \/ i = a + 1
        BY <1>1, <2>1, Added
    <2>3. \A i, j \in 1..a : arrivals[i] = arrivals[j] => i = j
        BY <1>1, <2>1 DEF ArrivedOnce
    <2>4. \A i, j \in 1..a + 1 : arrivals'[i] = arrivals'[j] => i = j
        BY <2>1, <2>2, <2>3
    <2> QED
        BY <2>2, <2>4 DEF ArrivedOnce
<1> QED
    BY <1>2, <1>3, <1>4 DEF StoreInv, FewThreads

LEMMA StoreStepInv ==
    ASSUME NEW R, NoReport \notin R, StoreInv(R), StoreStep
    PROVE  StoreInv(R)'
<1>1. StoreTypeOK(R) /\ StoreOK /\ NewestFirst /\ ArrivedOnce
    BY DEF StoreInv
<1>2. ASSUME NEW w \in Workers, BeginSize(w) \/ EndSize(w) \/ RemoveLast(w)
      PROVE  StoreInv(R)'
    <2>1. StoreTypeOK(R)' /\ StoreOK' /\ NewestFirst'
        BY <1>1, <1>2, BeginSizeKeeps, EndSizeKeeps, RemoveLastKeeps
    <2>2. arrivals' = arrivals /\ status' = status
        BY <1>2 DEF BeginSize, EndSize, RemoveLast
    <2>3. ArrivedOnce' /\ (StatusOK => StatusOK')
        BY <1>1, <2>2 DEF ArrivedOnce, StatusOK
    <2> QED
        BY <2>1, <2>3 DEF StoreInv, FewThreads
<1>3. ASSUME ReadRecent \/ ReadIsEmpty \/ PeekFirst \/ Respond
      PROVE  StoreInv(R)'
    <2>1. UNCHANGED <<sessions, arrivals, worker>>
        BY <1>3 DEF ReadRecent, ReadIsEmpty, PeekFirst, Respond
    <2>2. StoreOK' /\ NewestFirst' /\ ArrivedOnce'
        BY <1>1, <2>1, StandsKeeps DEF ArrivedOnce
    <2>3. FewThreads => StatusOK'
        BY <1>1, <1>3, StatusSteps DEF StoreInv, FewThreads
    <2>4. Newest \in R \cup {NoReport}
        BY <1>1, StoreFacts, HeadTailProperties DEF Newest
    <2>5. status \in [pc : StatusPlaces, recent : R \cup {NoReport}, latest : R \cup {NoReport}]
        BY <1>1 DEF StoreTypeOK
    <2>6. status' \in [pc : StatusPlaces, recent : R \cup {NoReport}, latest : R \cup {NoReport}]
        <3>1. PICK read : read = R \cup {NoReport} /\ NoReport \in read /\ Newest \in read
            BY <2>4
        <3>2. status \in [pc : StatusPlaces, recent : read, latest : read]
            BY <2>5, <3>1
        <3>3. \A pc \in StatusPlaces, x, y \in read :
                  [pc |-> pc, recent |-> x, latest |-> y]
                      \in [pc : StatusPlaces, recent : read, latest : read]
            OBVIOUS
        <3>4. ASSUME ReadRecent PROVE status' \in [pc : StatusPlaces, recent : read, latest : read]
            BY <3>1, <3>3, <3>4 DEF ReadRecent, StatusPlaces
        <3>5. ASSUME ReadIsEmpty PROVE status' \in [pc : StatusPlaces, recent : read, latest : read]
            BY <3>2, <3>5 DEF ReadIsEmpty, StatusPlaces
        <3>6. ASSUME PeekFirst PROVE status' \in [pc : StatusPlaces, recent : read, latest : read]
            BY <3>1, <3>2, <3>6 DEF PeekFirst, StatusPlaces
        <3>7. ASSUME Respond PROVE status' \in [pc : StatusPlaces, recent : read, latest : read]
            BY <3>1, <3>3, <3>7 DEF Respond, NoStatus, StatusPlaces
        <3>8. status' \in [pc : StatusPlaces, recent : read, latest : read]
            BY <1>3, <3>4, <3>5, <3>6, <3>7
        <3> QED
            BY <3>1, <3>8
    <2>7. StoreTypeOK(R)'
        BY <1>1, <2>1, <2>6 DEF StoreTypeOK
    <2> QED
        BY <2>2, <2>3, <2>7 DEF StoreInv, FewThreads
<1> QED
    BY <1>2, <1>3 DEF StoreStep

LEMMA StoreInvKeeps ==
    ASSUME NEW R, NoReport \notin R, StoreInv(R)
    PROVE  StoreTypeOK(R) /\ StoreKeepsNewest /\ (FewThreads => StatusIsConsistent)
<1>1. StoreTypeOK(R) /\ StoreKeepsNewest
    BY StoreKeeps DEF StoreInv
<1>2. FewThreads => StatusIsConsistent
    BY StatusConsistent DEF StoreInv
<1> QED
    BY <1>1, <1>2

================================================================================
