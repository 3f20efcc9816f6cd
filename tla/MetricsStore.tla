------------------------------ MODULE MetricsStore ------------------------------
(***************************************************************************)
(* The Java server's MetricsStore: a ConcurrentLinkedDeque of the latest   *)
(* sessions, newest first, that the threads of the web server add to and   *)
(* trim, and that the JavaFX page's requests read.  The deque takes no     *)
(* lock: adding, counting and trimming are steps of their own, and so are  *)
(* the reads of one status request.  size() walks the deque from its head  *)
(* and sees neither what is added meanwhile nor what is removed before the *)
(* walk gets there.                                                        *)
(***************************************************************************)
EXTENDS Naturals, Sequences, FiniteSets

CONSTANTS
    Workers,       \* the server's request threads that store sessions
    MaxSessions,   \* MAX_SESSIONS
    NoReport       \* null, and a worker without a request

ASSUME MaxSessionsAssumption == MaxSessions \in Nat \ {0}
ASSUME WorkersAssumption == IsFiniteSet(Workers)

VARIABLES
    sessions,   \* the deque, newest first
    arrivals,   \* history: the reports added since the server started, oldest first
    worker,     \* the threads in addSession: their place, and what size() saw when it began
    status      \* the request for /api/status

storeVars == <<sessions, arrivals, worker, status>>

Idle == [pc |-> "idle", head |-> 0, gone |-> 0]
NoStatus == [pc |-> "none", recent |-> NoReport, latest |-> NoReport]

StoreInit ==
    /\ sessions = <<>>
    /\ arrivals = <<>>
    /\ worker = [w \in Workers |-> Idle]
    /\ status = NoStatus

Removed == Len(arrivals) - Len(sessions)

--------------------------------------------------------------------------------
\* addSession, for path events addPathEvent.

AddFirst(w, report) ==
    /\ worker[w].pc = "idle"
    /\ sessions' = <<report>> \o sessions
    /\ arrivals' = Append(arrivals, report)
    /\ worker' = [worker EXCEPT ![w].pc = "size"]
    /\ UNCHANGED status

\* size() begins its walk, or begins again at a node that was removed under it.
BeginSize(w) ==
    /\ \/ worker[w].pc = "size"
       \/ worker[w].pc = "count" /\ Removed > worker[w].gone
    /\ worker' = [worker EXCEPT ![w] =
          [pc |-> "count", head |-> Len(arrivals), gone |-> Removed]]
    /\ UNCHANGED <<sessions, arrivals, status>>

\* What the walk may have counted when it ends.
Counts(w) ==
    {n \in 0..(worker[w].head - worker[w].gone) : n + Removed >= worker[w].head}

\* Mutated form: a full deque is trimmed.
EndSizeFull(w) ==
    /\ worker[w].pc = "count"
    /\ \E size \in Counts(w) :
          worker' = [worker EXCEPT ![w] =
              IF size >= MaxSessions THEN [Idle EXCEPT !.pc = "trim"] ELSE Idle]
    /\ UNCHANGED <<sessions, arrivals, status>>

EndSize(w) ==
    /\ worker[w].pc = "count"
    /\ \E size \in Counts(w) :
          worker' = [worker EXCEPT ![w] =
              IF size > MaxSessions THEN [Idle EXCEPT !.pc = "trim"] ELSE Idle]
    /\ UNCHANGED <<sessions, arrivals, status>>

\* Mutated form: the newest session is removed.
TrimNewest(w) ==
    /\ worker[w].pc = "trim"
    /\ sessions # <<>>
    /\ sessions' = Tail(sessions)
    /\ worker' = [worker EXCEPT ![w] = Idle]
    /\ UNCHANGED <<arrivals, status>>

\* Of an empty deque it would raise an exception: FloorKept says it never is.
RemoveLast(w) ==
    /\ worker[w].pc = "trim"
    /\ sessions # <<>>
    /\ sessions' = SubSeq(sessions, 1, Len(sessions) - 1)
    /\ worker' = [worker EXCEPT ![w] = Idle]
    /\ UNCHANGED <<arrivals, status>>

--------------------------------------------------------------------------------
\* getStatus: the newest of the recent sessions, then isEmpty, then peekFirst.

Newest == IF sessions = <<>> THEN NoReport ELSE Head(sessions)

ReadRecent ==
    /\ status.pc = "none"
    /\ status' = [pc |-> "isEmpty", recent |-> Newest, latest |-> NoReport]
    /\ UNCHANGED <<sessions, arrivals, worker>>

ReadIsEmpty ==
    /\ status.pc = "isEmpty"
    /\ status' = [status EXCEPT !.pc = IF sessions = <<>> THEN "without" ELSE "peek"]
    /\ UNCHANGED <<sessions, arrivals, worker>>

\* An empty deque gives null, on which the getters of the next lines fail.
PeekFirst ==
    /\ status.pc = "peek"
    /\ status' = [status EXCEPT !.pc = "with", !.latest = Newest]
    /\ UNCHANGED <<sessions, arrivals, worker>>

Respond ==
    /\ status.pc \in {"with", "without"}
    /\ status' = NoStatus
    /\ UNCHANGED <<sessions, arrivals, worker>>

StoreStep ==
    \/ \E w \in Workers : BeginSize(w) \/ EndSize(w) \/ RemoveLast(w)
    \/ ReadRecent \/ ReadIsEmpty \/ PeekFirst \/ Respond

--------------------------------------------------------------------------------
StatusPlaces == {"none", "isEmpty", "peek", "with", "without"}

StoreTypeOK(reports) ==
    /\ sessions \in Seq(reports)
    /\ arrivals \in Seq(reports)
    /\ worker \in [Workers -> [pc : {"idle", "size", "count", "trim"}, head : Nat, gone : Nat]]
    /\ status \in [pc : StatusPlaces, recent : reports \cup {NoReport},
                   latest : reports \cup {NoReport}]

(***************************************************************************)
(* Threads that count at the same time may each see one session too many   *)
(* and each remove one.  Still the store keeps the newest sessions, in the *)
(* order of their arrival, and at least MaxSessions + 1 - workers of them: *)
(* removeLast finds something to remove whatever the other threads did.    *)
(***************************************************************************)
NewestKept ==
    sessions = [i \in 1..Len(sessions) |-> arrivals[Len(arrivals) + 1 - i]]

FloorKept ==
    \/ Removed = 0
    \/ Len(sessions) + Cardinality(Workers) > MaxSessions

StoreKeepsNewest == NewestKept /\ FloorKept

(***************************************************************************)
(* isEmpty and peekFirst are two reads with removals between them, and     *)
(* what they give is combined with the recent sessions read before: the    *)
(* latest session of an answer exists, it is not older than the newest of  *)
(* the recent ones, and no answer that has recent ones goes without.       *)
(***************************************************************************)
Age(report) == CHOOSE i \in DOMAIN arrivals : arrivals[i] = report

StatusIsConsistent ==
    /\ status.pc = "with" =>
          /\ status.latest # NoReport
          /\ status.recent # NoReport => Age(status.latest) >= Age(status.recent)
    /\ status.pc = "without" => status.recent = NoReport

================================================================================
