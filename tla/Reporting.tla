-------------------------------- MODULE Reporting --------------------------------
(***************************************************************************)
(* What becomes of a session's report: the gateway thread numbers its      *)
(* session from a counter it shares with the others, and at its end        *)
(* metrics_reporter.c posts one HTTP request to port 8080 and forgets it.  *)
(* There listens dashboard/receiver.py, one request after the other, with  *)
(* the LLM advisor polling its table; or the Java server, with several     *)
(* request threads and a JavaFX page; or nobody.                           *)
(*                                                                         *)
(* The measurements in a report are left out: a report is the session it   *)
(* comes from, and the number that session took.                           *)
(***************************************************************************)
EXTENDS LLMAdvisor, MetricsStore, SequencesExt

CONSTANTS
    Threads,      \* the sessions, in the order of their names or any other
    Backlog,      \* connections port 8080 holds before they are accepted
    MaxFaults     \* bound: failures, restarts and resets

ASSUME ThreadsAssumption == IsFiniteSet(Threads) /\ NoReport \notin Threads
ASSUME LimitsAssumption == Backlog \in Nat \ {0} /\ MaxFaults \in Nat

VARIABLES
    at,       \* where each session is
    number,   \* its session_id, 0 before it has one
    counter,  \* global_session_id
    port,     \* who has port 8080
    up,       \* it is running
    queue,    \* the connections it has not accepted
    sent,     \* the sessions whose request is written and not read
    serving,  \* the connection the receiver serves
    kept,     \* history: the reports the receiver committed, in the file there is
    faults

portVars == <<port, up, queue, sent, serving, kept>>
sessionVars == <<at, number, counter>>
vars == <<sessionVars, portVars, faults, advisorVars, storeVars>>

SessionPlaces == {"idle", "increment", "flow", "send", "done"}
Servers == {"receiver", "spring"}

Init ==
    /\ at = [t \in Threads |-> "idle"]
    /\ number = [t \in Threads |-> 0]
    /\ counter = 1
    /\ port \in Servers
    /\ up = FALSE
    /\ queue = <<>>
    /\ sent = {}
    /\ serving = NoReport
    /\ kept = {}
    /\ faults = 0
    /\ AdvisorInit
    /\ port = "spring" => ~dashboardFile   \* nobody looks for it
    /\ StoreInit

Goto(t, place) == at' = [at EXCEPT ![t] = place]

--------------------------------------------------------------------------------
\* handle_client: session_id = global_session_id++, a read and a write without a lock.
ReadCounter(t) ==
    /\ at[t] = "idle"
    /\ number' = [number EXCEPT ![t] = counter]
    /\ Goto(t, "increment")
    /\ UNCHANGED <<counter, portVars, faults, advisorVars, storeVars>>

WriteCounter(t) ==
    /\ at[t] = "increment"
    /\ counter' = number[t] + 1
    /\ Goto(t, "flow")
    /\ UNCHANGED <<number, portVars, faults, advisorVars, storeVars>>

\* The thread returns before its flow ends, and reports nothing.
ReturnsEarly(t) ==
    /\ at[t] = "flow"
    /\ Goto(t, "done")
    /\ UNCHANGED <<number, counter, portVars, faults, advisorVars, storeVars>>

\* The flow ends: http_post.
Connect(t) ==
    /\ at[t] = "flow"
    /\ up
    /\ Len(queue) < Backlog
    /\ queue' = Append(queue, t)
    /\ Goto(t, "send")
    /\ UNCHANGED <<number, counter, port, up, sent, serving, kept, faults, advisorVars, storeVars>>

\* Refused, or no answer within SO_SNDTIMEO: the report is dropped.
ConnectFails(t) ==
    /\ at[t] = "flow"
    /\ ~up \/ Len(queue) = Backlog
    /\ Goto(t, "done")
    /\ UNCHANGED <<number, counter, portVars, faults, advisorVars, storeVars>>

\* The request fits the socket's buffer, and close leaves it to be read, if the server
\* is still there.  What send returns is not looked at, and no answer is read.
SendAndClose(t) ==
    /\ at[t] = "send"
    /\ sent' = IF t \in Range(queue) \cup {serving} THEN sent \cup {t} ELSE sent
    /\ Goto(t, "done")
    /\ UNCHANGED <<number, counter, port, up, queue, serving, kept, faults, advisorVars, storeVars>>

SessionStep(t) ==
    WriteCounter(t) \/ ReturnsEarly(t) \/ Connect(t) \/ ConnectFails(t) \/ SendAndClose(t)

--------------------------------------------------------------------------------
\* receiver.py.
AcceptPost ==
    /\ port = "receiver" /\ up
    /\ serving = NoReport /\ queue # <<>>
    /\ serving' = Head(queue)
    /\ queue' = Tail(queue)
    /\ UNCHANGED <<sessionVars, port, up, sent, kept, faults, advisorVars, storeVars>>

\* do_POST reads the whole request, then commits the row; the response goes to a
\* connection that is closed, and what that raises is caught or printed.
\* Mutated form: the number is the row's key.
CommitPostOver ==
    /\ up
    /\ serving \in sent
    /\ IF \E row \in Rows : number[row] = number[serving]
       THEN /\ metrics' = [i \in DOMAIN metrics |->
                  IF number[metrics[i]] = number[serving] THEN serving ELSE metrics[i]]
            /\ UNCHANGED <<tables, dashboardFile, reads, cursor, advisor, batch, polls, between,
                           wiped, explained, dropped>>
       ELSE Insert(serving)
    /\ kept' = kept \cup {serving}
    /\ serving' = NoReport
    /\ sent' = sent \ {serving}
    /\ UNCHANGED <<sessionVars, port, up, queue, faults, storeVars>>

CommitPost ==
    /\ up
    /\ serving \in sent
    /\ Insert(serving)
    /\ kept' = kept \cup {serving}
    /\ serving' = NoReport
    /\ sent' = sent \ {serving}
    /\ UNCHANGED <<sessionVars, port, up, queue, faults, storeVars>>

\* The database is locked: 500, which nobody reads.
PostFails ==
    /\ up
    /\ faults < MaxFaults
    /\ serving \in sent
    /\ serving' = NoReport
    /\ sent' = sent \ {serving}
    /\ faults' = faults + 1
    /\ UNCHANGED <<sessionVars, port, up, queue, kept, advisorVars, storeVars>>

\* receiveMetrics of the Java server: any request that is there, by any free thread.
ReceiveMetrics(w) ==
    /\ port = "spring" /\ up
    /\ \E i \in DOMAIN queue :
          /\ queue[i] \in sent
          /\ AddFirst(w, queue[i])
          /\ queue' = RemoveAt(queue, i)
          /\ sent' = sent \ {queue[i]}
    /\ UNCHANGED <<sessionVars, port, up, serving, kept, faults, advisorVars>>

--------------------------------------------------------------------------------
\* Failures.  A server that ends takes its connections with it, the Java one its sessions.
ServerEnds ==
    /\ up /\ faults < MaxFaults
    /\ up' = FALSE
    /\ queue' = <<>>
    /\ serving' = NoReport
    /\ sent' = {}
    /\ faults' = faults + 1
    /\ IF port = "spring"
       THEN /\ sessions' = <<>> /\ arrivals' = <<>>
            /\ worker' = [w \in Workers |-> Idle] /\ status' = NoStatus
       ELSE UNCHANGED storeVars
    /\ UNCHANGED <<sessionVars, port, kept, advisorVars>>

ServerStarts ==
    /\ ~up
    /\ up' = TRUE
    /\ IF port = "receiver" THEN CreateTables ELSE UNCHANGED advisorVars
    /\ UNCHANGED <<sessionVars, port, queue, sent, serving, kept, faults, storeVars>>

\* run_demo.sh stop, or reset: the gateway and the receiver end; reset removes the file.
StackStops ==
    /\ port = "receiver" /\ faults < MaxFaults
    /\ at' = [t \in Threads |-> IF at[t] = "idle" THEN "idle" ELSE "done"]
    /\ counter' = 1
    /\ up' = FALSE
    /\ queue' = <<>>
    /\ serving' = NoReport
    /\ sent' = {}
    /\ faults' = faults + 1
    /\ \/ Wipe /\ kept' = {}
       \/ UNCHANGED <<advisorVars, kept>>
    /\ UNCHANGED <<number, port, storeVars>>

AdvisorFault ==
    /\ port = "receiver" /\ faults < MaxFaults
    /\ QueryMaxFails \/ Explain(FALSE) \/ Store(FALSE) \/ AdvisorEnds
    /\ faults' = faults + 1
    /\ UNCHANGED <<sessionVars, portVars, storeVars>>

\* Beside either server; with the Java one there is no table to follow.
AdvisorComesUp ==
    /\ port = "receiver"
    /\ AdvisorStarts
    /\ UNCHANGED <<sessionVars, portVars, faults, storeVars>>

AdvisorStep ==
    /\ Query \/ CreatesFile \/ QueryMax \/ Explain(TRUE) \/ Store(tables)
    /\ UNCHANGED <<sessionVars, portVars, faults, storeVars>>

JavaStep ==
    /\ port = "spring" /\ up
    /\ StoreStep
    /\ UNCHANGED <<sessionVars, portVars, faults, advisorVars>>

ReceiverStep == AcceptPost \/ CommitPost

Next ==
    \/ \E t \in Threads : ReadCounter(t) \/ SessionStep(t)
    \/ ReceiverStep \/ PostFails
    \/ \E w \in Workers : ReceiveMetrics(w)
    \/ AdvisorComesUp \/ AdvisorStep \/ AdvisorFault \/ JavaStep
    \/ ServerEnds \/ ServerStarts \/ StackStops

Spec == Init /\ [][Next]_vars

\* The advisor's loop runs; nobody has to start a server or to end a flow.
FairSpec == Spec /\ WF_vars(AdvisorStep)

--------------------------------------------------------------------------------
TypeOK ==
    /\ at \in [Threads -> SessionPlaces]
    /\ number \in [Threads -> 0..Cardinality(Threads)]
    /\ counter \in 1..(Cardinality(Threads) + 1)
    /\ port \in Servers /\ up \in BOOLEAN
    /\ queue \in Seq(Threads) /\ Len(queue) <= Backlog
    /\ sent \subseteq Threads /\ kept \subseteq Threads
    /\ serving \in Threads \cup {NoReport}
    /\ faults \in 0..MaxFaults
    /\ AdvisorTypeOK(Threads)
    /\ StoreTypeOK(Threads)

(***************************************************************************)
(* Two sessions may take one number (the counter has no lock, and a        *)
(* gateway that starts again counts from 1).  Neither loses its report by  *)
(* it: every report that was committed stays in the table, once, until the *)
(* file is removed, whatever number it has.                                *)
(***************************************************************************)
ReportsKept ==
    port = "receiver" =>
        /\ Rows = kept
        /\ Cardinality(kept) = Len(metrics)

(***************************************************************************)
(* An advisor that has the receiver's file: every row the table keeps is   *)
(* in the end explained, or its text failed, or it was skipped for one of  *)
(* the causes of SkippedForCause: a poll that fails between its queries,   *)
(* an advisor that ends and is started again, and a server that does,      *)
(* forget nothing.  That it has the receiver's file is a condition: an     *)
(* advisor that chose before the file existed, or beside a receiver that   *)
(* was started in another directory, explains none of its rows.            *)
(***************************************************************************)
Position(t) == CHOOSE i \in DOMAIN metrics : metrics[i] = t
ComesToAnEnd ==
    \A t \in Threads :
        t \in Rows ~>
            \/ t \notin Rows
            \/ t \in explained \cup dropped \cup between
            \/ Crowded(Position(t))
            \/ wiped

RowsExplained == <>[](advisor # "down" /\ reads = Home) => ComesToAnEnd

================================================================================
