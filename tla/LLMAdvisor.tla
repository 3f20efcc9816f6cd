------------------------------- MODULE LLMAdvisor -------------------------------
(***************************************************************************)
(* ai_module/llm/llm_advisor.py over the table that dashboard/receiver.py  *)
(* fills.  A poll reads the newest rows above last_analyzed_id, at most    *)
(* METRICS_WINDOW_SIZE of them, and moves last_analyzed_id to the table's  *)
(* MAX(rowid) with a query of its own; the rows are then explained by a    *)
(* language model and the text is stored.  The receiver inserts at any     *)
(* moment, either process can fail and start again, and the operator can   *)
(* remove the database file under the advisor.                             *)
(*                                                                         *)
(* The receiver writes metrics.db in the directory it is started in, Home; *)
(* the advisor chooses a file when it starts and keeps to it: the          *)
(* dashboard's, if there is one by then, else the root's.  The table of    *)
(* the model is the one in the receiver's file; what an advisor finds in   *)
(* another file is nobody's report and is left out.                        *)
(*                                                                         *)
(* A row is the report it holds, and its rowid its place in the table.     *)
(***************************************************************************)
EXTENDS Naturals, Sequences, FiniteSets

CONSTANTS
    WindowSize,   \* METRICS_WINDOW_SIZE
    Home          \* the directory the receiver is started in

Directories == {"root", "ai_module", "dashboard"}

ASSUME WindowSizeAssumption == WindowSize \in Nat \ {0}
ASSUME HomeAssumption == Home \in Directories

VARIABLES
    tables,      \* the database has its tables
    metrics,     \* the table of that name, by rowid
    cursor,      \* last_analyzed_id
    dashboardFile, \* ai_module/dashboard/metrics.db exists
    reads,       \* the directory of the file the advisor opens
    advisor,     \* where the advisor's loop is
    batch,       \* the rows of its last poll
    polls,       \* history: the rows of each poll of this run of the advisor
    between,     \* history: the rows inserted between the queries of a poll
    wiped,       \* history: the file was removed during this run of the advisor
    explained,   \* history: the rows a stored explanation is about
    dropped      \* history: the rows whose explanation failed or was not stored

advisorVars ==
    <<tables, metrics, dashboardFile, reads, cursor, advisor, batch, polls, between, wiped,
      explained, dropped>>

AdvisorPlaces == {"down", "poll", "max", "explain", "store"}

\* Nobody has started; a dashboard file may be left from an earlier day.
AdvisorInit ==
    /\ tables = FALSE
    /\ metrics = <<>>
    /\ dashboardFile \in BOOLEAN
    /\ reads = "none"
    /\ cursor = 0
    /\ advisor = "down"
    /\ batch = {}
    /\ polls = {}
    /\ between = {}
    /\ wiped = FALSE
    /\ explained = {}
    /\ dropped = {}

Rows == {metrics[i] : i \in DOMAIN metrics}

--------------------------------------------------------------------------------
\* do_POST of the receiver, committed.  session_id is a column, not a key.
Insert(row) ==
    /\ metrics' = Append(metrics, row)
    /\ between' = IF advisor = "max" THEN between \cup {row} ELSE between
    /\ UNCHANGED <<tables, dashboardFile, reads, cursor, advisor, batch, polls, wiped, explained, dropped>>

\* init_db, CREATE TABLE IF NOT EXISTS.
CreateTables ==
    /\ tables' = TRUE
    /\ dashboardFile' = (dashboardFile \/ Home = "dashboard")
    /\ UNCHANGED <<metrics, reads, cursor, advisor, batch, polls, between, wiped, explained, dropped>>

--------------------------------------------------------------------------------
\* get_new_metrics.  A poll that fails, or finds no row, changes nothing.

\* Mutated form: the oldest rows come first.
QueryOldest ==
    /\ advisor = "poll"
    /\ reads = Home
    /\ cursor < Len(metrics)
    /\ batch' = {metrics[i] : i \in {j \in DOMAIN metrics : j > cursor /\ j <= cursor + WindowSize}}
    /\ advisor' = "max"
    /\ UNCHANGED <<tables, metrics, dashboardFile, reads, cursor, polls, between, wiped, explained, dropped>>

Query ==
    /\ advisor = "poll"
    /\ reads = Home
    /\ cursor < Len(metrics)
    /\ batch' = {metrics[i] : i \in {j \in DOMAIN metrics : j > cursor /\ j + WindowSize > Len(metrics)}}
    /\ advisor' = "max"
    /\ UNCHANGED <<tables, metrics, dashboardFile, reads, cursor, polls, between, wiped, explained, dropped>>

Polled(newCursor) ==
    /\ advisor = "max"
    /\ cursor' = newCursor
    /\ polls' = polls \cup {batch}
    /\ advisor' = "explain"
    /\ UNCHANGED <<tables, metrics, dashboardFile, reads, batch, between, wiped, explained, dropped>>

\* Mutated form: the cursor is the number of rows polled.
QueryMaxCounts == Polled(Cardinality(batch))

\* Mutated form: the cursor is the rowid the next row will have.
QueryMaxNext == Polled(Len(metrics) + 1)

QueryMax == Polled(Len(metrics))

\* Mutated form: the cursor is moved before the query that can fail.
MovesThenFails ==
    /\ advisor = "max"
    /\ cursor' = Len(metrics)
    /\ advisor' = "poll"
    /\ batch' = {}
    /\ UNCHANGED <<tables, metrics, dashboardFile, reads, polls, between, wiped, explained, dropped>>

QueryMaxFails ==
    /\ advisor = "max"
    /\ advisor' = "poll"
    /\ batch' = {}
    /\ UNCHANGED <<tables, metrics, dashboardFile, reads, cursor, polls, between, wiped, explained, dropped>>

\* A poll of a file that was removed: sqlite3.connect makes an empty one, the query fails.
CreatesFile ==
    /\ advisor = "poll"
    /\ reads = "dashboard" /\ ~dashboardFile
    /\ dashboardFile' = TRUE
    /\ UNCHANGED <<tables, metrics, reads, cursor, advisor, batch, polls, between, wiped,
                   explained, dropped>>

\* explain_events: the model's text, or the text of an error, stored like any other.
Explain(succeeds) ==
    /\ advisor = "explain"
    /\ advisor' = "store"
    /\ dropped' = IF succeeds THEN dropped ELSE dropped \cup batch
    /\ UNCHANGED <<tables, metrics, dashboardFile, reads, cursor, batch, polls, between, wiped, explained>>

\* The INSERT, in a database that may be locked or not have its tables any more.
Store(succeeds) ==
    /\ advisor = "store"
    /\ explained' = IF succeeds THEN explained \cup (batch \ dropped) ELSE explained
    /\ dropped' = IF succeeds THEN dropped ELSE dropped \cup batch
    /\ advisor' = "poll"
    /\ batch' = {}
    /\ dashboardFile' = (dashboardFile \/ reads = "dashboard")
    /\ UNCHANGED <<tables, metrics, reads, cursor, polls, between, wiped>>

\* The module is loaded: DB_PATH is chosen, once, by what exists now.
AdvisorStarts ==
    /\ advisor = "down"
    /\ advisor' = "poll"
    /\ reads' = IF dashboardFile THEN "dashboard" ELSE "root"
    /\ UNCHANGED <<tables, metrics, dashboardFile, cursor, batch, polls, between, wiped,
                   explained, dropped>>

\* The advisor ends, in whichever step; the next one starts from nothing.
AdvisorEnds ==
    /\ advisor # "down"
    /\ advisor' = "down"
    /\ reads' = "none"
    /\ cursor' = 0
    /\ batch' = {}
    /\ polls' = {}
    /\ between' = {}
    /\ wiped' = FALSE
    /\ dropped' = {}
    /\ UNCHANGED <<tables, metrics, dashboardFile, explained>>

(***************************************************************************)
(* run_demo.sh reset stops the receiver and removes the file, in all three *)
(* directories; it does not know of the advisor.  Between the queries of a *)
(* poll the advisor's connection keeps the old file, in which nothing      *)
(* changes any more: its second query gives what it would have given       *)
(* before the removal.                                                     *)
(***************************************************************************)
Wipe ==
    /\ advisor # "max"
    /\ tables' = FALSE
    /\ metrics' = <<>>
    /\ dashboardFile' = FALSE
    /\ wiped' = (wiped \/ advisor # "down")
    /\ explained' = {}
    /\ UNCHANGED <<reads, cursor, advisor, batch, polls, between, dropped>>

--------------------------------------------------------------------------------
AdvisorTypeOK(rows) ==
    /\ metrics \in Seq(rows)
    /\ metrics # <<>> => tables
    /\ tables /\ Home = "dashboard" => dashboardFile
    /\ reads \in {"none", "root", "dashboard"}
    /\ reads = "none" <=> advisor = "down"
    /\ advisor \in {"max", "explain", "store"} => reads = Home
    /\ cursor \in 0..Cardinality(rows)
    /\ advisor \in AdvisorPlaces
    /\ polls \subseteq SUBSET rows
    /\ {wiped, tables, dashboardFile} \subseteq BOOLEAN
    /\ \A set \in {batch, between, explained, dropped} : set \subseteq rows

(***************************************************************************)
(* However inserts, failed queries and the removal of the file fall, one   *)
(* run of the advisor never hands a row to the language model twice.       *)
(***************************************************************************)
ExplainedOnce ==
    /\ \A p, q \in polls : p = q \/ p \cap q = {}
    /\ advisor = "max" => \A p \in polls : batch \cap p = {}

(***************************************************************************)
(* llm_advisor.py, "Get metrics that haven't been analyzed yet": a row     *)
(* that last_analyzed_id has passed was polled, but for three causes: a    *)
(* full poll took WindowSize newer rows, the row came between the two      *)
(* queries of a poll, or the table is not the one the cursor was moved     *)
(* over.                                                                   *)
(***************************************************************************)
Passed == {metrics[i] : i \in {j \in DOMAIN metrics : j <= cursor}}
Polls == UNION polls
Crowded(i) ==
    \E p \in polls :
        /\ Cardinality(p) = WindowSize
        /\ p \subseteq {metrics[j] : j \in {k \in DOMAIN metrics : k > i}}

SkippedForCause ==
    \A i \in DOMAIN metrics :
        i <= cursor =>
            metrics[i] \in Polls \cup between \/ Crowded(i) \/ wiped

================================================================================
