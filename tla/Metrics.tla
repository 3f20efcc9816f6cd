--------------------------------- MODULE Metrics ---------------------------------
(***************************************************************************)
(* gateway/metrics.c: the windows that the session threads fill and that   *)
(* sessions and the path monitor read, each window under a mutex of its    *)
(* own.  One action stands for one lock region; record_packet takes its    *)
(* time stamp before it takes the mutex, so that is an action by itself.   *)
(*                                                                         *)
(* A time stamp is a small number; packet sizes and the quotients the      *)
(* features are made of are left out: the sums they are made from are kept.*)
(***************************************************************************)
EXTENDS Integers, Sequences

CONSTANTS
    Sessions,        \* the threads of handle_client
    LOSS_WINDOW,     \* entries of the loss window
    FEATURE_WINDOW,  \* entries of the packet window
    MaxTime,         \* bound: the clock stops here
    MaxMessages      \* bound: messages of a session

ASSUME WindowsAssumption ==
    LOSS_WINDOW \in Nat \ {0} /\ FEATURE_WINDOW \in Nat \ {0}
ASSUME BoundsAssumption == MaxTime \in Nat /\ MaxMessages \in Nat \ {0}

VARIABLES
    clock,                              \* CLOCK_MONOTONIC
    at,                                 \* where each session is
    t,                                  \* its time stamp, taken in record_packet
    messages,                           \* how many messages it has received
    loss_buf, loss_head, loss_filled,   \* behind loss_mtx
    win_ts, win_head, win_count,        \* behind win_mtx
    last_lat_ms, jitter_init,           \* behind jitter_mtx
    overtaken                           \* history: a packet was recorded while another
                                        \* thread held an earlier stamp

lossVars == <<loss_buf, loss_head, loss_filled>>
winVars == <<win_ts, win_head, win_count, overtaken>>
jitterVars == <<last_lat_ms, jitter_init>>
vars == <<clock, at, t, messages, lossVars, winVars, jitterVars>>

Places == {"recv", "record", "connect", "send", "finish", "done"}
NoStamp == -1
Latencies == {1, 2}

Init ==
    /\ clock = 0
    /\ at = [s \in Sessions |-> "recv"]
    /\ t = [s \in Sessions |-> NoStamp]
    /\ messages = [s \in Sessions |-> 0]
    /\ loss_buf = [i \in 0..LOSS_WINDOW - 1 |-> 0] /\ loss_head = 0 /\ loss_filled = 0
    /\ win_ts = [i \in 0..FEATURE_WINDOW - 1 |-> 0] /\ win_head = 0 /\ win_count = 0
    /\ last_lat_ms = 0 /\ jitter_init = FALSE
    /\ overtaken = FALSE

Goto(s, place) == at' = [at EXCEPT ![s] = place]

--------------------------------------------------------------------------------
\* The windows.

\* Mutated form: the head wraps one slot late.
WrapsLate(success) ==
    /\ loss_buf' = [loss_buf EXCEPT ![loss_head] = success]
    /\ loss_head' = IF loss_head = LOSS_WINDOW - 1 THEN loss_head ELSE loss_head + 1
    /\ loss_filled' = IF loss_filled < LOSS_WINDOW THEN loss_filled + 1 ELSE loss_filled

record_send_result(success) ==
    /\ loss_buf' = [loss_buf EXCEPT ![loss_head] = success]
    /\ loss_head' = (loss_head + 1) % LOSS_WINDOW
    /\ loss_filled' = IF loss_filled < LOSS_WINDOW THEN loss_filled + 1 ELSE loss_filled

\* The entry that the i-th round of the loop in get_packet_loss_pct looks at.
LossEntry(i) ==
    loss_buf[(loss_head - loss_filled + i + LOSS_WINDOW) % LOSS_WINDOW]

\* Mutated form: the filled slots are counted up without end.
CountsOn(stamp) ==
    /\ win_ts' = [win_ts EXCEPT ![win_head] = stamp]
    /\ win_head' = (win_head + 1) % FEATURE_WINDOW
    /\ win_count' = win_count + 1

\* The lock region of record_packet.
PushPacket(stamp) ==
    /\ win_ts' = [win_ts EXCEPT ![win_head] = stamp]
    /\ win_head' = (win_head + 1) % FEATURE_WINDOW
    /\ win_count' = IF win_count < FEATURE_WINDOW THEN win_count + 1 ELSE win_count

\* Mutated form: the oldest slot of a window that is not full is taken to be the next.
StartsAtHead == win_head

\* get_window_features: the oldest slot, the entry of the i-th round, the newest slot.
Start == (win_head - win_count + FEATURE_WINDOW) % FEATURE_WINDOW

\* Mutated form: the rounds count from the slot after the oldest.
SkipsOldest(i) == win_ts[(Start + i + 1) % FEATURE_WINDOW]

PacketEntry(i) == win_ts[(Start + i) % FEATURE_WINDOW]

\* Mutated form: the newest slot is taken to be the one written next.
NextSlot == win_ts[win_head]

LastStamp == win_ts[(win_head - 1 + FEATURE_WINDOW) % FEATURE_WINDOW]
Span == LastStamp - win_ts[Start]
Gap(i) == PacketEntry(i) - PacketEntry(i - 1)

\* The sums of the gaps and of their squares, over the rounds up to i.
SumIat[i \in 0..FEATURE_WINDOW] == IF i = 0 THEN 0 ELSE SumIat[i - 1] + Gap(i)
SumIat2[i \in 0..FEATURE_WINDOW] == IF i = 0 THEN 0 ELSE SumIat2[i - 1] + Gap(i) * Gap(i)

--------------------------------------------------------------------------------
\* The sessions.
Tick ==
    /\ clock < MaxTime
    /\ clock' = clock + 1
    /\ UNCHANGED <<at, t, messages, lossVars, winVars, jitterVars>>

\* recv returns a message: record_packet reads the clock.
Receive(s) ==
    /\ at[s] = "recv"
    /\ messages[s] < MaxMessages
    /\ messages' = [messages EXCEPT ![s] = @ + 1]
    /\ t' = [t EXCEPT ![s] = clock]
    /\ Goto(s, "record")
    /\ UNCHANGED <<clock, lossVars, winVars, jitterVars>>

\* The client closes: before its first message there is no flow to report.
ClientCloses(s) ==
    /\ at[s] = "recv"
    /\ Goto(s, IF messages[s] = 0 THEN "done" ELSE "finish")
    /\ UNCHANGED <<clock, t, messages, lossVars, winVars, jitterVars>>

record_packet(s) ==
    /\ at[s] = "record"
    /\ PushPacket(t[s])
    /\ t' = [t EXCEPT ![s] = NoStamp]
    /\ overtaken' = (overtaken \/ \E r \in Sessions : t[r] # NoStamp /\ t[r] < t[s])
    /\ Goto(s, IF messages[s] = 1 THEN "connect" ELSE "send")
    /\ UNCHANGED <<clock, messages, lossVars, jitterVars>>

\* The association and the handshake; the failure of either is a lost message.
Connected(s) ==
    /\ at[s] = "connect"
    /\ Goto(s, "send")
    /\ UNCHANGED <<clock, t, messages, lossVars, winVars, jitterVars>>

ConnectFails(s) ==
    /\ at[s] = "connect"
    /\ record_send_result(0)
    /\ Goto(s, "done")
    /\ UNCHANGED <<clock, t, messages, winVars, jitterVars>>

Send(s) ==
    /\ at[s] = "send"
    /\ \E success \in {0, 1} :
          /\ record_send_result(success)
          /\ Goto(s, IF success = 1 THEN "recv" ELSE "finish")
    /\ UNCHANGED <<clock, t, messages, winVars, jitterVars>>

\* update_jitter, for the report of the flow.
Finish(s) ==
    /\ at[s] = "finish"
    /\ last_lat_ms' \in Latencies
    /\ jitter_init' = TRUE
    /\ Goto(s, "done")
    /\ UNCHANGED <<clock, t, messages, lossVars, winVars>>

SessionStep(s) ==
    \/ Receive(s) \/ ClientCloses(s) \/ record_packet(s)
    \/ Connected(s) \/ ConnectFails(s) \/ Send(s) \/ Finish(s)

Next == Tick \/ \E s \in Sessions : SessionStep(s)

Spec == Init /\ [][Next]_vars

--------------------------------------------------------------------------------
TypeOK ==
    /\ clock \in 0..MaxTime
    /\ at \in [Sessions -> Places]
    /\ t \in [Sessions -> 0..MaxTime \cup {NoStamp}]
    /\ \A s \in Sessions : t[s] # NoStamp <=> at[s] = "record"
    /\ messages \in [Sessions -> 0..MaxMessages]
    /\ loss_buf \in [0..LOSS_WINDOW - 1 -> {0, 1}]
    /\ loss_head \in 0..LOSS_WINDOW - 1
    /\ loss_filled \in 0..LOSS_WINDOW
    /\ win_ts \in [0..FEATURE_WINDOW - 1 -> 0..MaxTime]
    /\ win_head \in 0..FEATURE_WINDOW - 1
    /\ win_count \in 0..FEATURE_WINDOW
    /\ last_lat_ms \in Latencies \cup {0}
    /\ jitter_init \in BOOLEAN
    /\ overtaken \in BOOLEAN

(***************************************************************************)
(* metrics.h, "% failed sends over last LOSS_WINDOW attempts": whatever    *)
(* sessions record in whatever order, before the ring has filled and after *)
(* it has wrapped, get_packet_loss_pct looks at exactly the last results.  *)
(***************************************************************************)
LossWindow == INSTANCE SlidingWindow WITH
    Size <- LOSS_WINDOW, Entries <- {0, 1},
    recent <- [i \in 1..loss_filled |-> LossEntry(i - 1)]
LossWindowKeepsLast == LossWindow!Spec

(***************************************************************************)
(* metrics.h, "ring buffer of recent arrivals": the loop of                *)
(* get_window_features goes through the last FEATURE_WINDOW packets, in    *)
(* the order in which they were recorded.                                  *)
(***************************************************************************)
PacketWindow == INSTANCE SlidingWindow WITH
    Size <- FEATURE_WINDOW, Entries <- 0..MaxTime,
    recent <- [i \in 1..win_count |-> PacketEntry(i - 1)]
PacketWindowKeepsLast == PacketWindow!Spec

(***************************************************************************)
(* The features of one vector belong to one window: iat_mean is the window *)
(* span (flow_duration, read from the newest and the oldest slot) divided  *)
(* by the number of gaps (summed over the slots in between), and the       *)
(* variance is negative by rounding only, as metrics.c says at its guard.  *)
(***************************************************************************)
FeaturesAgree ==
    win_count >= 2 =>
        LET gaps == win_count - 1
        IN  SumIat[gaps] = Span /\ gaps * SumIat2[gaps] >= Span * Span

(***************************************************************************)
(* The stamp is taken before the mutex, so a thread may record an earlier  *)
(* packet after a later one; features.py calls such features invalid and   *)
(* clips them.  Nothing else makes a gap or the span negative: no wrap, no *)
(* reading of a slot that was not filled.                                  *)
(***************************************************************************)
OrderedUnlessOvertaken ==
    ~overtaken /\ win_count >= 2 => \A i \in 1..win_count - 1 : Gap(i) >= 0

================================================================================
