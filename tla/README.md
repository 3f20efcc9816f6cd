# Verification of the PQC gateway

TLA+ specifications of the AI-optimised post-quantum SCTP gateway, the TLC
configurations that check them, and TLAPS proofs about them. Paths below are relative
to `src/`; "the gateway" is the process of `gateway/main.c`, "the receiver" that of
`gateway/sctp_receiver.c`.

## 1. The system

A TCP client sends messages to the gateway. For each client the gateway starts a thread
that opens one multi-homed SCTP association to the receiver, runs a hybrid key exchange
(X25519 and ML-KEM, signed with ML-DSA when keys are installed), and relays the client's
messages as encrypted frames until either side closes. Next to these threads a path
monitor polls the association's paths every two seconds, asks two classifiers in a
Python process, and moves the association between the two paths. Crypto strength follows
the data classification only; the transport follows path health and the classifiers only.

| Component | Code | State it keeps | Operations | Talks to |
|---|---|---|---|---|
| Sessions | `gateway/sctp_gateway.c` | per thread: descriptor, buffers, place; shared: `global_session_id` | `start_gateway`, `handle_client`, `maybe_reset_path_preference`, `read_data_class` | monitor (calls), receiver (SCTP), classifiers, files in `/tmp` |
| Path monitor | `gateway/path_monitor.c` | `active_fd`, `on_secondary` under `state_lock`; locals of the loop | `register`, `unregister`, `preferred_*`, `reset_preference`, the loop | kernel, classifiers |
| Transport policy | `gateway/transport_policy.c` | none | `decide_transport`, `netstate_to_policy`, `net_policy_enforced` | called by the monitor |
| SCTP sockets | `gateway/multihoming.c` | in the kernel | connect, bind, path query, switch of the primary | kernel |
| Handshake | `gateway/pqc_handshake.c` | locals of each half | initiator, responder, signature blocks | the peer over SCTP |
| Authentication | `gateway/pqc_auth.c` | loaded keys, `enabled` | init, sign, verify | key files |
| Crypto policy | `gateway/crypto_policy.c` | none | `select_kem`, `data_class_from_str` | called by a session |
| Relay | `gateway/crypto_layer.c`, `gateway/frame.h` | none | seal, open, frame write and read | SCTP stream |
| Receiver | `gateway/sctp_receiver.c` | one connection at a time | accept, handshake, frame loop | SCTP |
| Metrics | `gateway/metrics.c` | loss window, packet window, last values, each under a lock | record, read | sessions and monitor |
| Reporter | `gateway/metrics_reporter.c` | none | one POST per session | dashboards |
| AI bridge, classifiers | `gateway/ai_bridge.c`, `ai_module/model_server.py` | a model | one request, one label | Unix sockets |
| Receiver of reports | `ai_module/dashboard/receiver.py` | a table in `metrics.db` | one request after the other: insert, commit | HTTP on 8080, SQLite |
| LLM advisor | `ai_module/llm/llm_advisor.py` | `DB_PATH`, chosen at start; `last_analyzed_id` | poll, explain, store | SQLite, a language model |
| Java server | `java_dashboard/spring-server` | a list of the latest sessions, in memory | `addSession` and `getStatus` in concurrent threads | HTTP |
| User interfaces | `ai_module/dashboard/pages`, `java_dashboard/dashboard-ui` | none | display; one page asks a classifier | HTTP, SQLite, Unix sockets |

What is hard here:

* **Threads share four things**: the registration `active_fd`, the flag `on_secondary`,
  the reset file, and the process's descriptor table, where a closed number is handed out
  again. Every call of the monitor's interface takes the lock, but callers combine calls.
* **The monitor acts on what it read earlier**: a descriptor, a path state, a verdict and
  the flag are read at different moments of an iteration that contains two classifier
  exchanges without a timeout.
* **Several steps must be undone** on each exit of `handle_client`.
* **The handshake is positional**: lengths follow from a level byte, there are no
  timeouts, the two sides may have different key material, and one side reports success
  before the other.
* **The relay is a byte stream** with frames cut at any byte by a failure.
* **The receiver is sequential** while the gateway is not, and a write to a peer that is
  gone may end it with SIGPIPE.
* **The classifiers are sequential** too, their clients in the gateway have no timeout, and
  one other client, the simulation page, has one.
* **Reports are sent and forgotten** to a server that may be busy or absent; behind it a
  table is read by a second process in two queries, or a list is trimmed by many threads
  without a lock.

What makes each component correct: sessions give back what they take and never work on
another session's descriptor; the monitor watches an open association, moves it only for
the reasons the policy names, and does so when an outage lasts; the handshake ends at both
ends, and those who finish agree; the relay delivers a prefix of what was sent; a window
describes the last entries, in order.

## 2. Modules

| Module | Models | Uses |
|---|---|---|
| `TransportPolicy` | the two decision functions as operators | |
| `SctpSockets` | the kernel's part: descriptor table, addresses an association spans, its primary address, reported state of the primary path | |
| `PathMonitor` | `path_monitor.c`: shared state, interface, the loop as ten actions | `SctpSockets`, `TransportPolicy` |
| `Gateway` | `sctp_gateway.c`: session threads, clients, operator, network; the composition with the monitor; the properties | `PathMonitor` |
| `MCGateway` | symmetry for TLC | `Gateway` |
| `GatewayProofs` | theorems about `Gateway` | `Gateway`, `TLAPS` |
| `CryptoPolicy` | classification, level, algorithm, as operators | |
| `Handshake` | both halves of the key exchange, the wire, and the faults | `CryptoPolicy` |
| `HandshakeProofs` | theorems about `Handshake` | `Handshake`, `TLAPS` |
| `Delivery` | abstract: what the relay promises each flow | |
| `Relay` | the sending loop, frames, records, and the sequential receiver; implements `Delivery` | `Delivery` (refinement) |
| `MCRelay` | symmetry for TLC | `Relay` |
| `RelayProofs` | theorems about `Relay`: its invariants, and that it implements `Delivery` | `Relay`, `TLAPS` |
| `SlidingWindow` | abstract: the last entries recorded, in order | |
| `Metrics` | `metrics.c`: both ring buffers, the sums behind the features, the sessions that fill them; implements `SlidingWindow` twice | `SlidingWindow` (refinement) |
| `MCMetrics` | symmetry for TLC | `Metrics` |
| `MetricsProofs` | theorems about `Metrics`: rings of any size, both refinements, the features | `Metrics`, `TLAPS` |
| `Classifiers` | `ai_bridge.c` against the accept loops of `model_server.py`, with the dashboard as a third kind of client | |
| `ClassifiersProofs` | theorems about `Classifiers` | `Classifiers`, `TLAPS` |
| `LLMAdvisor` | the table of `receiver.py`, the advisor's choice of a file, and its loop | |
| `MetricsStore` | the Java server's deque, its writers and the status request | |
| `Reporting` | numbering, `http_post`, the server on port 8080 and its failures; the composition | `LLMAdvisor`, `MetricsStore` |
| `MetricsStoreProofs` | what the steps of `MetricsStore` preserve, for any set of reports | `MetricsStore`, `TLAPS` |
| `ReportingProofs` | theorems about `Reporting`, the advisor's and the store's among them | `Reporting`, `MetricsStoreProofs` |

### How state and actions correspond to the code

**PathMonitor.** `activeFd` and `onSecondary` are the two variables behind `state_lock`.
`mon` is the monitor thread: `pc` and the locals `fd`, `primary_ps.state` (or that the
query failed), `s_ok`, the verdict, `net_policy`, `currently_secondary`, `action`. One
action stands for one lock region, one system call, or one exchange with the classifiers:
`SafeFd`, `QueryPrimary`, `QuerySecondary` (with the early `continue`), `AskClassifiers`,
`DecideTransport`, `SwitchPath`, `MarkPreference`, `CheckForecast`, `ForecastSwitch`,
`ForecastMark`. The five interface functions are operators the sessions' actions use. A
feature vector is not modelled: each classifier may return any label of the instance, and
`""` stands for every failure of `ai_bridge.c`.

**Gateway.** `at[s]` is the place of session `s` in `handle_client`, `sfd[s]` its
`sctp_fd`, `first[s]` and `second[s]` the two address arguments while the call is being
built, `tcp[s]` whether the client's descriptor is open. C does not order the evaluation
of arguments, so `ReadFirst` and `ReadSecond` may come in either order. `fires` and
`writes` count resets and writes of the reset file; they are history, and the code's
control does not depend on them. The key exchange is one step here (`Handshake`,
`HandshakeFails`), detailed in the module of that name.

**SctpSockets** is external, modelled from how `multihoming.c` uses it. `paths[f]` is the
set of addresses the association of descriptor `f` spans: both, or only the first (the
receiver continues single-homed when its second bind fails), or none when there is no
association. A query or a switch on an address outside that set fails and changes nothing.
`primaryState` is the report for the configured primary path; it belongs to the network
and may change at any time.

**Handshake.** `transcript[p]` holds the fields a party has sent and read, in order: level,
X25519 key, ML-KEM key, X25519 key, ciphertext. Its first three are `T_i`, all five `T_r`.
`wire[p]` is what is in flight to `p`. A party writes one flight per action, since nobody
can observe the gap between two writes except through a failure, and `CallFails` may leave
any prefix of a flight on the wire. Reads take one field each. A party whose level implies
another field length than the writer's reads out of step: it gets garbage, and then either
a signature block of garbage or nothing more. `auth[p]` is what `pqc_auth_init` found:
nothing (`disabled`), the peer's key (`pinned`), or another key (`mispinned`). The caller's
close after a failure is `CloseAfterFailure`; the code has no timeout, so this is what ends
the other side's read. OQS and OpenSSL are taken at their word: keys, ciphertexts and
signatures are terms. Wire faults are bounded (`MaxAlterations`), calls and the
association may fail at any time.

**Delivery** has one counter of relayed messages and one sequence of received ones for
each flow. Receiving appends a message that was relayed and is later than the last one;
it is the very next one unless the flow was spoiled.

**Relay** maps `msg_count` of `handle_client` to the number relayed; `received[s]` holds
the messages the receiver has printed. `gw[s]` is the thread's place from the connection
on, `rx` the receiver's place in its `main` and the session of its `client_fd`, `backlog`
the associations it has not accepted. `stream[s]` holds what is written and unread, in
pieces: the header and the payload of a frame, the two `write` loops of `frame_write`.
Part of a piece can be left by a failed call or an aborted association; it is dropped in
the model, because `frame_read` consumes it and then returns -1 in either case. A piece
is intact, or altered: a length above the receiver's buffer ends the flow, another wrong
length sends the reader `adrift` among the frames, an altered record does not open. A
write to an association whose other end is gone may fail or may be buffered and lost. The
handshake is one step per side here; `sameKey` is false if it was altered unnoticed, and
no record opens then. `spoiled` also covers a record that fails to open for want of
memory. The receiver's end of an association is `closed` at the end of its stream and
`failed` when the receiver gave up.

A reply of the receiver's half to a gateway that has closed may end the receiver
(`ReceiverDies`): the association's error is reported first or the signal comes first, so
this is one outcome beside the failed write. The associations in its backlog end with it,
and later connects fail until somebody starts it.

**Metrics.** `loss_*` and `win_*` are the static variables of `metrics.c`; a slot holds a
result or a time stamp. `t[s]` is the local `t` of `record_packet`, read before the mutex
is taken, so `Receive` (which contains the call of `now_us`) and `record_packet` (the lock
region) are two actions. The readers are operators (`LossEntry`, `PacketEntry`, `Start`,
`LastStamp`, `SumIat`...), each evaluated in one state because the code holds the lock for
the whole loop. The refinement mapping of `SlidingWindow` is what the readers' loops
visit, entry by entry: an off-by-one in an index is a wrong abstract window.

**Classifiers.** `at[c]` is the call of `query_sock` a client is in, `inbox[c]` what its end
of the connection holds, `server[k]` the place of a service in `_serve` and its `conn`,
`queue[k]` its backlog. A client that has left is replaced by `Gone` wherever the service
still holds its connection. The dashboard's timeout may strike in any call. `SocketFails` is the
`socket()` of `query_sock` that fails, after which nothing is connected. `troubled` is history:
the clients whose present query met a failure or found the service away; `Ask` starts a query
without it. A service that
raises in its handler closes without an answer; the process may end in any state and be
started again with both services or, without a trained model, with one.

**Reporting.** `ReadCounter` and `WriteCounter` are the two halves of
`global_session_id++`. `Connect`, `ConnectFails` and `SendAndClose` are `http_post`; what
a session does between its number and its report is in the other modules. `port` says
which server has port 8080, as configured at start; the repository's
`application.properties` gives the Java server port 8000, `README.md:214` says 8080, and
the gateway posts to 8080 only, so `port = "spring"` is the documented installation. Of
`receiver.py` one request is served at a time; its response goes to a closed connection
and has no effect. `StackStops` is `run_demo.sh stop`, or `reset` with `Wipe`.

**LLMAdvisor.** The receiver writes `metrics.db` of the directory it is started in (the
constant `Home`); the advisor chooses a file once, when its module is loaded: the
dashboard's if there is one by then (`dashboardFile`), else the root's. `reads` is that
choice, made by `AdvisorStarts` and forgotten by `AdvisorEnds`. The table of the model is the
receiver's; what an advisor finds in another file is left out, so it polls nothing there.
`CreatesFile` is a poll of a file that was removed: it makes an empty one, which the next
advisor will find. `metrics` is the table, the index its rowid. `Query` and `QueryMax` are the
two statements of `get_new_metrics`; the receiver may commit between them. While they run
the connection keeps the file that was opened, so a removal of the file at that moment is
the same as one after the second query, and `Wipe` waits. `polls`, `between`, `wiped`,
`explained` and `dropped` are history: no action is guarded by them, except that `Store`
uses `dropped` to tell a narrative from an error text.

**MetricsStore.** `addSession` is `AddFirst`, then `size()` from `BeginSize` to `EndSize`,
then `RemoveLast`. The deque is external: a walk of `size()` counts the elements that were
there when it began, less those removed before it got to them, and may start over when the
node it stands on is removed. `getStatus` reads the recent sessions, then `isEmpty`, then
`peekFirst`.

## 3. Runs

| Run | Instance | Shows |
|---|---|---|
| `gateway_safety` | 2 sessions, 2 descriptors, enforced forecasts, one reset write | type invariant, `RegisteredFdIsOpen`, `DescriptorsAccounted`, `AssociationMovesForCause` (associations and the preferred path) |
| `gateway_liveness` | 2 sessions, 2 descriptors, an outage without a name, LOW and HIGH, fair threads | `OutageMovesAssociation`, `RecoveryRestoresPrimary`, `LostAssociationEndsFlow` |
| `handshake` | every mix of key material and every source of the classification, failures, two altered fields, fair processes | type invariant, `AuthenticatedAgreement`, `KeyAgreement`, `SameKeySameLevel`, `HandshakeEnds`, `HonestHandshakeSucceeds` |
| `relay_safety` | 2 flows of up to 2 messages; every piece may be altered, every call and association may fail | type invariant, `OneConnection`, `DeliversInOrder` (the refinement of `Delivery`) |
| `relay_liveness` | 2 flows of 1 message, fair threads and receiver | `NobodyWaits`, `RelayedArrives` |
| `metrics_windows` | 3 sessions of up to 2 messages, windows of 3 slots, a clock of 3 values | type invariant, `FeaturesAgree`, `OrderedUnlessOvertaken`, `LossWindowKeepsLast` and `PacketWindowKeepsLast` (the refinements of `SlidingWindow`) |
| `classifier_queries` | 2 sessions, the monitor and one query of the dashboard; a backlog of 1 | type invariant, `OneConnectionEach`, `EmptyOnlyAfterFailure`, `QueriesReturn` |
| `reporting` | 3 sessions, either server, 2 failures, a dashboard file that is there before or not; a window of 2 rows, a store of 2 sessions with 2 threads | type invariant, `ReportsKept`, `StoreKeepsNewest`, `StatusIsConsistent`, `ExplainedOnce`, `SkippedForCause`, `RowsExplained` |
| `gateway_addresses` | violation | `AddressesAreOpposite` (`path_monitor.h:38`) |
| `gateway_monitored` | violation | `FlowIsMonitored` (`sctp_gateway.c:162`) |
| `gateway_reset` | violation | `ResetFiresOncePerWrite` (`sctp_gateway.c:57-58`) |
| `gateway_flag` | violation | `FlagDescribesAssociation` (`transport_policy.h:32`) |

**What holds.** Whatever overlaps, the monitor is only ever given a descriptor that is
open and belongs to a session between register and unregister, every exit of
`handle_client` closes what it opened, and no association is moved, and no preference
changed, by a flood or by an advisory forecast. Failover and recovery depend on what the
monitor prefers, also with several sessions: when it prefers the primary as it looks at an
association that spans both paths and stays registered, and the outage lasts from then on,
the association moves for good; when it prefers the secondary, and the primary stays healthy
with nothing that speaks against it, the association it watches is taken back. Both
conditions are needed (see 4 below). No session keeps a lost association, unless it waits
for its client. In the handshake,
a side that requires a signature and finishes has the transcript of the peer it pinned;
both sides have one key whenever the initiator verified or nothing was altered; and
two sides never share a key at different levels or below the floor, though the level byte is not an
input of the key derivation, because the lengths would not match. The relay shows the
messages it counted in order and at most once, and skips none unless something was
altered; closing right after the last write loses nothing; and a session waits for the
sequential receiver only as long as the flows before it last, also when the receiver is
ended by a signal. The rings of `metrics.c` are sliding windows before and after they wrap,
and the six features are about the same packets; the only negative gaps are those of a
thread overtaken between its time stamp and the lock. Every query of a gateway thread
returns although neither side of the socket has a timeout there, and a response is empty
only if that query met a failure or found the service away. A report that was committed stays, once,
even when sessions share a number. The Java store trims the oldest, keeps at least
`MAX_SESSIONS + 1` less the number of its threads, and so never answers a status request
with a null session as long as it has at most `MAX_SESSIONS` threads (both are 200 by
default). The advisor never explains a row twice in one run, and, if it has the
receiver's file, leaves one out only for the causes below.

**What does not.** Four statements of the repository's comments are violated by
interleavings or by failures, each run giving the trace:

1. Two address arguments may be equal: a failover between two lock regions.
2. A flow may lose its monitor: another flow's `unregister` clears the one registration.
3. One write of the reset file may reset twice: the test and the removal are separate.
4. The flag the monitor decides with may contradict the association's primary address: it
   is set whatever the switch returned, and it outlives associations. The lasting form of it:
   a session reads its two addresses before the monitor sets the flag for another session's
   association, connects, and registers after. From then on `decide_transport` takes the new
   association for one on the secondary, and however long the primary is down it stays there,
   though `transport_policy.h:10` says "fail over (unconditional)". In the same way an
   association that was made with the secondary first, and registered after the flag was
   cleared for another one, is never restored.

The first costs less than it looks: the set-up can only try one address, but which paths the
association spans is announced by the receiver, so it may fail over later.

**Where the documents differ.** `README.md:170-173` of the repository says that HIGH, on the
primary with the secondary available, is an "autonomous changeover to secondary"; the code,
`transport_policy.h` and `tests/test_policy.c` rate-limit instead, and
`AssociationMovesForCause` excludes the changeover. `README.md:42` and `README.md:95-101` say
that the classifier's verdict selects the ML-KEM level, and LOW selects 512; in the code,
`crypto_policy.h` and the tests the level follows the classification and is 768 or 1024, and
`SameKeySameLevel` asserts that floor. The README describes an earlier version.

**What the properties excuse.** The descriptor the monitor has read stays in its local while
the session may close it and the next one gets the number: the rest of the iteration is then
about another session's association, for the causes `AssociationMovesForCause` allows; nothing
here forbids it. `RowsExplained` is about an advisor that has the receiver's file. It need not:
`RUN_GUIDE.md:49-61` starts the receiver in `ai_module`, whose `metrics.db` is neither of the two
files the advisor chooses from, and where the receiver does write the dashboard's, an advisor
that starts before there is one settles on the root's for good. It then explains none of the
receiver's rows, although nothing failed.

Its exceptions and those of `SkippedForCause` also say what the advisor leaves out. The code's
comment (`llm_advisor.py:28`) says "Get metrics that haven't been analyzed yet"; rows
are never analyzed when they are committed between its two queries, when a burst exceeds
the window, when the file is reset under a running advisor, or when the language model or
the INSERT fails once. And `size()` may count too few under concurrent removals, so that
the Java store can settle above `MAX_SESSIONS`; no property bounds it from above.

**Bounds.** Two sessions are the fewest that overlap, and every hazard above is between
two threads or between one thread and the monitor; with two descriptors a closed number is
taken again by the other session while the monitor still holds it. A third session adds no
variable that two do not already contend for, and the theorems below hold for any number.
Sessions do not restart: a thread serves one client and ends, and descriptor reuse needs
only a second session. `MaxWrites = 1` is enough for the double consumption; zero removes
the operator where the run is not about it. The labels are cut to one
of each effect: `LOW` restores, `HIGH` throttles, and the others do neither; `STABLE` moves
nothing, `UNSTABLE` does where forecasts are enforced (`gateway_safety`). Of the path states
`gateway_safety` has `INACTIVE`, and the liveness run the other one that means an outage, the
state without a name. That run has two sessions, since the flag of one session's association
is what the other's depends on; resets and enforced forecasts are left out of it to keep the
graph small enough for a liveness check, so there the conditions of `RecoveryRestoresPrimary`
about them are not exercised. Two altered fields allow one in each direction, or two in one flight.
Two messages show order, duplication and a gap after an altered first one; with two flows
one of them waits. One message each is enough for the liveness of the relay, whose
antecedents exclude what a second message would add.
Symmetry (sessions and descriptors are interchangeable) is used only in runs without
liveness properties.

In `metrics_windows` the three sessions record up to six packets and more than three
results, so both rings wrap, and are read half full; three clock values tell an overtaken
stamp from an equal one. In `classifier_queries` a backlog of one is full while one
session is served and another waits, and the monitor then waits in `connect`; one click of
the dashboard gives a connection that is left while queued, or while served. In
`reporting` three rows exceed the window of two, three sessions exceed the store of two,
and two threads can both find one too many; two faults combine, for example, a failed
second query with a restart, or a reset with a failed INSERT. The receiver writes the
dashboard's file there; a file of an earlier day decides whether an advisor that is started
before the receiver has it too. Starting the advisor is no fault and not bounded, ending it
is.

`CHECK_DEADLOCK FALSE` appears in the handshake run: a handshake ends, and after an
alteration of the level both sides may really wait for each other for ever. It also
appears in the relay, metrics and reporting runs, where every session may be done. The
classifier run has no end (the monitor always asks again) and checks for deadlock.

**Fairness.** The gateway's threads are POSIX threads that the kernel schedules:
weak fairness of the monitor's step and of each session's. That includes that a classifier
answers or its socket closes (`ai_bridge.c:43`, no timeout): `QueriesReturn` shows that it
does, from the scheduling of the service and of its clients. Nothing is
assumed of clients, operator or network: those actions have no fairness, and the properties
say which network behaviour they are about. In the handshake, weak fairness of each
process; failures and alterations have none. In the relay, weak fairness of each session
thread and of the receiver; a client may stay silent for ever, which is why the relay's
liveness properties assume that clients go on. They also assume that nothing is altered:
an altered handshake may leave both sides waiting (`HandshakeEnds`).

In `classifier_queries`, weak fairness of each client's calls and of each running service,
and strong fairness of a gateway thread's `connect`: the kernel keeps those who wait for a
place in the backlog in a queue and wakes them in their order. The dashboard must be
scheduled as well: a page that is stopped between `connect` and `send` holds the sequential
service, and with it the monitor. That a handler returns is assumed of the models. In
`reporting`, weak fairness of the advisor's loop only: nobody has to start it, and its liveness
property is about runs in which it is there from some moment on. A failing `socket()` has no
fairness either.

## 4. Proofs

Every safety property that a passing run checks is also a theorem, for every value of the
constants that the named assumptions allow. Each invariant is proved from an inductive one
(`IInv` of its module): `Init => IInv`, `IInv /\ [Next]_vars => IInv'`, and `IInv` implies
the property; `Invariance` is the theorem `Spec => []IInv`. TLC found each `IInv` to
hold on the instances of section 3 (the handshake's with the memberships in `Terms` and
`InFlight` written out per kind of field, since TLC does not compare numbers with records).
The bounds (`MaxMessages`, `MaxFaults`...)
are constants too, so nothing rests on a particular bound.

**GatewayProofs**, for any sets of sessions and descriptors and any labels and path states
within the policy's alphabets (the assumptions named in `SctpSockets`, `PathMonitor` and
`Gateway`):

* `TypeCorrect`, `RegisteredIsOpen`, `NothingLeaks`. The inductive invariant is the
  conjunction of the three. `RegisteredFdIsOpen` is not inductive alone: when a session
  closes its descriptor one has to know that the registered one is another's, which follows
  from `DescriptorsAccounted` (an owner holds its descriptor from `register` to `close`,
  and past `unregister` it is not the registered one). `DescriptorsAccounted` in turn
  needs the types, so the three are proved together, one case per action.
* `OnlyCauseMoves` (`Spec => AssociationMovesForCause`), for the associations and for the
  flag. It needs that the monitor's locals
  still justify the action it is about to take although every shared variable may have
  changed since: `MonitorRemembers`, proved inductive, together with the lemma on
  `decide_transport`.

**HandshakeProofs**, for every mix of key material and any bound on alterations:
`TypeCorrect`, `Authenticated`, `KeysAgree`, `KeysAtOneLevel`. Beside the types and places
(`HalvesOK`), the invariant says what a party put into its transcript itself (`OwnFields`),
that a signature on the wire is one its peer has made, over what the peer had at that
moment (`WireOK`), that who verified a signature has what was signed (`VerifiedAgree`), and
that what was read is what was written while nothing was altered (`HonestSoFar`).
Agreement then follows for `T_i` from the responder's check and for `T_r` from the
initiator's; `KeysAtOneLevel` uses that no field of one level has the length of another.

**RelayProofs**, for any number of flows and messages: `TypeCorrect`,
`OneConnectionAtATime`, and `RelayImplementsDelivery` (`Spec => DeliversInOrder`, every
step a step of `Delivery` or a stutter). The invariant adds what the backlog holds
(`BacklogOK`), that nothing is there of a session that did not connect (`NothingYet`), that
the payloads in a stream come in the order they were counted in, later than the last one
received (`PayloadsInOrder`), and, for flows that were not spoiled, that the pieces read
and the pieces in the stream are all that was written (`NothingMissing`): it is what makes
the next payload the very next message, wherever between header and payload the two sides
are.

**MetricsProofs**, for windows of any size: `TypeCorrect`; `GapsNotNegative`, from the
invariant that, while no thread was overtaken, the stamps in the window are in order and
none is later than a stamp still to be recorded; `LossWindowImplemented` and
`PacketWindowImplemented`, the two refinements of `SlidingWindow`, from one lemma about a
ring of n slots (`RingRecords`: writing at the head is appending and keeping the last n),
in which the wrap and the window that is not full are the cases; and
`FeaturesBelongTogether`. The last is about sums over the window: `SumIat` and its like are
recursive functions, so the lemmas are proved by induction on the round, with the library's
theorem on well-founded sets. The variance is not negative because it is a sum of squares
of `a * gap - b`.

**ClassifiersProofs**, for any number of sessions, clicks and places in the backlog:
`TypeCorrect`, `OneConnection`, `LabelUnlessFailure`. The invariant says that the
connections of a service are those of clients that wait for it, each at one place only
(`Connected`), that a client that does not wait has nothing in its inbox (`NothingLeft`),
and that, unless its present query is troubled, a thread of the gateway does not find the end
of its connection before an answer, and no service is about to close on it without one
(`Untroubled`).

**MetricsStoreProofs** and **ReportingProofs**, for any number of sessions, faults and
request threads and any size of the window and the store (sessions and request threads
finite in number):

* `TypeCorrect`. That `global_session_id` stays in range needs counting: it is at most one
  more than the sessions that wrote it, however many updates are lost (`NumbersCounted`).
* `ReportsStay`, from: a connection is queued or served, once (`QueueOK`); a report that
  was recorded anywhere has no connection left (`RecordedOnce`), so that none is recorded
  twice; and the table holds each committed report once (`TableOK`).
* `ExplainedAtMostOnce`, because the rows that were polled are behind the cursor
  (`PolledPassed`), and `SkipsHaveCauses`, which needs in addition what a poll holds
  between its two queries (`BatchPolled`: the newest rows of the table as it was, and what
  was inserted since), and that a full poll has `WindowSize` different rows.
* `StoreHoldsNewest`. `FloorKept` is not inductive: what a thread counted is out of date
  when it removes. The invariant `StoreOK` weighs the sessions together with the threads
  that are free (`Surplus`): adding a session takes a thread, removing one frees it, so
  neither changes the surplus, and a thread counts at most the surplus.
* `AnswersAgree`: `StatusIsConsistent`, and that `removeLast` finds a session, if there are
  at most `MaxSessions` request threads. The code does not say so; Tomcat's default and
  `MAX_SESSIONS` are both 200. With more threads the store could be emptied.

**Only model-checked**: the liveness properties (`OutageMovesAssociation`,
`RecoveryRestoresPrimary`, `LostAssociationEndsFlow`, `HandshakeEnds`,
`HonestHandshakeSucceeds`, `NobodyWaits`, `RelayedArrives`, `QueriesReturn`,
`RowsExplained`), since the installed provers reach neither fairness nor ENABLED. The four
violated statements have traces and no theorem.

## 5. Not modelled

* In `metrics.c`: packet sizes, the last throughput (one number that each session
  overwrites), the bandwidth average (written, never read), and `measure_iat_ms`,
  `get_last_latency_ms` and `get_bandwidth_util_pct`, which nothing calls. The feature
  vectors are numbers that only the classifiers look at.
* `report_path_event`, which nothing calls, and with it the path events of both servers:
  the same code over a second table and a second deque.
* A failing `pthread_create`, `path_monitor_start` or `malloc` in the accept loop, and
  `path_monitor_stop`, which nothing calls.
* The numeric pipelines and the models, the capture of training rows, and the pages of the
  dashboards, which read and draw, except for the two files they write for the gateway.
* The averages of `getStatus` and the calls of `getRecentSessions` by the JavaFX page.
* Wording, logging, timing values.

## 6. Plan

Written in this order; what exists is marked.

1. `TransportPolicy`, `SctpSockets`, `PathMonitor`, `Gateway`, `MCGateway` (done) and
   `GatewayProofs` (done).
2. `CryptoPolicy`, `Handshake` (done).
3. `Delivery`, `Relay`, `MCRelay` (done).
4. `SlidingWindow`, `Metrics`, `MCMetrics` (done).
5. `Classifiers` (done).
6. `LLMAdvisor`, `MetricsStore`, `Reporting` (done).
7. `HandshakeProofs` (done).
8. `RelayProofs` (done).
9. `MetricsProofs`, `ClassifiersProofs`, `MetricsStoreProofs`, `ReportingProofs` (done).
10. `Classification`: the two-step writer of the classification file against the reader. Not
    written; the empty file is an input of `Handshake`.
11. A table that only grows until it is removed, and a window of sessions, as abstract
    specifications that `Reporting` implements; the proof rests on `TableOK` and `NewestFirst`.
