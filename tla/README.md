# LSD, a client of the Cocaine cloud: TLA+ models and proofs

LSD is a C++ library. A program gives it messages addressed to a *service* and a *handle* of that
service; the library finds out over HTTP and ZeroMQ which hosts run the service's workers, sends them the
messages, keeps what cannot be sent, sends again what a worker refuses, and calls the program back with
the responses. The modules here model the path of a message from `send_message` to the final response,
with all the threads that work on it, and the parts around that path: the collector of hosts, the calls
of the client, statistics, the data of messages, time, and the configuration with the JSON reader.

Contents: 1 inventory, 2 modules and their correspondence to the code, 3 runs, 4 disagreements between
code and comments, 5 proofs, 6 what is only model-checked, 7 what is not modelled, 8 what is left to do.

## 1. Inventory

| Part | State it keeps | Operations | Who calls it | Module |
|---|---|---|---|---|
| **Client** (`client.cpp`, `client_impl.cpp`) | map of services, mutex, size of the cache | `connect`, `disconnect`, `send_message`, `set_response_callback`, destructor, the collector's callback | the program; a callback; the ping thread | `Client` |
| **Service** (`service.hpp`) | `hosts_`, `handles_`, `unhandled_messages_`, `received_responces_`, callbacks, `cache_size_`, one mutex, one thread | `send_message`, `register_responder_callback`, `refresh_hosts_and_handles`, `enqueue_responce_callback`, thread `dispatch_responces`, destructor | client; ping thread; the handles' threads | `Service` (and `Client`: `cache_size_`, callbacks that call in, destructor) |
| **Handle** (`handle.hpp`) | `hosts_`, `new_hosts_`, message cache, control socket (PAIR), thread with a DEALER socket, `is_connected_` | `connect`, `connect_new_hosts`, `reconnect`, `disconnect`, `kill`, `enqueue_message`, thread `dispatch_messages` | service | `Handle` (and `Statistics`: its counters) |
| **Message cache** (`message_cache.cpp`) | deque `new_messages_`, index `sent_messages_`, mutex | enqueue, append, get, move to sent, move back, remove, make all new | handle's thread; service | `MessageCache` |
| **Heartbeats collector** (`http_heartbeats_collector.cpp`) | hosts and handles per service, mutex | `run`, `stop`, `set_callback`, `hosts_callback`, `services_ping_callback` | client; fetchers' threads; ping thread | `Collector` |
| **Refresher, hosts fetcher** (`refresher.cpp`, `curl_hosts_fetcher.cpp`) | period, flag, condition variable, thread | constructor, destructor, periodic call | collector | `Refresher`, `Collector` |
| **Statistics** (`statistics_collector.cpp`, counters in `handle.hpp`) | statistics of services and handles, a REP socket and its thread | `update_*`, `get_*`, requests in JSON | service, handle; a remote watcher | `Statistics` |
| **Cached message, cached response** | identity, path, policy, error, data | construct, copy, assign, destroy | all of the above | `Messages` |
| **Message data** (`data_container.cpp`) | buffer, shared counter | construct, copy, assign, clear, destroy | messages, responses | `DataContainer` |
| **Time values, timer** (`time_value.cpp`, `progress_timer.cpp`) | seconds and microseconds | conversion, arithmetic, elapsed | collector | `TimeValue` |
| **Configuration** (`configuration.cpp`), context | the settings, the services | `load`, `as_json`, `as_string` | client; statistics | `Configuration`, `ConfigurationJson` |
| **JSON library** (`foreign/jsoncpp-0.5.0`) | document, stack of values, errors | `Reader::parse`, `Value`, `FastWriter` | configuration, collector, handle, statistics | `Json`, `JsonReader`, `JsonWriter` |
| **Logger**, **structures**, **test client** | none that others read | output | all | - |

The parts interact by direct calls under `service::mutex_` (program, ping thread), by control messages on
an in-process PAIR of sockets (service to handle's thread), by calls back (handle's thread to service,
service to program, pinger to client), and by memory that two threads touch (`new_messages_` of a removed
handle, `hosts_`, `new_hosts_`, `is_connected_`, the counters of a handle). The locks are the client's, one
per service, one per cache, the collector's, and the one of the statistics; a program's callback runs
under its service's, the collector's callback under the collector's.

What is hard, and where it is in the code, is the list `hazards` of `PROJECT.json`. In short: the
removal of a handle while its thread works on; topology changes that travel by a socket while their
data travel by shared memory; joins under a mutex; refused and resent messages; answers lost with a
socket; a refresh that computes what to create before it removes; a notification sent between a test and
a wait; callbacks that call in again; counters overwritten by older copies; a clock that is set while
somebody measures; conversions to narrower numbers; a parser that goes on after errors.

What makes each part correct:

* cache: a message is in one place; the order of unsent messages; no message moved that was not sent;
* handle: it sends what it moves, follows the hosts, stops when told;
* service: no second queue beside a handle, no unsent message lost or overtaken over any number of
  removals and creations, one final response at most, handles converge to the last report;
* collector, refresher: a report is what the service assumes; reports catch up; stopping ends;
* client: the cache stays within its capacity; calls return; while it is destroyed, no call, response thread or thread of
  the collector uses what is gone (those of the handles do: 4.17);
* statistics: requests are answered, nothing is counted more often than it happened;
* data and messages: copies share a buffer unseen, freed once; a message stays what it was made of;
* time: a wait ends, neither too early nor too late; configuration and JSON: what was written is read,
  nothing is silently dropped, every text comes to an end.

## 2. Modules

| Module | Models | State |
|---|---|---|
| `MessageCache` | one cache per handle name | `new_messages`, `sent_messages` |
| `Handle` | the object's operations, its thread's steps, the external workers | `thread` (program counter), `control` (the PAIR), `hosts`, `new_hosts`, `peers` (what the DEALER is connected to), `inbox`, `wire` ... |
| `Service` | the service, composed with the two above | `handles`, `unhandled_messages`, `shared_queue`, `responses`, `ping` (program counter of the refresh) ... |
| `Promise` | **abstract**: what a service promises of each message | `accepted`, `queue`, `sent`, `transmitted` |
| `Refresher` | a thread that calls a function once a period | `thread`, `stopping`, `notified` |
| `Collector` | fetchers, pinger, and the user who runs and stops them; EXTENDS `Refresher` | `mutex`, `user`, `fetch`, `ping`, `fetched`, `reported` ... |
| `Client` | the client's calls and locks over its collector; EXTENDS `Collector` | `client_mutex`, `call`, `service_mutex`, `messages_cache_size`, `cache_size` ... |
| `Statistics` | counters of a handle, copies of them, the server of requests | `statistics`, `posted`, `tmp_stats`, `server`, `request` ... |
| `SharedData` | **abstract**: containers that hold a value each | `held` |
| `DataContainer` | containers that share counted buffers | `data`, `counter`, `count`, `heap`, `content` |
| `Messages` | messages and responses over their containers; EXTENDS `DataContainer` | `object`, `uuids` |
| `TimeValue` | time values, the timer, the wait for a host's answer | `clock`, `begin`, `elapsed`, `outcome` ... |
| `Json` | JSON values, paths into them, their conversions | none |
| `JsonWriter` | what the writer writes of a value; EXTENDS `Json` | none |
| `JsonReader` | the reader, a step per token; EXTENDS `Json` | `nodes` (the stack), `root`, `errors`, `lastValue` ... |
| `Configuration` | `load`; EXTENDS `JsonReader` | `file`, `status`, `config`, `services` ... |
| `ConfigurationJson` | `as_json` of what was loaded, and reading it again; EXTENDS `Configuration`, `JsonWriter` | that of `Configuration` |
| `MC...` | small instances for TLC: `MCService`, `MCCollector`, `MCClient`, `MCStatistics`, `MCMessages`, `MCTimeValue`, `MCConfiguration` | |
| `...Proofs` | proofs: `ServiceProofs`, `CustodyProofs`, `CollectorProofs`, `ClientProofs`, `StatisticsProofs`, `MessagesProofs`, `TimeValueProofs`, `ConfigurationProofs` | |

In `Service`, `Client` and `Messages` the composition is by EXTENDS: an operation that another part calls
(`Kill(h)`, `append_message_queue(h, q)`, `CopyConstruct(o, from)`) is an operator that an action of the
caller conjoins. Objects are names: a name of `Handles` that is not in `handles` has no object. The two
abstract specifications are shown to be implemented: `Service` has
`Promised == INSTANCE Promise WITH queue <- ..., sent <- sent_messages`, `DataContainer` has
`INSTANCE SharedData WITH held <- ...`, and the properties `KeepsPromise` and `IsSharedData` are their
specifications.

Definitions named as bugs ("A bug that could be made in the next one") are not used by any `Next`; each is
a plausible mistake in the definition after it, which the properties are tested against.

### How the service corresponds to the code

* **Steps.** An operation that holds a mutex throughout is one step. A thread's step ends where the code
  unlocks a mutex others take, or touches memory that another thread writes without one.
  `dispatch_next_available_message` is three steps (`CountNewMessages`, `TransmitMessage`,
  `MoveMessage`) because each takes the cache's mutex anew. A response is two or three (look-up,
  effect on the cache, call back).
* **`service::mutex_`.** The ping thread keeps it over `remove_outstanding_handles` and the notices to
  the handles, and drops it before `create_new_handles`; `Locked` says where. Every other holder is a
  single step, so no variable for the mutex is needed. The calls that wait for it have `~Locked` as guard.
* **The refresh** is `BeginRefresh` (what to drop, add, remove, create), then per outstanding handle
  `RemoveHandle`, `CollectMessages`, `KillHandle`, `JoinHandle`, then `UpdateHosts`, then per new handle
  `CreateHandle` and `ConnectHandle`. `JoinHandle` waits for the thread to be `dead`.
* **The shared deque.** `unhandled_messages_[name] = handle_msg_queue` stores a pointer. Until the thread
  is joined both names are one deque: `shared_queue` holds the handle, and `Unhandled(h)` reads through
  it. `JoinHandle` makes the entry a queue of its own, because then the cache is gone.
* **Control messages.** Numbers, as on the socket. `Disconnect` appends the character of the digit, which
  is what `boost::lexical_cast<std::string>` writes.
* **Responses** are of four kinds: a data chunk, the end (`completed`), refusal (`MESSAGE_QUEUE_IS_FULL`),
  any other error. `FinalKinds` are the ones after which the cache forgets the message.
* **Workers (external).** A message on the wire may yield chunks, a final response, a refusal, or be lost
  with its host (`Lossy`). A new socket forgets what the old one carried.
* **History variables**: `accepted` (in the user's order), `transmitted`, `answers`, `discarded`. No guard
  that models the code reads them, but that a message object is sent once.

### How the other modules correspond to the code

* **Refresher, Collector.** The thread of a refresher is at its call, at the test of the flag, between the
  test and the wait, or waiting. The step between test and wait (`Sleep`) takes no account of the flag, so
  that a notification can come too early, as in the code, whose destructor notifies without the mutex.
  The wait is timed: it ends with or without a notification. `mutex_` is a variable, since `run` and `stop`
  hold it over many steps. `JoinRefresher` waits for the thread. An answer of a host is what
  `parse_host_response` tells apart; what the hosts answer changes at any time (`WorldChanges`).
  `validate_host_handles` is translated with its inner iterator, which is not set back.
* **Client.** A caller is a thread of the program, or the response thread of a service within its callback, which may make
  any call of the client: nothing in `client.hpp` restricts it. `call` is the caller's program counter. A call begins by
  waiting for the client's mutex (`Waits`) - a callback does so with the mutex of its service - and then is refused or
  takes it (`Inside`). A send then takes the service's mutex (`RouteMessage`) and adds to the figure
  (`AccountMessage`); `connect` and `disconnect` are steps of `Collector`; `set_response_callback` takes the service's
  mutex alone (`RegisterCallback`). The service is reduced to its mutex, the sizes it keeps and the responses that
  wait: `Service` has the rest. Sizes are added modulo `Word`.
  The destructor disconnects and then, of one service after the other, joins the response thread (`StopService`,
  `EndDispatch`), destroys the map of callbacks, the mutex and the queues of responses (`DestroyMembers`, from then on the
  service is in `torn`), and ends the handles' threads (`JoinHandles`, until then it is in `working`), since the members of
  `service.hpp:122-150` are destroyed from the last to the first and `handles_` is among the first. A handle's thread that
  hands over a response in between uses what is destroyed (`AnswerTooLate`); a `connect` over a collector that
  exists frees it without its destructor (`NewCollector`). After either (`freed`) nothing is defined and the model stops.
* **Statistics.** An event increments its fields one by one (`todo`), and the counters are posted after it.
  The ping thread's overwriting (`get_statistics`, assignment, post) is three steps. The server's socket
  alternates; `process_request_json` is translated with every test it makes, the bad ones included.
* **DataContainer, Messages.** Addresses of buffers and counters are drawn from sets, so that a freed
  address can be allocated again. An assignment is one step with the temporary it makes. An object has
  the container of its own name. Objects pass between threads by `shared_ptr`, each container is used by
  one thread at a time: operations are steps.
* **TimeValue.** A `double` is its number of microseconds; a conversion back truncates, and may lose one
  more (`FromDouble` is a set). The clock can be set forth and back while the pinger waits.
* **Json, JsonReader, Configuration.** A text is a sequence of tokens; the recursion of the reader is a stack
  of frames. `ReaderSpec(Tokens)` is the reader alone, on any text of these tokens; `LoadSpec` is a load of one of
  the `Files`, and the `Spec` of `ConfigurationJson` adds `as_json` of what was loaded, read again, which the
  recursive definitions of `JsonWriter` serve. After an error the reader skips and goes on (`Recover`). `lastValue` is the pointer to the value
  a comment is given to, as the path of that value. Numbers have scaled widths: integers 16 bits, ports 13,
  sizes 30 (`PortWord` and `SizeWord` are the numbers of their values). A conversion throws or aborts as `Value` does (`JSON_ASSERT_MESSAGE` throws, `JSON_ASSERT` aborts). Settings
  are taken one by one in the code's order, services after them.

### Abstractions, and what they leave out

* Payloads are opaque, sizes only in `Client`; deadlines and timestamps are left out of `Service` because
  nothing in the code reads them (the expiry is commented out). Logging is left out.
* Reads of `hosts_`, `is_connected_` and the vector `new_hosts_` race with writes without a mutex, and so
  do the counters of a handle. The models take each as atomic and interleave them; torn reads of a
  `std::vector`, which the standard leaves undefined, are not modelled.
* Two threads also touch one `std::deque` through `shared_queue`: interleaved, not torn.
* `zmq::send` on a DEALER without peers blocks in the code. `TransmitMessage` always succeeds; the collector
  reports a handle only together with a host (`ServiceConstants`, checked of the collector as the first
  conjunct of `ReportsAreSound`), so a connected handle has a peer.
* The control PAIR neither loses nor reorders; `KILL` is delivered although the socket is closed after it.
  The address of a removed handle is free again when it is created anew.
* Exceptions of sockets that would end a thread are left out. The exception a second handle
  of one name raises in its constructor is modelled (`CreateFails`).
* A client is destroyed by a thread of the program when no other thread is in a call, and a callback that still runs then
  makes no call any more (`NoOtherCall`, `Alive`): both are asked of the program. The code does not enforce
  them; `client::get_impl` (`client.cpp:105`) keeps the object alive for a call under way, which would then destroy
  it in the thread of that call.
* A call that throws ends without an effect, as one that returns an error does. A program's callback that lets an
  exception out ends the process, and is left out.
* A report equal to the last one that finds nothing to do is left out of `Service`.
* `Service` is one service: services share no state but the client's, which `Client` has.

## 3. Runs

| Run | Instance | Shows |
|---|---|---|
| `Delivery` (`MCService`) | 2 messages, a handle that goes and comes back, 2 hosts that come, go and change, 4 reports, refusal, loss | types; `IndInv`, the invariant of the proofs; `WorkedOnOnce`: the workers have a message once; `RefreshGoesOn`: no refresh stops in the middle of its removals; `UnsentInOrder`, `SingleCustody`, `FinalIsLast`; the refinement `KeepsPromise` |
| `Topology` (`MCService`) | 2 handles, 2 hosts, 2 ports, infos sharing a name, also with a handle after them that this refresh does not create, hosts that come, go and join, 4 reports, no message; fairness | `NoStalePeer`: sockets follow the hosts; `ServesTheReport`: a handle that stays is reported, and connects; `HandlesConverge`: the handles are those of the last report |
| `Answers` (`MCService`) | 2 messages, hosts that only come, refusal, chunk; fairness | `NoMessageLost`; `AnsweredWhileHostsStay` |
| `Heartbeats` (`MCCollector`) | 1 service, 2 hosts, 15 kinds of answers, odd lists (empty, a host twice, none), a change of the world, a callback that throws, a user who stops at any moment; fairness | `ReportsAreSound` (what `Service` assumes of its reports), `StoppedIsQuiet`, `UnboundOnlyInRun`, `ReportsConverge`, `StopReturns` |
| `Calls` (`MCClient`) | 1 user and a callback, both with any call, sizes that fit, do not fit and wrap, 3 calls of `send_message`, 1 of `connect`, any number of the others; fairness | `WithinCapacity`; `DestroyedIsQuiet`: who may use what is destroyed; `NoOtherCircle`: the two deadlocks are all there are; `CallsReturn`: users' calls and callbacks, but for those two |
| `Statistics` (`MCStatistics`) | 1 event of any kind against the ping thread's overwriting and a sender's post; 2 clients, 2 requests of 9 kinds; fairness | `CopiesAgree`, `NothingCountedTwice`, `RequestsAnswered` |
| `Messages` (`MCMessages`) | 3 objects, messages or responses, over 3 buffers and 4 counters, 2 contents, 2 uuids | `CounterCountsOwners`, `BuffersAreOwned`, `SameUuidSameMessage`; the refinement `IsSharedData` |
| `Timer` (`MCTimeValue`) | a second of 4 microseconds, a timeout of 5, polls of 2, the clock set twice by up to 5; fairness | `WaitIsTimely`, `TimerIsRight`, `ArithmeticIsClose`, `WaitEnds` |
| `Loading` (`MCConfiguration`) | files with each configuration the code tells apart, whole; two values with a comment, line comment or end of line at each place, two with a token missing or bad at each place; every text of at most 5 of 9 tokens | `ReadsWhatIsWritten`, `CommentsMeetAValue`, `EveryServiceLoaded`, `WorkIsBounded`, `LoadingTypeOK` |
| `RemovalLoses` (`MCService`) | violated: `NoMessageLost` | the shared deque (4.1) |
| `JoinBlocks` (`MCService`) | violated: `KilledThreadEnds`; fairness | the join under the mutex (4.2) |
| `ReconnectForgets` (`MCService`) | violated: `EveryMessageAnswered`; fairness | sent messages forgotten by a reconnect (4.3) |

**Deadlock.** Every run but `Loading` has `CHECK_DEADLOCK FALSE`: the program may do nothing more and every
bounded thing ends (reports, messages, uuids, requests, settings of the clock), so the systems come to rest, and some
of the disagreements below are real deadlocks, which the liveness properties name. In `Loading` deadlock is
checked, and `Done` is the only step of the model that is none of the code's. So `Loading` shows without
fairness that `load` ends: every state before an end has a step, and `WorkIsBounded` bounds the steps by
the text.

**Bounds.** `MaxChanges` of `MCService` counts reports that differ: four create, remove and create a handle
again, and change hosts while notices of the change before wait. `MaxChunks` and `MaxBusy`
(1) let one response of each non-final kind come before a final one. Two messages are the least that
show an order, and that let one be refused behind the other. Chunks are in `Answers`, losses and
removals in `Delivery`: together they exceed what TLC can reach, and the proofs have no such bound. Two
handles are needed for a report that creates one and removes another. In `Heartbeats` one change of the world
puts answers of two moments in one report; a list of two hosts shows order, duplicates and the
validation of a second host against a first. In `Calls` one service is enough for each deadlock and for each
wrap (`Word` 16, a message of 15, one of 3 before it); three sends are one whose response the callback has, one of
the callback's and one that meets it. In `Messages` three objects are two copies and an
assignment over one of them, with a counter and a buffer to spare, so that freed addresses return.
`Delivery` and `Messages` have `SYMMETRY`: messages have one destination, buffers, counters and contents are
not compared but for equality, and neither run has liveness properties.

**Fairness** (the operators named `...Fairness`, and `FairSpec` of `Statistics`).

* `Service`. A handle's thread loops without waiting: weak fairness for its steps. A thread that
  waits for `service::mutex_`, which others take and release for ever, gets it in the end: strong
  fairness for `EnqueueResponse` and `DispatchPass`. The ping thread goes on within a refresh, and the
  refresher calls it every period: weak fairness for `Refresh` and `BeginRefresh`. Workers that are
  alive end what they work on: weak fairness for `WorkerFinal`. Nothing is assumed of the user, of
  refusals, chunks and losses.
* `Collector`. A refresher's thread goes on and its timed wait ends; a call of the user that began goes
  on; a thread that wants `mutex_` gets it if it is free again and again, since whoever releases it sleeps
  for a second. A callback that throws is not fair: it throws at most `MaxThrows` times.
* `Client`. Strong fairness for each thread in a call or in the destructor, each on its own, and for the pinger: it goes on,
  and gets a mutex it waits for that is free again and again. Strong fairness for the end of a callback too: it makes
  finitely many calls and returns. No call is assumed to begin, no response to come.
* `Statistics`. The server polls without end and takes the requests of each client in turn.
* `TimeValue`. The pinger polls and looks.

**A remark on `FinalIsLast`.** A removal may make a message new again after its final response was
received and before it was handed over; it would then be sent and answered again. The thread
stands in `enqueue_responce_callback`, waiting for the mutex of the ping thread that waits for
the thread: the code does not answer twice because it does not go on at all (`JoinBlocks`). A repair
of the deadlock has to repair this too; the run, and `BeingRemoved` of the proof, would show it.

## 4. Disagreements between the code and what it says of itself

Each is in `findings` of `PROJECT.json` with the line it contradicts. Three have a run:

1. `service.hpp:555` stores the deque of the cache, not a copy, while the handle's thread still works on it
   and is killed only at 559. What it sends until then moves to the `sent_messages_` of a cache that
   is destroyed (`RemovalLoses`).
2. `service.hpp:559` joins, under `mutex_`, a thread that may wait for `mutex_` at 287 (`JoinBlocks`).
3. `handle.hpp:348` drops the socket; the messages sent on it are never sent again and, since 221-242 is
   commented out, never expire (`ReconnectForgets`).

The others are in the models, which do what the code does, and the properties are stated around them:

4. `handle.hpp:366-368`: a host added while the notice of an earlier one is handled is cleared with it;
   one that arrives before CONNECT is handled is not in `hosts_`. (`NoStalePeer` is the direction that holds.)
5. `handle.hpp:828` sends `"3"` where all the others send an `int`: DISCONNECT is ignored.
6. `http_heartbeats_collector.cpp:63`: `stop` joins, under `mutex_`, threads that want it: the premise of
   `StopReturns`, and one of the two of `CallsReturn` (`StopDeadlocked`).
7. `http_heartbeats_collector.cpp:50`: the fetcher's thread starts before its callback is set
   (`UnboundOnlyInRun` says where it bites).
8. `http_heartbeats_collector.cpp:334`: the inner iterator of `validate_host_handles` is not set back.
9. `service.hpp:644`: the size of the cache only grows (`WithinCapacity` says what holds).
10. `service.hpp:206`: a callback runs under its service's mutex, so that one that sends to its own service, or sets a
    callback of it (`264`), waits for itself. So does one that disconnects while the pinger waits to refresh
    that service. One that sends, connects or disconnects may also wait for a holder of the client's mutex that needs the
    service: a `send_message` to it, or a `disconnect` whose pinger refreshes it (all: `CallbackDeadlocked`). `client.hpp`
    says nothing of what a callback may call; `NoOtherCircle` says that this and 6 are all the deadlocks of the client's locks.
11. `service.hpp:273`: no return value of a registration; the answer of `set_response_callback` is left out of the models.
12. `client_impl.cpp:76`: a second `connect` frees the collector through a class without a virtual
    destructor (`freed`).
13. `handle.hpp:649`, `604`: counters are overwritten by older copies; `575`: errors are counted twice
    (`NothingCountedTwice` says how far).
14. `statistics_collector.cpp:170`: the action `service` is not answered and blocks the socket; `368`: the
    answer for all services has the last one only.
15. `json_reader.cpp:566`: a token between two elements of an array stands for a comma.
16. `configuration.cpp:265`: the file is read without its line ends, so that a `//` comment swallows the rest;
    `239`: the second test for duplicates finds nothing.
17. `service.hpp:170`: the destructor joins the response thread only. The map of callbacks, the mutex and the queues of responses
    are destroyed before `handles_`, whose threads run until `~handle` joins them (`handle.hpp:168-173`) and until
    then may hand over a response, which uses all three (`AnswerTooLate`; `DestroyedIsQuiet` says who does not).

## 5. Proofs

All theorems hold for any values of the constants. Assumed are only the named assumptions on them
(`FiniteMessages`, `HandleBounds`, `ServiceConstants`, `CollectorConstants`, `ClientConstants`,
`StatisticsConstants`, `ContainerConstants`, `MessageConstants`, `TimeConstants`, `IntBitsAssumption`,
`FilesAssumption`, `WidthsAssumption`), which TLC evaluates in the runs.

| Theorem | States | Module |
|---|---|---|
| `Invariance`, `TypeCorrectness`, `UnsentKeptInOrder` | `IndInv`, `TypeOK`, `UnsentInOrder` of `Service` | `ServiceProofs` |
| `HandlesHaveOneQueue`, `MovesWhatItSent` | `NoQueueBesideHandle`, `SendsWhatItMoves`, conjuncts of `IndInv` | `ServiceProofs` |
| `PromiseIsKept` | `Spec => KeepsPromise`: `Service` implements `Promise` | `CustodyProofs` |
| `CustodyIsSingle`, `FinalEndsAll` | `SingleCustody`, `FinalIsLast` | `CustodyProofs` |
| `OnlyJoinLoses` | `NoMessageLost`, in behaviours in which no join loses a message (see below) | `CustodyProofs` |
| `NothingIsWorkedOnTwice` | `WorkedOnOnce` | `CustodyProofs` |
| `NoPeerIsStale` | `NoStalePeer` | `ServiceProofs` |
| `RefreshesGoOn`, `HandlesServe` | `RefreshGoesOn`, `ServesTheReport` | `ServiceProofs` |
| `CollectorTyped`, `ReportsSound` | `CollectorTypeOK`, `ReportsAreSound` of `Collector` | `CollectorProofs` |
| `StoppedStaysQuiet`, `OnlyRunUnbound` | `StoppedIsQuiet`, `UnboundOnlyInRun` of `Collector` | `CollectorProofs` |
| `ClientTyped`, `CacheWithinCapacity`, `DestroyedStaysQuiet` | `ClientTypeOK`, `WithinCapacity`, `DestroyedIsQuiet` of `Client` | `ClientProofs` |
| `OnlyTwoCircles` | `NoOtherCircle`: callers and the collector's threads have no deadlock but those of 4.6 and 4.10, whatever callbacks call | `ClientProofs` |
| `CopiesAlwaysAgree`, `NothingEverCountedTwice`, `StatisticsTypes` | `CopiesAgree`, `NothingCountedTwice`, types of `Statistics` | `StatisticsProofs` |
| `CountersCount`, `BuffersOwned`, `SharingIsHidden` | `CounterCountsOwners`, `BuffersAreOwned`, and that `DataContainer` implements `SharedData` | `MessagesProofs` |
| `MessagesUseContainers`, `MessageBuffersCounted`, `MessageBuffersOwned`, `MessageDataShared`, `OneUuidOneMessage` | that `Messages` uses its containers as `DataContainer` says, what follows, and `SameUuidSameMessage` | `MessagesProofs` |
| `TimerAlwaysRight`, `WaitsAreTimely`, `ArithmeticAlwaysClose` | `TimerIsRight`, `WaitIsTimely`, `ArithmeticIsClose` | `TimeValueProofs` |
| `WorkBounded`, `CommentsSafe` | `WorkIsBounded`, `CommentsMeetAValue` of the reader, for every text | `ConfigurationProofs` |
| `LoadUsesReader` | `LoadSpec => ReaderSpec(FileTokens)`: a load is, as far as it reads, a run of the reader | `ConfigurationProofs` |
| `EveryServiceIsLoaded`, `LoadingTyped` | `EveryServiceLoaded` and `LoadingTypeOK` of `LoadSpec`, for every set of files and all widths | `ConfigurationProofs` |

### The inductive invariants, and why they are what they are

**`IndInv` (ServiceProofs).** `UnsentInOrder` speaks of `Queue(h)`, the concatenation of the unhandled
entry and the cache. For a step to change one end only, one of the two must be empty:
`NoQueueBesideHandle` for names with a handle, `NoHandleNoCache` for those without. These need to know
that a removal works on a handle of the map, and that no handle is removed twice by one refresh
(`VictimIsHandle`). What a thread takes from the front must need no queue any more: it is the message
it sent (`SendsWhatItMoves`, which holds because all others append at the back) and what was sent is
in `transmitted` (`SentWasTransmitted`). The last also covers the one queue that is not stored: a handle
removed with an empty queue, to which the thread may still give back refused messages. `ReplyIsThere` is
needed for the types. `Delivery` checks `IndInv` with TLC.

**The refinement (`PromiseIsKept`).** `StepIsPromised`: under `IndInv`, each action of `Service` is one move
of `Promise` or leaves all of its variables alone. `CreateHandle` moves a queue from the unhandled
entry to the cache, which `Queue(h)` does not show; `JoinHandle` is `Forget`, whose second case, a queue lost of messages
that were sent already, is exactly what the code loses (4.1).

**`CustodyInv` and `EndInv` (CustodyProofs).** No move of `Promise` puts a message in a second place, since
it comes from the other place or is new; that gives `SingleCustody`. For `FinalIsLast`, a message
that got its final response must not be in custody any more, wherever the response is: given, waiting,
or in the thread's hands. The exception is a removal that makes it new between look-up and hand-over;
`BeingRemoved` says that then the handle's thread waits for the mutex the removal holds, until it
ends - which it does not.

**What loses a message (`OnlyJoinLoses`).** `NoMessageLost` is not an invariant (4.1). The theorem says what has
to happen for it to fail: `JoinHandle` while `LosesNothing` is false, that is, the joined thread remembers
a message as sent, or gave one back to a queue that was empty, and so not stored, when the handle was
removed. Each message is followed through the places it may be in (`Kept`): custody shrinks by a final
response and by such a join alone (`CustodyStays`), the final response is in the thread's hands when the cache
forgets the message (`KeptStep`), waits for the user or meets no callback when it is handed over (`HandedStays`), and
reaches him (`WaitingStays`). Refusals, hosts that die, new sockets, creations and all other removals lose
nothing, in the sense of `NoMessageLost`: what a dead host had is still remembered as sent, although nobody
sends it again (4.3). The hypothesis holds throughout `Answers`, where no handle is removed, and for every
removal whose thread reads KILL before it sends another message or gives one back.

**`TopologyInv` (ServiceProofs).** What a thread is or may yet be connected to is among the hosts of the last
report and those just dropped (`Known`), or a RECONNECT is behind it in its queue (`FollowsTheHosts`). New
hosts in memory have a CONNECT_NEW_HOSTS in the queue, in front of the RECONNECT
(`NewBeforeReconnect`), so that the thread cannot connect to them after it. An order could be ignored for
want of a connection, so CONNECT has to be the first in the queue of a thread that is not connected, or
be about to be sent (`Connects`); it is sent because a report with handles has hosts
(`ReportApplied`, from `ServiceConstants`).

**`RefreshInv` (ServiceProofs).** It adds to `TopologyInv` how a thread stands to its handle and to KILL (`Runs`):
only the handle that is being joined has KILL in its queue, as the last order, since the removal took it out of the
map first and orders go to handles of the map; so no other thread ends, and a joined one either has ended or has
an order to read. `RefreshPlace` follows the ping thread: what it looks for next exists, and a handle that is
neither outstanding nor the victim was in the report. `RefreshesGoOn` then says that the code's exceptions of the
middle of a refresh (`service.hpp:531`) are never thrown and that its removals are kept from their end only by 4.2; what may
end it early, after them, is a handle that cannot be created (`CreateFails`);
`HandlesServe`, that no handle sleeps beside its messages for want of a CONNECT, and none outlives its report.

**`WorkInv` (CustodyProofs).** `WorkOf`: what is under way at a handle - on the wire, with a worker, or as a
response in its inbox - is there once, and the thread remembers it. A message goes out from the front of the queue, which by
`SingleCustody` is not among the sent ones, so that it was not under way; a final response ends what is under way
before the thread forgets the message, and a refusal before it goes back to the queue. A removal makes messages new
that are under way: the invariant holds of all handles that are not `BeingRemoved`, and a handle created again has a new
socket. That the workers get a message twice, through two handles of one name, is the rest of 4.1.

**`UserInv` (CollectorProofs).** Only `run` starts a thread, and every other step moves one on its way:
what `stop` has joined stays ended (`JoinedBefore`), what was started is bound before the next is
(`StartedIsBound`).

**`CollectorInv`, `HearingInv` (CollectorProofs).** A report is what a ping round gathered, and a round takes
many steps in which lists and answers change. So the invariant speaks of the round: the list it works on is one
that was fetched (`AsksOfAList`, `ListsAreHeld`), and at every host what was gathered so far is already a
sound report of the hosts asked (`HeardSoFar`). The loops over hosts, handles and applications are recursive
functions (`Keep`): see the technique below.

**`ClientInv` (ClientProofs).** It has the collector's invariant as a conjunct (`CollectorPart`), and every step of the
client is a step of the collector or leaves it alone. `Accounted`: while a caller holds the mutex between the routing and
the accounting, the client's figure is behind the sum by what the service was given; a routed message had
passed the test against the figure (`RoutesFit`), and nobody else can change figure or sum while the mutex
is held, so the sum fits before it is counted. Sums cannot wrap because one message more than the
capacity is less than `Word`. `DestroyedIsQuiet` needs `StoppedIsQuiet` of the collector, and that a
destructor begins when the collector has stopped and nobody is in a call or about to enter one, after which none begins
(`EndsStopped`), that a response thread calls in its callback only (`CallbacksCall`), and in which order the
destructor takes a service apart (`TornDown`).

**`WaitInv`, and why there are two circles (ClientProofs).** `NoOtherCircle` quantifies over sets of threads of which each
waits for one in the set: users, callbacks, fetchers and the pinger, on the client's mutex, those of the services and the
collector's, and on joins. The handles' threads are not among them: what they wait for, and the join that waits for
them, are in `Service` (4.2). `WaitInv` is `ClientInv` and `LocksInv`, which says who has the collector's mutex: the user
while `run` and `stop` go on, the pinger while it asks the hosts of one service. Leave `StopDeadlocked` aside. A caller in
`connect` never waits, since its collector's pinger is not yet started; so the caller that has the client's mutex
and waits either routes a message to a service whose callback runs, or disconnects while the pinger waits for such a
callback (`HolderNeeds`, `PingerWaits`). Whoever else is in the set waits for that caller, or for a callback: a refresher
waits for the user of the collector, who is that caller, or for the pinger; a registration waits for a callback
(`RegisterNeeds`); the destructor waits when nobody is in a call, for a response thread that then waits for nobody. So a
callback is in the set (`CallbackIsIn`), and of each callback in it the call needs the mutex of another's service or its own,
at once or through the caller that has the client's mutex (`CallbackNeeds`): this is `CallbackDeadlocked`. Threads
that keep each other waiting are so in one of the two deadlocks; that threads which can go on do so is
`CallsReturn`, which TLC checks.

**Loops.** The prover's induction theorems take an operator as parameter and cannot be used. What is provable
instead: a set of naturals that has 0 and with each number the next one has all of them (`FromZeroOn`, from the
theorems on finite sets). With the set of the lengths up to which a claim holds, that is induction for
loops that are written as recursive functions, and it proves what `Keep`, `Total` and `Sum` compute for
every list.

**`StatisticsInv`.** `RoomLeft`: every copy of the counters, with what the thread has yet to count, stays
within what happened; a copy put back between two increments of one event has that room already.
`CountedInTheMiddle`: a thread not in the middle of counting has nothing left to count.

**`DataInv` (MessagesProofs).** `CounterCountsOwners` speaks of counters in use; `AllCounts`, of all of
them, is what a step preserves, since a counter leaves use at 0 and comes back so. A step changes one
container: each action is split into what it leaves without it, and what it gives it.
`MessagesInv` adds that no object has a uuid not generated yet (`UuidsAreKnown`), and that objects of one uuid
hold equal data and agree in path, policy and size.

**`TimeInv`.** The clock shows what it showed at the beginning plus what passed and it was set
(`ClockMoves`); operations on pairs are those on numbers, but for truncation.

**`ReaderInv` (ConfigurationProofs).** `ReaderSpec` puts no bound on the text or on how deep values are nested, so
the invariant is about the stack of frames. Each frame stands for a place of the document: the path of a
frame is one member or element longer than that of the frame below it, and the document has a value at each
of them, of the kind the frame builds (`StandsFor`). An assignment at the path of the frame on top leaves the
values at the paths below it in place and of their kind (`WithChildIs`, and `AssignedOnPath` by induction over
the path), which is why a frame can be returned to. `lastValue`, to which a comment is given, is a place the document has, and
is not inside one that the step replaces (`LastIsThere`): that is `CommentsMeetAValue`. For `WorkIsBounded`
each frame on the stack and each element of its array is paid for by a token that was read (`PaidFor`).
`FailsByErrors`: a failure passes a frame only after an error was counted.

**`LoadInv` (ConfigurationProofs).** `EveryServiceLoaded` counts: the services are as many as the elements of the list
in the file. `MadeOf` says it of the first elements while the list is gone through, and a service that is added
has a name no other has, since each is kept under its own. That there is a number of elements to come to is a
property of the value that was read: an array is a sequence, an object has finitely many members, a number is one
(`Proper`), at every place (`AllProper`), after every assignment (`AssignedProper`: places above the new value keep
their kind, places in it are what the reader assigns, others are as before). This holds of what the reader makes of
tokens whose strings are texts and whose numbers are numbers (`FilesAssumption`).

**`SettingsSoFar` (ConfigurationProofs).** The constructor leaves the kind of the cache open, so that `LoadingTypeOK`
needs to know which setting it is (the ninth, `SettingsAre`) and how far the settings are; a port is in range because
what is converted is a number (`AsNumberIs`) and is taken modulo the word it is stored in, and a service never has the
port 0 because that is tested after it was narrowed. `ReaderTypeOK` follows from `ReaderInv` (`ReaderTyped`).

**Layout.** Each module begins with its argument. Lemmas on sequences, counters or numbers come first,
then one lemma per conjunct or per action, a step per action in it, then initial state, step and the
theorem, whose last step is the temporal one (PTL).

## 6. Only model-checked

* Everything temporal under fairness (`HandlesConverge`, `AnsweredWhileHostsStay`, `ReportsConverge`,
  `StopReturns`, `CallsReturn`, `RequestsAnswered`, `WaitEnds`): liveness and
  ENABLED are out of the prover's reach.
* `ReadsWhatIsWritten`: the writer is a recursive operator on values of any depth, which the prover does not
  accept in a module with theorems.
* `NoMessageLost` as it stands: without the hypothesis of `OnlyJoinLoses` it is violated (4.1), and the run
  `RemovalLoses` shows it.

## 7. Not modelled

* **Logger**, and texts for it (`as_string`, log lines): pure output. **Test client, build**: an example and an
  empty suite. **Context**: it holds the configuration, the logger and the statistics.
* **Message cache**: `move_sent_message_to_new`, `make_all_messages_new_front` and
  `process_expired_messages` (no caller, or commented out), the persistent cache (no code).
* **Handle**: exceptions of its sockets; torn reads.
* **Cached message, response**: `json`, the text of the envelope that goes out with a message (`handle.hpp:440`): it reads
  the policy and the uuid and changes nothing. `is_expired`, which only commented-out code reaches, and the times of sending
  and receiving, which nothing reads. **Data container**: comparison and its SHA1 signature (no caller); `clear` uses
  `delete` (193) for what was made by `new[]`, which the models take as freeing it.
* **Time values**: accessors of days to milliseconds, and `time_value::reset`, which compares where it
  should assign: it leaves the time of sending of a message, which nothing reads.
* **Client**: multicast discovery, which does nothing in the code.
* **Statistics**: the figures and texts in the answers.
* **Widths**: what a conversion to a narrower type makes of a value in the configuration is modelled, but no property says that
  a value which wraps to another valid one is refused: it is not. The digits of a JSON number are not added
  up in a word of the machine, and `ReadsWhatIsWritten` compares numbers, not the kinds they are read as.
* **JSON**: characters and escapes of strings, the buffer of 32 bytes for numbers, `StyledWriter`, `Path`, the internal
  map and array (compiled out). An answer or a request whose root is not an object fails an assertion
  of jsoncpp and ends the process; `Configuration` models that (`aborted`), the models of the other
  users start from roots that are objects.

## 8. What is left to do

In the order of importance: a deadline in `Service`, should the expiry of `handle.hpp:221-242` be used
again; the composition of `Collector` and `Service` in one model, where now each checks what the other
assumes (`ReportsAreSound` against `ServiceConstants`);
more than one service in `Calls`, for its liveness (of the circles, two callbacks that send to each other's
service among them, `OnlyTwoCircles` speaks for any number), and in `Heartbeats`, where a callback that throws puts off
the services after it in the round (`http_heartbeats_collector.cpp:110`).
