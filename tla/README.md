# Verification of swiftNetCore

TLA+ models of swiftNetCore, a C++ network library in the style of muduo (one
event loop per thread, non-blocking sockets, a small HTTP layer on top), the TLC
configurations that check them on small instances, and TLAPS proofs, for every value
of the constants, of the safety of the event loop and its thread, the buffer, the
connection, the server, the client, the timers and the thread pool. Source paths below are relative to the
repository; line numbers are those of `PROJECT.json`.

    tlc -workers 2 -config EventLoop.cfg EventLoop      # model-check one run
    tlapm EventLoop_proofs.tla                          # check the proofs

## 1. The system

| component | state | operations | interacts with |
|---|---|---|---|
| `EventLoop` | `quit_`, `looping_`, `callingPendingFunctors_`, `pendingFunctors_` (mutex), eventfd, active channels | `loop`, `quit`, `runInLoop`, `queueInLoop`, `wakeup`, `handleRead`, `doPendingFunctors` | polls the `Poller`, runs handlers of `Channel`s and functors of everybody |
| `EventLoopThread`, `Thread` | `loop_` (mutex, condition), the thread | `startLoop`, `threadFunc`, destructor | owns an `EventLoop` on the stack of its thread |
| `EventLoopThreadPool` | `threads_`, `loops_`, `next_` | `start`, `getNextLoop` | hands loops to `TcpServer` |
| `Channel`, `EpollPoller` | interest, `index_` (kNew, kAdded, kDeleted), map, kernel's set | `update`, `remove`, `handleEvent`, `poll` | one per descriptor, called by its owner on the loop thread |
| `TcpConnection` | `state_`, `outputBuffer_`, `inputBuffer_`, channel | `send`, `shutdown`, `handleRead/Write/Close/Error`, `connectEstablished`, `connectDestroyed` | its loop, its owner's close callback, the user's callbacks |
| `TcpServer`, `Acceptor` | map of connections, `nextConnId_`, `started_` | `start`, `newConnection`, `removeConnection`, destructor | base loop and sub-loops |
| `Connector`, `TcpClient` | `connect_`, `state_`, `channel_`; `connection_`, `retry_`, `connect_` | `start`, `stop`, `restart`, `retry`; `connect`, `disconnect`, `stop` | one loop, calls from any thread, timers |
| `Buffer` | vector, reader and writer index | `append`, `readFd`, `retrieve`, `makeSpace` | the two buffers of a connection |
| `TimerQueue`, `Timer`, `Timestamp` | ordered sets of timers, timerfd | `addTimer`, `cancel`, `handleRead`, `reset` | meant for `EventLoop::runAt`, but never constructed |
| `ThreadPool` | task queue, worker counters, finished ids | `submit`, `worker`, setters, destructor | runs the callbacks of `HttpClient` |
| `AsyncLogger`, `Logger` | current buffer, queue of full ones, file; the level | `log`, `writeLoop`, `stop` | called from every thread |
| `HttpServer`, `HttpContext`, `HttpRequest` | parser state, request | `onMessage`, `parseRequest`, `onRequest`, `reset` | over `TcpConnection` and `Buffer` |
| `HttpClient` | request queue, `connected_`, `isConnecting_` | `get`, `post`, `onConnection`, `onMessage` | over `TcpClient` and `ThreadPool` |

What is hard here, and what would make each part correct:

* **Wakeups.** `queueInLoop()` pushes under the lock and then decides by two plain
  flags whether to write to the eventfd, while the owner swaps, runs or goes to
  sleep. Correct: a functor is never left to the poll timeout, each runs once and
  in order, `quit()` is never slept through.
* **Lifetime across loops.** A connection's close is noticed on a sub-loop, the map
  is changed on the base loop, the connection is destroyed on the sub-loop again,
  while the destructor of the server does the same from a third side. Correct: no
  plain pointer from epoll is used after its owner was freed; up and down are
  reported once; everything closed is reclaimed.
* **Partial writes and half closes.** Correct: the peer gets the stream that was
  accepted, write interest agrees with the buffer, the FIN is behind the data.
* **Unlocked state.** `TcpConnection::state_`, `Connector::connect_` and the flags of
  the logger and of the pool are tested and set in separate steps.
* **Lost notifications and joins under a lock**, in `ThreadPool` and `AsyncLogger`.
* **Input in arbitrary pieces**, for the two HTTP parsers.
* **Requests and responses matched by order only**, in `HttpClient`, whose flags are
  cleared by DOWN without the lock under which `get()` reads them. Correct: one attempt
  at a time, queued requests leave, nothing is written or answered twice.
* **Timers as raw pointers in two sets**, deleted, restarted and cancelled from inside
  the callbacks of an expiry. Correct: one owner each, a cancelled timer stays away,
  the timerfd is always armed for the earliest.

`PROJECT.json` lists every such place under `hazards`, with the properties that
watch over it or the reason why none does.

## 2. Modules

| module | models | composed with |
|---|---|---|
| `FunctorQueue` | what a loop promises: functors run once each, in the order queued | abstraction of `EventLoop` |
| `EventLoop` | `loop()`, calls of the owner and of other threads | `EventLoop_proofs` |
| `EventLoopThread` | start, publication of `loop_`, quit, join | EXTENDS `EventLoop`; `EventLoop_proofs` |
| `Poller` | `Channel` and `EpollPoller` as operators: interest, registration, map | used by the next two |
| `TcpConnection` | one connection on one loop with calling threads | `Poller`; `TcpConnection_proofs` |
| `TcpServer` | acceptor, pool of loops, connections, destructor | `Poller`; `TcpServer_proofs` |
| `TcpClient` | `TcpClient` and `Connector` on one loop with a calling thread; the application is a parameter | extended by `HttpClient` |
| `HttpClient` | `HttpClient` and `parseResponse()`, and the reconnecting client of the example | EXTENDS `TcpClient`; `HttpClient_proofs` |
| `TimerQueue` | timers, the timerfd and the clock, calls from another thread and from callbacks | `TimerQueue_proofs` |
| `ByteQueue` | what a buffer promises: a queue of bytes | abstraction of `Buffer` |
| `Buffer`, `MCBuffer` | the vector and its indices | `Buffer_proofs` |
| `ThreadPool`, `MCThreadPool` | the pool of workers | `Threads_proofs` |
| `AsyncLogger` | callers, writing thread, `stop()` | `Threads_proofs` |
| `HttpServer`, `MCHttpServer` | one connection's parser, request and answers | `HttpServer_proofs` |

State and actions carry the names of the members and functions they stand for
(`pendingFunctors` is `pendingFunctors_`, `HandleWrite` is `handleWrite()`). A
handler is one action when nothing outside its thread can see its middle. It is
split exactly where another thread can: between the push (or the store to `quit_`)
and the write to the eventfd, between the test and the store of `state_` in
`shutdown()`, between the stores of the two `connect_` flags and the queued
`stopInLoop()`, between the three unlocked reads of the logger's loop condition, between
the two halves of its `log()`, of which an unlocked read may see the first,
between an expired wait and the moment the worker has the lock again. Every bound is
a constant whose name begins with `Max`, or a set given in the `.cfg`.

Abstractions that matter:

* A functor is its number (`EventLoop`) or the operation it is bound to
  (`TcpConnection`, `TcpServer`, `TcpClient`). The FIFO queue those three use is what
  `FunctorQueue` promises and `EventLoop` is proved to implement.
* A byte is a name, <<call, position>>, so that losing, doubling and reordering are
  different from each other.
* The kernel takes any part of a write, reports any combination of events that the
  interest and the peer allow, and fails where the code has a branch for failure.
* SIGPIPE is taken to be ignored by the application (the library does not do it).
* The destructor of `TcpServer` runs on any thread in `TcpConnection`. On that of the
  connection's own loop, as without sub-loops, `runInLoop()` calls `connectDestroyed()`
  at once, ahead of the queue (`DestroyedAtOnce`, remembered in `overtaken`): from
  the message callback of the connection, or from elsewhere on that thread. `TcpServer`
  has the whole server, and its destructor runs on the thread of the base loop once
  `loop()` has returned, as in the examples; one called from inside a callback is not
  modelled there.
* In `HttpServer` a line is two bytes, content and CRLF, so a piece may end inside it;
  paths and header names other than the ones the code looks at are left out. `kGet`
  stands for every method but `kPost`, as the parser tells no others apart, and clients
  give a body to a POST only: that of a PUT or DELETE would stay in the buffer and be
  parsed as the next request line. A client that posts without a Content-Length sends
  no other request behind it: the parser takes whatever is there for its body. Whether a
  connection is closed behind an answer is open: header and version preset it, the
  application's callback decides.
* `TcpClient` leaves two gaps for the application: between `setState(kConnected)` and the
  end of the connection callback, and between `setState(kDisconnected)` and
  `closeCallback_`. `HttpClient` fills them with `onConnection()`; other threads run
  in between. The application never calls `connect()` directly behind `stop()`: there the
  deferred `resetChannel()` of the first attempt destroys the channel of the second
  while it is registered. `Connector::start()` always queues `startInLoop()`: its callers
  are other threads, and what is queued before `loop()` is served first.
* In `HttpClient` the text of a response is six tokens (status line, header, body and
  three CRLFs), so a read may end anywhere in it or run into the next response. The
  peer answers in order, so a response counts as on its way from the moment its request
  is written. What a functor reads from a dead buffer is the request or something else,
  which the peer answers as no request of ours.
* In `TimerQueue` time is counted in what the timerfd waits for; `Timestamp::now()`, which
  stores seconds as microseconds, advances once in `Scale` of them. Intervals are whole
  units: one below a microsecond, which `addTime()` cuts to 0, is left out. Addresses are
  allocated again after a delete.

## 3. Runs

| run | bounds | what it shows |
|---|---|---|
| `event_loop` | owner and 2 threads, 3 functors, 2 quits | `WakeupForFunctors`, `WakeupForQuit`: the owner is never in `epoll_wait()` with work and no wakeup there or coming. `Implements`: refinement of `FunctorQueue`. `FunctorsRun`, `QuitStops`: liveness without help from the timeout |
| `event_loop_thread` | 2 threads, 3 functors, 1 quit | `LoopAlive`: the pointer that `startLoop()` returned stays valid until `quit()` has stored its flag. `StartReturns`: no lost notification |
| `event_loop_thread_join` | as above | **violated** `JoinReturns`, see section 6 |
| `tcp_connection` | 2 sends of 2 bytes, one caller besides the loop, high-water mark 2 | stream, write interest, FIN after data, agreement of poller and kernel and no registration of a freed connection, one DOWN, functors with a plain `this` never outliving what they point to (but for the server destroyed on the loop's thread); buffered data goes out, shutdown completes, a closed connection is destroyed |
| `tcp_server` | 0 to 2 sub-loops, 2 connections | `ActiveAlive`, `RemovedBeforeFreed`, `UpThenDown`, and `Reclaimed` through the hops between loops, with the destructor racing |
| `http_client` | 3 attempts, 3 requests, 4 calls of `get()`, `disconnect()` and `stop()` | `OneAttempt`: the flags keep a second attempt from destroying the registered channel of the first, with one race named as its exception. `QueueServed`: while requests are queued on a live connection a response is on its way. `OnceInOrder`: requests are written once, queued ones in order, responses given in order. `StopIsFinal`: nothing follows a `stop()` that was served; when `restart()` overrode it, that is because `stopInLoop()` goes into `retry()` and the process ends |
| `timer_queue` | 3 timers on 2 addresses, 2 cancels, 4 units of time with 2 to a tick of the clock | `Armed`: the timerfd is readable, or armed for a time that is still to come and not behind the earliest timer. `OneOwner`, `CancelIsFinal` |
| `buffer` | vector of a few bytes, `extrabuf` shorter than the data | the indices stay in order, the contents are a queue of bytes across growth, compaction and overflow |
| `thread_pool` | 3 workers, 3 submits, changing limits | counters count what they should, no sleeping worker beside a queued task, joins under the lock end, tasks run, the destructor returns |
| `async_logger` | 5 entries of 3 sizes, buffer of 2, batch of 2 | `WrittenInOrder`: file, batch, queue and current buffer hold the entries once and in order until `stop()` writes the rest, and then all that were accepted before it are in the file. Entries reach it without further calls; `stop()` returns |
| `http_server` | 3 requests of 9 kinds, any pieces, pipelined or not | the application is given what was sent; what was read to its end is answered, which a body split from its header never is |
| `http_server_assert` | 2 requests | **violated** `MethodUnset`, see section 6 |

Why the bounds are enough to be interesting: three functors give one running, one
pending and one on its way; two quits let one come before `loop()` clears the flag;
two messages of two bytes give a partial write with a whole message behind it; two
connections meet on one loop and live on two; three workers are one busy, one
asleep and one leaving; vectors are shorter than two appends, so growing, compacting
and the detour through `extrabuf` all happen; three attempts are a connection that is
going down, the attempt that replaces it and one too many; three timers on two
addresses use one again, and four units of time let a repeated timer expire, be
restarted and expire again, and a late one wake the loop too early twice. Each passing property has a mutant in
`PROJECT.json`, a plausible bug in the mapped definition (`..._Name` operators in the
modules), under which TLC finds it violated with the same bounds.

`CHECK_DEADLOCK FALSE` is set where the system may come to rest: all calls of the
bound made, the connection freed, the pool destroyed. `event_loop` and
`event_loop_thread` check deadlock.

### Fairness

* A thread that can run does (weak fairness of each thread's steps); handlers,
  functors and tasks return. `epoll_wait()` returns when the eventfd is readable;
  nothing is assumed of its timeout, of other channels or of the workers' timeout.
* `TcpConnection`: the loop runs its functors and polls in every turn (strong
  fairness of both, since events and functors alternate), and the peer goes on
  reading, without which buffered data rightly stays.
* `AsyncLogger`: `wait_for` with 100 ms ends, the one timeout the code relies on.
* `HttpServer`: the loop thread finishes a message it has begun and takes one that
  has arrived. The client owes nothing.
* `HttpClient`, `TimerQueue`: safety only, no fairness is assumed.

## 4. Proofs

Every safety invariant and safety action property of the passing runs is proved for all
values of the constants; what is left to TLC is at the end of this section. In each proof module
`IInv` is the inductive invariant, a conjunction of named parts; `Inductive` or the step
lemmas take the actions one by one; the listed theorems follow from it.

`EventLoop_proofs` (any set of threads, any number of functors and quits):

* `TypeCorrect`: types, and the flags agree with the place of the owner
  (`callingPendingFunctors_` exactly in `doPendingFunctors()`, and so on).
* `NoLostFunctor`, `NoLostQuit`: the two wakeup invariants. They are not inductive:
  they speak of the owner inside `epoll_wait()` only. `IInv` in `EventLoop` says what
  must hold at every point from which `epoll_wait()` is reached without a swap of the
  queue: outside the phases "events" and "swap", a functor queued in time comes with a
  readable eventfd or with a call in progress that is sure to write to it
  (`WillWake`: the owner's own call writes only while it runs a batch). The step of
  each action is a case of its own; the hard ones are `HandleRead`, which consumes the
  eventfd but only on the way to a swap, and the swap itself.
* `Refinement`: `Spec => FunctorQueue` with queue <- batch o pending. `InOrder` follows:
  what has run is a prefix of what was queued.
* `ThreadImplementsLoop`: an `EventLoopThread` behaves as the loop on its own, so that all
  of the above holds for it; `LoopOutlivesUse` (`LoopAlive`) with `ThreadInv`, which ties
  the published pointer to the phase of the thread that has the loop on its stack.

`Buffer_proofs` (every size of vector, of `extrabuf`, of prepended area and data):

* `TypeCorrect`: the indices stay ordered, inside the vector and behind the prepend.
* `QueueOfBytes` (`ActsAsQueue`): each append and read adds exactly its data at the
  end, each retrieve drops from the front; `Refinement`: `Buffer` implements
  `ByteQueue`.
  The argument rests on one relation, `Holds(b, r, w, q)`: vector b between r and w
  holds the bytes q. Each helper (`Resize`, `Compact`, `CopyIn`,
  `ensureWriteableBytes`, `append`) has a lemma saying that it preserves the relation
  or extends q; the step lemmas of the three operations compose them; the overflow
  of `readFd()` splits its data at the end of the vector.

`TcpConnection_proofs` (any callers, number and size of sends, high-water mark):

* `TypeCorrect`, `NoByteLost` (`StreamIntact`), `InterestMatchesBuffer`
  (`WriteInterest`), `HalfCloseAfterData` (`FinAfterData`), `ChannelRemoved`
  (`NoDanglingChannel`), `EndReportedOnce` (`OneDown`), `RawFunctorsSafe`
  (`RawFunctorsAlive`).
* `IInv` adds to the properties what is true of the queue and of the dispatch between
  them: `connectEstablished` runs before everything else (`EstablishedFirst`); events are
  only dispatched once it has run, and a close or input only while the channel is
  registered (`DispatchOfRegistered`); a
  connection that has reported its end is waiting to be removed or was
  (`ToldOnce`, `RemovedByServer`, `ToBeRemoved`); functors with a plain `this` are ahead
  of `connectDestroyed` unless it has overtaken them (`RawInTime`).

`TcpServer_proofs` (any number of loops and connections):

* `TypeCorrect`, `NoDanglingDispatch` (`ActiveAlive`), `ChannelsRemoved`
  (`RemovedBeforeFreed`), `ReportedInOrder` (`UpThenDown`).
* The heart of `IInv` is that every connection is in one of four stages: `Unborn`, `Up`,
  `Closed`, `Done` (`Stages`). Each stage fixes what was reported, how the channel is
  registered, and who still holds the connection or is about to (`Kept`, `Coming`).
  `FunctorRules` says which functor may wait on which loop for a connection in which
  stage, and that there is one of each at most; `ActiveRules` which channels may be left
  in the list of a dispatch. The destructor is the hard case: it acts on all
  connections at once, while loops that have ended keep functors that never run.

`Threads_proofs`, first part (`ThreadPool`; any finite set of workers, any limits):

* `CountersExact` (`TypeOK`): the counters are the cardinalities of the sets of workers
  they stand for. `NoTaskSleptOn` (`NoIdleWhileQueued`), `JoinsEndingThreads`
  (`FinishedJoinable`).
* `IInv` adds that only the holder of the lock joins (`OneJoins`), that `quit_` is the
  destructor's (`QuitByDestructor`) and that queued tasks were submitted
  (`QueuedSubmitted`). A lemma each says how the cardinalities change when one worker
  changes its place, so that the steps are arithmetic.

Second part (`AsyncLogger`; any number and sizes of entries, any size of buffer and batch):

* `EntriesInOrder` (`WrittenInOrder`). The property is stated by position, entry by
  entry, as what a flattened sequence of buffers contains would need induction.
  `LogIInv` has three parts. Until `stop()` writes the rest, the entries in `local_buffers`,
  the queue and the current buffer are the numbers behind those in the file, in order, and
  within a buffer none is left out (`Ordered`): so writing the first buffer extends the
  file by exactly the next entries. Once the thread has ended, the current buffer has
  only entries that came after the call of `stop()` (`Later`): that rests on the order
  of the three unlocked reads, and makes it harmless that `stop()` writes the current
  buffer ahead of the queue. While `stop()` drains, the entries accepted before it are in the file
  or the queue and in order (`Saved`).

`TimerQueue_proofs` (any addresses, expirations, intervals, delay and ratio of clocks):

* `SingleOwner` (`OneOwner`) and `CancelledStaysAway` (`CancelIsFinal`) from `OwnInv`:
  sequences are not used again (`SequencesOK`), what an owner holds is what is in the
  heap (`Match`), the queue adds a timer once (`AddsOnce`, `AddsMatch`), the three
  owners are disjoint (`Partition`), and what is cancelled is in none of them or in the
  expiry that will drop it (`CancelOK`). The property counts owners; the invariant
  says they exclude each other, since counting is not inductive.
* `TimerfdArmed` (`Armed`) from `ArmInv`. Each `resetTimerfd()` sets a delay of at most
  `max(MinDelay, exp * Scale - time)`: that is one inequality between the two units
  (`DelayFits`), the only place where they meet. `Armed` asks for a time still to come:
  without that a timerfd that has fired and been read would pass for armed.

`HttpClient_proofs` (`TcpClient` under the two applications of `HttpClient`; any number of
attempts, calls and requests):

* `StopHolds` (`StopIsFinal`, an action property): once `stopInLoop()` has run there is
  a `stopInLoop()` behind every `startInLoop()` that waits (`StopInv`), which is what
  makes it final although `restart()` sets `connect_` again: the attempt under way then
  ends in the phase "crashed".
* `SingleAttempt` (`OneAttempt`): `AttemptInv`, that is `OneAtATime` unless the named race
  has happened (`crossed`): of a queued `startInLoop()`, an attempt in progress and a live
  connection there is one at most (`Exclusive`), the poller has at most the channel that
  the connector knows (`ChannelInv`), and the flags of the client are set
  while any of them is there (`FlagsInv`), which is what keeps `get()` from the next one.
* `RequestsServed` (`QueueServed`): `ServedInv`, with the lock between the test of
  `connected_` and the push.
* `WrittenOnceInOrder` (`OnceInOrder`): a request is in one place only, the queue of
  the client, a functor, or the socket (`PlaceInv`, `QueueInv`); the status lines in the
  text still to be read of a socket are in the order in which the requests were written,
  and behind all that were answered (`ResponseInv`). About `parseResponse()` it needs
  only that what it leaves is the end of the text (`ParseDrops`, `ReadDrops`), so the
  cut of the text into pieces does not matter.

`HttpServer_proofs` (any number of requests of any kinds and lengths, in any pieces):

* `ParsedAsSent` (`RequestsAsSent`). The property says nothing of what is still to be
  parsed, so `IInv` does: while a request is not yet handled, the bytes in the buffer and
  on the wire together are the requests from that one on, each at a place of its own
  (`Placed`, with `cut[i]` the place where the bytes of request i begin, which is negative
  for the one in front by what the parser has consumed of it). `Stage` ties the number
  of bytes consumed and the fields read so far to the state of the parser. When all are
  handled nothing is left but, perhaps, the late body of a request without a length,
  which has no line to parse (`NoneInFront`).
* A lemma gives the bytes of a request by position (`BytesAre`), from which follow where
  the next CRLF is and what the line before it says (`FirstLine`, `FirstEmpty`,
  `HeaderInFront`, `BodyInFront`); others say that the places stay what they are when a
  piece arrives, a request is added or bytes are consumed. Each action then has a step
  lemma. The reset of the headers is what `OnRequest` needs for the next request's stage;
  the body that `swap()` leaves behind is overwritten before a POST is handled.

Assumptions are the named `ASSUME`s of the modules, which TLC evaluates in the runs: the
owner of a loop is one of the threads and the main thread another
(`LoopThreadAssumption`, `MainThreadAssumption`); bounds are natural numbers
(`BoundsAssumption`, `RequestsAssumption`), and so are the buffer size of the logger
and its entries' positive sizes, with at least one buffer in a batch (`LoggerAssumption`);
a request has one of the methods and versions the parser tells apart and a length or none
(`KindsAssumption`); sizes of messages, buffers and the high-water
mark are positive and data are sequences of bytes (`SizesAssumption`, `SizeAssumption`,
`ByteAssumption`, `DataAssumption`); the workers of a pool are a finite set without the
value that stands for no worker (`PoolAssumption`); times are natural numbers, the ratio of
the clocks and the minimal delay positive, no timer is at address 0 (`TimerAssumption`).

Only model-checked:

* all liveness (`FunctorsRun`, `QuitStops`, `StartReturns`, `Reclaimed` and the others):
  fairness and ENABLED are beyond this prover.

## 5. Plan

Done: the event loop with its abstraction, the thread around it, the connection, the
server, the client with its connector, the HTTP client on top of it, the timer queue,
the buffer with its abstraction, the pool, the logger, the HTTP request parser and
server; the proofs above, of every safety property of the passing runs. Left: the
destructor of `TcpClient`, whose first step without a connection is `runAfter()`.

## 6. Where code and claims disagree

* `event_loop_thread_join`: `loop()` stores false to `quit_` on entry
  (`src/src/EventLoop.cpp:64`). When the destructor of `EventLoopThread` calls `quit()`
  after `startLoop()` has returned and before the thread has entered `loop()`, the
  request is lost, the loop never ends and `join()` never returns.
* `http_server_assert`: a request line with a known method and an unknown version fails
  with the method set and the line still in the buffer. The next piece of input
  parses the line again and `assert(method_ == kInvalid)` ends the server (asserts are
  active: the build sets no build type).

Seen without a run, as it takes no interleaving: `Connector::retry()` announces another
attempt and calls `runAfter()`, but no `EventLoop` ever constructs its `timerQueue_`
(`src/src/EventLoop.cpp:182`), so a refused connection ends the process. `TcpClient`
models it as the phase "crashed".

Behaviour that the models reach and no claim of the repository rules out, kept as
exceptions in the statement of a property or as hazards: `shutdown()` may overwrite the
state of a connection that was closed in between; a server without sub-loops that is
destroyed on its loop's thread destroys its connections ahead of the functors that
`send()` and `shutdown()` of other threads have queued, which then run on freed objects
(`overtaken` in `RawFunctorsAlive`); functors queued after the last swap
are dropped by `quit()`; functors the owner queues before `loop()` wait for the first
wakeup; `parseRequest()` does not return while a body with a Content-Length is
incomplete; `HttpRequest::swap()` leaves the body of an earlier request in place; a
second pipelined request waits for more input; a client's connection keeps itself
alive through its close callback, so its descriptor is not closed. In `HttpClient`: a
`disconnect()` between `setState(kConnected)` and the callback makes UP look like DOWN,
and with two more `get()`s the channel of an attempt is destroyed while it is
registered (`crossed` in `OneAttempt`; without the exception TLC shows the 20 steps); a
`disconnect()` between the test of `connected()` and the lock loses the queued request;
what is queued when the connection goes down waits for the next `get()`; after a
`stop()` or a failed attempt `isConnecting_` stays set and requests queue for ever; a
response that arrives in pieces ends the connection or is lost, two that arrive
together are given as one; a request popped while the connection is shutting down is
dropped; a request sent at once from another thread is read from freed memory. In
`TimerQueue`: a timer cancelled by an earlier callback of its expiry still runs in that
expiry; a `cancel()` on the loop thread that overtakes the queued `addTimer()` does
nothing; `addTimer()` on another thread may read its sequence from a deleted timer;
delays are 10^6 times too long by the clock of `Timestamp::now()`.

## 7. Not modelled

* `Logger`: its one piece of state is the level, stored by a macro and read back by
  `log()` without a lock; an entry may carry another thread's level.
* `HttpClient`: callbacks on the thread pool (off by default, and they lose the order of the
  responses), and `connect()` called by the application itself.
* `TimerQueue`: sequences beyond 2^31, which `TimerId` truncates, and jumps of the clock.
* The destructor of `TcpClient`.
* `HttpResponse`: formatting. Its flag to close the connection is in `HttpServer`.
* `Socket`, `SocketsOps`, `InetAddress`, `Endian.h`: wrappers without state of their own;
  what the kernel may answer is modelled where it is asked.
* `Callback`, `CurrentThread`, `Types.h`, `noncopyable.h`: aliases and casts.
* Inside modelled components: setters of callbacks, names and numbering of threads,
  the growth of the poller's event array, `accept()` failing for want of descriptors,
  and, outside `HttpClient`, the lifetime of the string that a `send()` from another
  thread refers to.
