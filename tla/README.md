# TLA+ models of the Boost.Asio network programs

The repository is a collection of small network programs built on Boost.Asio:
sockets and endpoints (chapter 1), I/O operations (chapter 2), clients
(chapter 3), servers (chapter 4), HTTP and TLS (chapter 5). What is hard in them
is not the code of a handler but the order in which handlers, application
threads and peers come: callbacks that hold raw or shared pointers, cancellation
that races completion, two mutexes taken in two orders, an accept chain ended by
a flag, partial transfers, exceptions on threads that nobody watches.

## Inventory

| Component | State | Operations | Interaction and what is hard | Correct when |
|---|---|---|---|---|
| `chapter3/asyncTCPClientMT`, `chapter3/asyncTCPClient` | map of active sessions, per session flag, mutex, socket, error code | `emulateLongComputationOp`, `cancelRequest`, `close`, three completion handlers, `onRequestComplete` | application threads and a pool of I/O threads share sessions under two mutexes; cancel races every handler | each request is answered once and truthfully; nothing refers to a finished session; `close` returns with all answered |
| `chapter4/asyncParallel` | acceptor, stop flag, pool, one self-deleting `Service` per connection | `Server::Start`/`Stop`, `Acceptor::onAccept`, `Service` handlers | accept chain re-armed by its own handler; `delete this`; `m_ios.stop()` drops handlers | one accept chain; no use after delete; clients independent of each other; `Stop` returns |
| `chapter2/readingFrom*`, `writingTo*` | buffer, byte counter | loops over `read_some`, `write_some` and their asynchronous forms | partial transfers, full and empty connections, resets | bytes arrive once, in order, completely |
| `chapter5/HTTPClient` | per request flag, mutex, resolver, socket, response | `execute`, `cancel`, `close`, six handlers, `on_finish` | one I/O thread; cancel from any thread; handlers hold `this` | as the TCP client |
| `chapter5/HTTPServer` | as asyncParallel; `Service` with request buffer, status, headers | `Service` handlers, `process_request`, `send_response` | ten exits with different statuses; `shutdown`, `exists` and `make_unique` may throw on a pool thread | one right response per request; `Service` cleaned up unless something throws, and what throws is known |
| `chapter4/syncIterative`, `chapter5/syncSSLServer` | stop flag, one thread | `Start`, `Stop`, `Run`, `Accept`, `HandleClient` | blocking accept and read between two looks at the flag | `Stop` returns; clients served in turn |
| `chapter4/syncParallel` | the same, a detached thread per client | the same | detached threads and the lifetime of `m_ios` | no thread outlives what it uses |
| `chapter3/syncTCPClient`, `chapter5/syncSSLClient` | socket | connect, request, close | a server that serves in turn, stops, throws or is killed; the TLS shutdown waits for the peer | every client that connected ends; a reported response is a whole one |
| `chapter3/syncUDPClient` | unconnected socket | `sendRequest`, `receiveResponse` | lost, late, repeated and foreign datagrams; `shutdown` of a socket that is used again | the answer belongs to the server asked |
| `chapter2/sockShutdownClient`, `sockShutdownServer` | socket | write, shutdown, read to the end | each waits for the other's end of stream | both end |
| `chapter2/cancellingAsyncOperations` | socket | connect, cancel | cancel races completion | handler called once |
| chapter 1, `chapter2/*Buffer*` | none | one call each | none | not modelled |

## Modules

| Module | Models | Runs | Theorems |
|---|---|---|---|
| `RequestSpec` | what the TCP client promises its caller (abstract) | `client` | |
| `AsyncTCPClient`, `MCAsyncTCPClient` | `chapter3/asyncTCPClientMT`; with one I/O thread `chapter3/asyncTCPClient` | `client`, `client_*` | `AsyncTCPClientProofs` |
| `AsyncServer`, `MCAsyncServer` | `chapter4/asyncParallel` | `server` | `AsyncServerProofs` |
| `StreamTransfer` | six programs of chapter 2 | `transfer`, `transfer_once` | `StreamTransferProofs` |
| `HTTPClient` | `chapter5/HTTPClient` | `http_client` | `HTTPClientProofs` |
| `HTTPService`, `MCHTTPService` | `chapter5/HTTPServer/service.cpp` | `http_service` | `HTTPServiceProofs` |
| `HTTPExchange`, `MCHTTPExchange` | `HTTPClient` and `HTTPService` composed, with the `Acceptor`, `Server` and both `main`s around them | `http_exchange` | `HTTPExchangeProofs` |
| `SyncServer` | `chapter4/syncIterative`, `chapter4/syncParallel`, `chapter5/syncSSLServer`, `chapter2/sockShutdownServer` and their clients, `chapter2/cancellingAsyncOperations` | `sync_server`, `sync_server_eof` | `SyncServerProofs` |
| `SyncUDPClient` | `chapter3/syncUDPClient` | `udp_client` | `SyncUDPClientProofs` |

In every module definitions whose comment begins with "Mutant:" are broken forms
of the definition after them. No specification uses them; each shows, put in the
place of the original, that some property notices the bug.

### AsyncTCPClient

Each variable that begins with `m_` is the member of that name. A session's
asynchronous operation is described by `op` (connect, write, read) and `opState`:
`pending` while the reactor waits for the socket, `part` while an inner
completion of a composed operation is queued, `ready` when the handler is
queued, `running` while a thread executes it. `m_sock.cancel()` aborts a
`pending` operation and nothing else; that distinction is the reason why a
cancellation can be lost.

A critical section that cannot block inside is one step. The two places where a
thread waits for one mutex and holds the other are steps of their own:
`CancelFind` takes `m_active_sessions_guard` (`guardOwner`) and `CancelSession`
waits for `m_cancel_guard`; `FoundCancelled` keeps `m_cancel_guard`
(`cancelOwner`) and `Erase` waits for `m_active_sessions_guard`. A handler is
Dispatch (`ConnectHandler`, `WriteHandler`, `ReadHandler`), the check under the
lock (`FoundCancelled` or `StartNext`) and `onRequestComplete` (`Shutdown`,
`Erase`, `Callback`). The caller's obligations that the code does not check are
guards: no request after `close`, `close` once. That ids are unique is not one
of them; `IdOf` decides, and only `ActiveIsCancellable` needs it.

`RequestSpec` says the same without sockets, locks and threads; the refinement
mapping reads `phase` off `m_sock` and `calls`, and `closed` off `userPc`.

### AsyncServer

`Server::Start` is `StartAcceptor` and one `SpawnThread` per thread, `Stop` is
`StopAcceptor`, `StopIos`, `Join`, and the end of `main` is `DestroyServer`.
`OnAccept` creates and starts a Service, `OnAcceptEnd` re-arms the accept or
closes the acceptor: two steps, because the flag may change between them. A
`Service` is identified with its connection and goes from `none` to `alive` to
`deleted`. `Talkers` are the clients that send a line or go away; the others
stay silent for ever.

### StreamTransfer

One writer and one reader over a connection that holds `Capacity` bytes. Byte
number i of the message is the number i, so that order, loss and duplication are
visible. Writers and readers are synchronous loops (`sync`), asynchronous loops
(`async`) or the single call of the Enhanced programs (`once`); a fourth reader
(`delim`) is `readFromSocketDelim`, whose streambuf is what it has taken out of
the connection. Init chooses any pair and where the delimiter is. Every transfer
moves any positive number of the bytes possible. `asio::read` and `asio::write`
are the synchronous loops inside the library. The writers send the 5 bytes of
"Hello" and the readers have room for 7; these are the sizes of `transfer_once`.
`transfer` has 7 and 7, because with 5 bytes no loop of a reader ever ends with
success; the theorems are for all sizes.

### HTTPClient

As AsyncTCPClient with one I/O thread and no map. `m_cancel_mux` is always
released before `on_finish`, so no step keeps it. `NextOp` is the chain of
operations. In state `part` a resolution is inside `getaddrinfo`, a connect has
another endpoint to try (`async_connect` goes on with the next endpoint after a
cancel of the inner connect), and a transfer has a piece behind it. An exception
on the I/O thread (`ShutdownThrows`) stops every thread.

### HTTPService

A request is a record of what the handlers can tell apart (`RequestShapes`). Each
handler is one step, since it touches only its own Service; `SendResponse`
contains the two calls that may throw. `ExpectedStatus` is the reference
definition `ResponseIsRight` compares with.

`process_request` may throw as well, and the handler is called from `run()` with
nobody to catch it (`Terminate`). `exists(path)` is the overload that throws when
`stat` fails otherwise than with "not there": a name that is too long, a directory
that may not be searched, a loop of links (resource `rejected`). A `directory` can
be opened; where `seekg` and `tellg` find its end depends on the file system:
nowhere (-1) or at a huge number, for which `make_unique` throws, or at a small
one, and then that many zero bytes are the response with status 200. The model
allows both.

### HTTPExchange

Both HTTP components as they are, each the environment of the other: the module
instantiates `HTTPClient` and `HTTPService` and keeps only what is between them,
how many pieces of the request (`up`) and of the response (`down`, `taken`) are
in the connection, and which process is gone. What a client's operation ends with
(`ClientSees`) is no longer chosen freely but follows from what the Service has
sent: `HeadersFound` is where the two parsers meet, since the "\r\n\r\n" that
ends the headers is not in the stream when there is no header. A response longer
than the connection holds (`Capacity`) waits for the client to read, so a client
that leaves resets it in the middle; this is where the server's unguarded
`shutdown` matters. `StopServer` is the whole of `Server::Stop` and the end of
`main`; its steps are those of `AsyncServer`.

### SyncServer

One server process and any number of client processes; `kind` and `prog` say
which programs they are. Every call that may block is a step that waits for what
it waits for, so a deadlock is a state in which a step is missing. `svc[c]` is
where `HandleClient` is, on the one thread of the iterative servers, on a
detached thread of `syncParallel`, or in `main` of `sockShutdownServer`. A
connection is four facts: the request and the response are in it, and each side
has ended it, in order or with a reset. In `sockShutdownServer` an error of the
read that is not the end of the stream throws, as one of the write does, and
both end `main`. A thread that uses its socket after
`m_ios` was destroyed has undefined behaviour: it goes on, or the process ends
(`UseAfterDestroy`). `accept` and the constructor of the acceptor may throw
(`RunThrows`), and the process may be killed.

The handshake is a step of the server that needs the client in its handshake and
one of the client that needs the server past its own; `on_peer_verify` accepts
everything, so nothing else can come of it.

### SyncUDPClient

`main` asks two servers in turn over one socket. Datagrams are records in a set,
which the network may drop, deliver late and deliver again. Where `shutdown` of
an unconnected socket fails, as on Linux, it throws, and where it does not the
socket is shut down all the same (`throws`). The source does not say which
platform it is for, so both are modelled.

## Runs

`CHECK_DEADLOCK FALSE` is in every configuration because every program ends:
after `close`, `Stop` or the last byte nothing is left to do. That nothing hangs
before is what the liveness properties say.

| Run | Bounds | Question |
|---|---|---|
| `client` | 2 requests, 2 ids, 2 I/O and 2 application threads, 2 cancels per id | safety under all interleavings, `RequestSpec` implemented, answers and `close` unless a lock cycle closes |
| `client_double_cancel` (violation) | 1 request, 1 thread of each kind, 2 cancels | two cancels of one request can deadlock |
| `client_lost_cancel` (violation) | 1 request, a silent peer | a cancel between two pieces of a response is lost |
| `server` | a talker and a silent client, 2 threads | accept chain, lifetime of Services, `Stop` returns, talkers are served |
| `transfer` | message 7, buffer 7, connection 3, delimiter third or absent | all pairs of writers and readers |
| `transfer_once` (violation) | message 5, buffer 7, connection 3 | a single transfer reports success for a part |
| `http_client` | 2 requests, 2 application threads, resets | promises of the HTTP client |
| `http_service` | 2 connections, a request for every path, resets | one right response, no use after delete, Services end |
| `http_exchange` | 1 connection of 2 pieces, 6 resources of 5 kinds, cancel, leave and stop at any time | what each side makes of what the other sent |
| `sync_server` | 4 servers, 2 clients of 3 kinds | who is answered, who waits for whom, what outlives what |
| `sync_server_eof` (violation) | half-close server, 1 client | the end of a killed server is taken for a whole response |
| `udp_client` | 2 servers, 1 stranger, answers within and beyond the buffer | whose answer is printed, and does the client end |

Why the bounds are enough to be interesting: two requests let one handler
interfere with another's locks and map entry; two I/O threads let handlers of
different requests overlap; two application threads let one cancel while the
other closes or starts; a silent connection next to a talking one is what must
not hold the server up; a second client behind a silent one is what an iterative
server makes wait; a connection of two pieces is full before a response of three
is through; a message of 7 bytes over a connection of 3 needs at
least three transfers with every split. The requests of `http_service` take every
path through the handlers, with a second defect behind the first wherever there
can be one, so that the order of the checks matters. `MaxCancels` bounds the
calls of `cancelRequest`; the proofs are for every bound, and for callers that
give one id to several requests too.

### What the violations show

* `cancelRequest` locks the map and then the session; a handler that finds its
  session cancelled locks in the opposite order. One cancel per request is safe
  (`LockCycleNeedsTwoCancels`, proved), two are not.
* A cancel that comes while an inner completion is queued cancels nothing, and
  the read handler never looks at the flag before more data comes.
* The two Enhanced programs with asynchronous calls take one `async_write_some`
  and one `async_read_some` for a complete transfer, and say so in a comment:
  "all the data has been written to the socket", "the buffer is full".
* The half-close client takes every end of the stream for the end of the whole
  response, also that of a server killed before it answered.

Besides, `AsyncServer` shows that `Server::Stop` leaks every Service whose
operation is outstanding: `LivingServiceIsInHand` holds until the Server is
destroyed and not after.

The properties of the other runs state limits of the code as they are, with the
exception named, so that they pass and still tell what is left:

* `CompletedIsWhole`: "has completed" can be printed for a part of a file when the
  server ends in the middle; in no other case.
* `HeaderlessIsEof`: every status but 200 reaches the callback as end of file.
* `OneLateAccept`, `OneLateClient`: after `Stop` one more connection is served, in
  all four servers, and never a second. In `asyncParallel` this is less than
  `acceptor.h` says of `Stop` ("Stop accepting incoming connection requests."):
  `Stop` only sets a flag, at which the outstanding accept looks after it has
  served its connection.
* `FinishesUnlessTerminated`, `ThrowHasCause`: an exception on a pool thread ends
  the HTTP server with all its Services. Two things do it, and nothing else: a
  connection that was reset, on which `shutdown` without an `error_code` throws
  (a client that cancels and leaves while its response is on the way is enough),
  and a GET of a directory or of a path that `stat` rejects. The same `shutdown`
  in the client throws only when the server's process has ended.
* `ContextOutlivesThreads`: except for the detached threads of `syncParallel`.
* `StopReturns` (`SyncServer`): unless nobody connects any more, or the thread is
  behind a silent client.
* `ResponseIsWhole`: except for a half-close client of a killed server, the case
  of `sync_server_eof`.
* `OnlyFirstIsAsked`: the UDP client never asks its second server. That is also
  the only reason why no late answer is taken for that server's
  (the last conjunct).
* `FailedReaderWasShort`: without a reset a reader fails only at the end of a
  stream too short for it. Behind a writer that loops that stream is the whole
  message; what the writer that writes once leaves out is the case of
  `transfer_once`.

## Fairness

* `ProgramStep` (both clients): some thread that can run does run. This is less
  than a fair scheduler and the FIFO queue of `io_context` give; it is enough
  because the work of every request is finite.
* `AsyncServer` has weak fairness for the owner of the Server, for each thread's
  steps inside a handler and for each queued handler, since silent clients never
  end; accepting succeeds in the end although it may fail any number of times.
* `OpEnds`, strong fairness in the clients: a composed operation may take any
  number of pieces but only finitely many. This is an assumption about peers, not
  about the code; `SilentPeerSpec` drops it for the response, and the silent
  clients of `server` never have it.
* `HTTPService`: every client sends its request, goes away, or takes the
  response, and every queued handler is run.
* `HTTPExchange`: the threads of both processes run, and operations end when the
  connection lets them; a client that leaves or a server that ends is noticed.
* `SyncServer`: every thread that is not blocked runs, and so does every client
  once it has connected. Silent clients stay silent.
* `SyncUDPClient`: the client runs, and a server answers a request that reaches it;
  a datagram that is lost ends the promise.
* Application calls, connecting, stopping, resets and failures are never forced to happen.

## Proofs

TLAPS proves, for every value of the constants that satisfies the named
assumptions:

* `AsyncTCPClientProofs`, from `ClientAssumption`: type correctness,
  `CallbackOnce`, `VerdictFaithful`, `NoFlagRace`, `FinishedIsReleased`,
  `LockCycleNeedsTwoCancels`, `CloseCompletesAll` and the step simulation of
  `RequestSpec` (`ClientImplementsRequest`); `ActiveIsCancellable` additionally
  from `UniqueRequestIds`. None of the properties is inductive. The invariant
  `IInv` says what the code never writes down: who owns a session at each moment
  (exactly one of the starting user, the reactor or queue, one handler, nobody),
  which mutex each control state holds, what each control state has established
  about `m_ec`, `m_response` and `m_was_cancelled`, and how many cancels of an id
  are behind the state of its flag. One lemma per action shows that the action
  keeps each conjunct it can disturb.
* `AsyncServerProofs`, from `ServerAssumption`: type correctness,
  `OneAcceptChain`, `NoUseAfterDelete`, `LivingServiceIsInHand`,
  `DeletedIsAnswered`, `OneLateAccept`. `SInv` adds that a Service is in the hands
  of exactly one operation or thread and that the accept chain is either an
  operation or a thread inside `onAccept`. `LateInv`, for `OneLateAccept`, adds
  that a late connection has `m_isStopped` set before it, and that no accept is
  outstanding once it has a Service.
* `StreamTransferProofs`: type correctness, `WireIsMessage`, `BufferIsStream`,
  `ReaderGetsAll`, `FailedReaderWasShort`, for all message, buffer and connection
  sizes. `TInv` ties the byte counters to what the
  connection contains, and says why an operation has failed (`EndInv`).
* `SyncUDPClientProofs`, from `UDPAssumption`: type correctness and
  `OnlyFirstIsAsked`, for any number of servers and strangers. `UInv` follows the
  socket: while it is open nothing has been printed and the first server is the
  one that is asked; once it is shut nothing is sent.

* `HTTPClientProofs`, from `HTTPClientAssumption`: type correctness,
  `HttpVerdictFaithful`, `CallbackIsLast`, `HttpCloseCompletesAll` and the action
  property `NoOperationAfterCancel`. `CInv` says who has a request in hand (the
  caller in `on_finish`, the reactor or the queue, the I/O thread, nobody), how
  much of the response each operation of the chain implies, and that the error
  codes of operations and handlers tell the truth before the callback does.
* `HTTPServiceProofs`, from `ServiceAssumption`: type correctness,
  `ResponseIsRight`, `DeleteIsLast`, and `ServiceTerminatedByThrow` (the process
  ends only while a Service lives whose connection was reset or whose request asks
  for something `process_request` throws on). `HInv` is stated connection
  by connection: the members are fresh until `send_response`, what each operation
  implies about the request, and what the error code of a queued handler says.
* `HTTPExchangeProofs`, from `ExchangeAssumption`: the exchange implements
  `HTTPClient` (`ExchangeImplementsClient`, step by step), so `CInv` holds in it
  and is not proved again; then type correctness, `AskedIsAnswered`,
  `CompletedIsWhole`, `HeaderlessIsEof` and `ThrowHasCause`, for any number of
  exchanges, any resources and any capacity. `EInv` adds to `CInv` what each
  operation of one side implies about the other: a Service that reads the headers
  has got the request line, a client that reads the body has found headers in the
  response; what it takes for a callback to be given each error code (`EndsWith`);
  and that a connection is reset only by a client that has left after a cancel.
  The Service's own invariant does not carry over as it stands, because here the
  request may be cut while the Service reads it; `ServerInv` replaces it.
* `SyncServerProofs`, from `SyncAssumption`: type correctness, `ResponseIsWhole`, `OneLateClient`,
  `ContextOutlivesThreads`, `ConnectHandledOnce`, for any number of clients and
  each kind of server. `YInv` says where the one thread of a server is while a
  client is served, what has been sent when a client or a `HandleClient` has come
  to a certain point, and that nobody is late while `m_stop` is not set or the
  thread of `Run` is in `accept`.

Each of these invariants was checked with TLC as an invariant of a small instance
before it was proved; `EInv` also with two exchanges, which the runs do not have.
The proofs found one flaw of a model: the cases of `ClientSees` in `HTTPExchange`
overlapped for a write on a reset connection, where TLA+ leaves the choice open
and TLC takes the first case. The reset is now looked at before the cases.

`CallbackOnce`, `VerdictFaithful`, `DeletedIsAnswered` and `WireIsMessage` are not
in a configuration: the theorems cover them, and the runs check stronger or deeper
properties. For the same reason the type invariants are in no configuration; all
of them are proved, that of `RequestSpec` excepted, which has none.

Only model-checked: everything under fairness (`AnsweredUnlessDeadlocked`,
`CloseReturns`, `StopReturns`, `TalkersAreServed`, `BothEnd`, the liveness of the
HTTP modules, `ClientsEnd`, `EndsUnlessLost`), since liveness and ENABLED are
outside what the prover does. Every invariant and every action property that a
passing run checks is also a theorem.

## Not modelled

* The contents of messages, printing, the emulated computation, the layout of
  buffers: no property depends on them.
* Chapter 1 and the buffer programs of chapter 2: straight-line programs.
* What OpenSSL does inside the handshake: certificates, keys, the password callback.
* Exceptions of allocation and of thread creation; those of `open` and `listen` only
  in `SyncServer`.
* The loop of the constructor of `AsyncTCPClient` that creates the threads: with an
  8-bit counter and 255 threads it does not end; the models take the threads as
  given.
* A second connection in `HTTPExchange`: the components are checked with two, their
  composition with one, since connections share nothing but the two processes; the
  theorems about the composition are for any number.
* Two things the network does in the models and not quite so in reality:
  `SyncServer.Establish` may make a connection although an earlier attempt was
  refused, and in `HTTPClient` no operation succeeds on a connection once it is
  reset, although bytes that came before may still be delivered. The first only
  adds behaviours; the second takes away none that ends differently, since a reset
  may also come after the operation.
* Two `cancel`s and an `async_connect` on one socket object at the same moment
  are interleaved, as if the socket were internally synchronised.

## Plan

1. Theorems about `RequestSpec` alone, carried over to the TCP client through
   `ClientImplementsRequest`.
2. The server's side of `HTTPExchange` as an implementation of `HTTPService` with
   a request that may be cut, so that `ServerInv` and `HInv` become one invariant.
3. Action properties of the servers (what a step after `Stop` may never do) as
   theorems from `SInv` and `YInv`.
