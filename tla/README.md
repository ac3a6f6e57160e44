# A TLA+ model of jsonrpc2

This directory holds a verification project for the Go package `jsonrpc2`, a
JSON-RPC 2.0 client and server library: TLA+ modules that model its concurrent
parts, TLC configurations that check them on small instances, and TLAPS proofs
of the main results for every size. `PROJECT.json` records, for every
definition, the source lines it models.

## 1. The system

| Component | State | Operations | Hard behaviour |
|---|---|---|---|
| `RPCServer` (rpcserver.go) | options, a codec, the contexts of one `Run`, the goroutines of its requests | `Run`, `run`, `runRequest(s)`, `handleRequest`, `Close` | request and batch goroutines; two shutdown orders; errors of the reply; panics; a peer that stalls |
| Stream codec (encoder.go, decoder.go) | a `json.Encoder`/`Decoder` with sticky errors, an idle timeout, a read limit | `Encode`, `Decode`, `SetLimit`, `Close` | a deadline or `Close` from an `AfterFunc` that races the operation it interrupts; a limit per call on a reader that buffers across calls |
| Packet codec (packetencoder.go, packetdecoder.go) | a shared `net.PacketConn` | `EncodeTo`, `DecodeFrom` | one deadline for many replies and no lock |
| `TransportClient` (transportclient.go) | a codec and a mutex | `call` behind every `Call*` and `Notify*`, `Close` | no matching of IDs; abandoned calls; waiting for the mutex |
| `ClientPool` (clientpool.go) | a puddle pool, an idle timer, `closed` | `Call*`, `Notify*` with retries, `Reset`, `Close`, the timer callback | retries on dead connections; the reaper, `Reset` and `Close` racing callers |
| `Client`, `BatchBuilder` (client.go, batchbuilder.go) | an atomic 32-bit request ID, a pool | `Call`, `Notify`, batches | ID wrap-around |
| `Server`, `Binder` (server.go, binder.go) | listener or packet connection, one `RPCServer` per connection or routine | `ListenAndServe`, `Serve`, `ServePacket`, `listenAndServeHTTP` | cancellation of active connections; a connection shared by routines |
| `HTTPHandler`, `HTTPBridge` (httphandler.go, httpbridge.go) | a response buffer; the stored HTTP response | `ServeHTTP`; `Encode`, `Decode` | which status or body an error leads to |
| `MethodMux` (handler.go) | a `sync.Map` and a default handler | `Register`, `Replace`, `Delete`, `SetDefault`, `Handle` | lookup is two loads |
| `Batch`, `BatchCorrelate`, `ID` (batch.go, id.go) | none | correlation of responses with requests | duplicate IDs; an equality across types |
| Message types, `Dial` (jsonrpc2.go, error.go, dial.go) | none | marshalling, connecting | none |

How they interact. A `Server` runs one `RPCServer` per connection (or several
on one packet connection); each decodes messages, runs handlers and encodes
replies through a codec. A `Client` draws `TransportClient`s from a
`ClientPool`; each exchange is one frame out and, for calls, one frame in, on a
connection whose other end is an `RPCServer`. Contexts tie it together: the
codec turns the end of a context into a deadline on, or the closing of, the
transport.

What makes the parts correct:

* server: every message is answered once, reported or owed nothing; frames are
  complete; options keep their promises about order and shutdown; `Run` returns
  and leaves nothing running;
* client: a call gets its own response unless a notification has been answered; on
  a connection that failed no later call is answered; cancellation frees the caller
  and the mutex;
* codecs: an operation is interrupted by its own context and by nothing else,
  and leaves nothing behind that could strike the next one;
* `Server`: a cancelled context, a failed accept or (for packets) the end of one
  routine ends the whole call, nothing is left running when it returns, and
  connections cannot harm each other;
* batches: a response reaches the request it answers, whatever the order, the wrap
  of the ID counter and the types of the IDs; correlation reports everything once;
* HTTP: a call gets the response to its own POST or an error; a 2xx response has one
  frame for each message that is owed one, and any other status has a cause;
* `MethodMux`: a request goes to a handler that was in place while it was looked up;
* pool: a connection has one user; tokens are neither lost nor made; failed or
  condemned connections do not come back; retries are bounded; `Close` is final.

`PROJECT.json` lists under "hazards" the places where these can go wrong and a
test would hardly see it.

## 2. Modules

* **RPCService** is the abstract specification of `Run`: messages are received
  while serving, each is settled once (answered, lost, quiet), none that is
  owed a response is settled in silence, and the service closes only when
  nothing is pending.
* **RPCServer** models one `Run`. The loop is `loop` (`decode`, `drain`,
  `returned`), a message being processed is a *task* (`msg`, `pc`), each entry of a
  message has a `slot` (`todo`, `handling`, `done`), `resps` is the slice
  `resps` of `runRequests`, `out` the frames on the wire. `DecodeMessage`,
  `DecodeFails` and `DecodeInterrupted` are the outcomes of `DecodeFrom`;
  `HandleInvalid`, `HandleCall` and `HandlerReturns` are `handleRequest`; the
  `Reply...` actions are the outcomes of `EncodeTo` with what follows it;
  `LeaveLoop` and `Shutdown` are the deferred function. `rp` holds the options
  and the kind of transport: with deadlines (`net.Conn`, `net.PacketConn`), only
  closable, or plain. `RPCServer` implements `RPCService` (`ImplementsService`).
* **TransportClient** models one client shared by callers, the two directions of
  its connection as queues, and a server that reads, answers, stays silent or
  leaves. `Lock` to `Return` is the critical section of `call`. Nothing in the client
  looks at what a message carries, so the server may answer any of them: a
  notification whose handler panics, an empty `NotifyBatch`, a `NotifyRaw` with an ID.
  `unasked` records which messages it has answered though nobody waits.
* **ClientPool** models the retry loop of an operation (`check`, `acquire`,
  `lookup`, `dial`, `send`, `await`, `done`), the life of a connection (`dialing`,
  `used`, `idle`, `reaped`, `destroying`, `dropped`), the reaper and `Close`.
  Puddle is not part of the repository: its semaphore, its closed flag, its
  asynchronous destruction and its reset generation are modelled from how
  clientpool.go uses it and marked external in the map.
* **CancellableIO** models the steps inside one codec operation, common to
  `cancelEncode`, `cancelDecode`, `EncodeTo` and `DecodeFrom`: clear the deadline,
  arm the `AfterFunc`, read or write, stop the `AfterFunc` or wait for it. An
  instance is one direction of one connection. Its lock (`fd`) is Go's own: one
  reader and one writer at a time, the others queue.
* **ReadLimit** models `SetLimit` and the `LimitedReader` of the stream decoder under
  a buffering `json.Decoder`: a stream is the ends of its messages in bytes, and
  every way in which reads can cut it is a behaviour.
* **ServerContext** is the caller's context, all that the next three share.
* **Serve** models the accept loop, its `WaitGroup`, the goroutine of each
  connection, the `Binder` and the closing of the listener. Each connection
  stands for one request, and its `RPCServer` is reduced to what the model of
  `RPCServer` shows of `Run`: it leaves its loop when its peer or its context ends,
  or when its own `Decode` fails with the peer still there (`DecodeFails`: a syntax
  error, the idle timeout, a message over the limit), and a reply may fail to be
  written (`EncodeFails`).
* **ServePacket** models the `PacketRoutines` goroutines on one packet connection,
  the channel of their errors and the way the first to end stops the rest. There
  is at least one routine; with `PacketRoutines = 0` the code returns at once and
  leaves the connection open, which is not modelled.
* **ServeHTTP** models `listenAndServeHTTP`: the goroutine that waits for the
  context, the graceful shutdown with its timeout, the forced close. `net/http`
  is external.
* **ListenAndServe** composes them: the scheme decides which one runs, and
  listening may fail.
* **ID** has the equality of IDs and what decoding makes of them, as operators.
  **BatchExchange** models one batch from `BatchBuilder.Add` to the loops of
  `BatchCorrelate`, with other users of the same ID counter.
* **MethodMux** models the two loads of `Handle` for one method and the operations
  that change what they load. **HTTPHandler** extends it with `ServeHTTP`: the
  body, the inline `RPCServer` (one message after the other, entry by entry), the
  buffer and the status. `read` and `entry` count the messages decoded and the entries
  handled; `failed` is a history of what handlers did (a panic, a result that cannot
  be encoded), from which `Owed` says, without looking at what was written, which
  messages are owed a frame. **HTTPBridge** extends that with the client's side:
  `Encode`, `Decode` and `Close` under the mutex of `TransportClient`, and the
  network between the two. `http.Client` and `http.Server` are external.
* **MCRPCServer**, **MCTransportClient**, **MCClientPool**, **MCCancellableIO**,
  **MCBatchExchange**, **MCReadLimit** and **MCHTTPBridge** give TLC its instances;
  `ListenAndServe` and `Serve` are run as they are.
* **RPCServerProofs**, **TransportClientProofs**, **ClientPoolProofs**,
  **CancellableIOProofs**, **ReadLimitProofs**, **ListenAndServeProofs** (for `Serve`,
  `ServePacket`, `ServeHTTP` and their composition), **HTTPBridgeProofs** (for
  `MethodMux`, `HTTPHandler` and `HTTPBridge`) and **BatchExchangeProofs** hold the
  theorems.

Operators introduced by "Mutant:" are variants of a definition with a plausible
bug. They are used only to show that each checked property would catch one.

Data abstraction: a message is its shape and what each entry is (a call, a
notification or an invalid entry); a response is the entry it answers and how
it came about (returned, panicked, cannot be marshalled); in the client a
message is the name of its caller. In `RPCServer` and `TransportClient` an
`EncodeTo` or `DecodeFrom` is one step with several outcomes. `CancellableIO` says
why that is right for streams: an operation fails by its own context only
(`StreamOwnDeadline`), leaves nothing behind (`NothingOutlives`) and does end
(`InterruptedEnds`). For packets it is not quite right, so there the outcomes
include a timeout that hits another reply and a datagram that leaves although an
error is returned, and fairness does not promise that a reply with an idle
timeout ends. In `HTTPHandler` a body is the sequence of its messages and the way
it ends (an end of input, one inside a message, a syntax error, the limit, any other
error of the reader), a frame is the POST it was written for and the number of the
message it answers; a response that the client
cannot parse is one of more or less than one whole frame. In `BatchExchange` IDs are
typed (`int64`, `json.Number` with its spelling, string, null, absent), because their
equality is not the same for all types, and decoding turns a number into a
`json.Number`.

## 3. Runs

| Run | Checks | Shows |
|---|---|---|
| `server` | EverythingSettled, GracefulShutdown, InOrder, QuietAfterReturn, ImplementsService, CancelReturns, InputEndReturns | two concurrent requests, every option and kind of transport: nothing is lost unnoticed, the shutdown keeps its promises, `Run` returns |
| `server_batch` | FrameComplete, SerialInOrder | one batch of up to three entries, every kind of entry and outcome |
| `client` | ResponseMatches, SpentAfterFailure, CancelledReturn | two callers, every operation and transport, with and without an idle timeout: own responses as long as no notification is answered, none after a failure, and cancellation frees callers and mutex |
| `pool` | ExclusiveUse, FailedNeverReused, TokensConserved, CloseIsFinal, RetryBudget, ResetCondemns, EverythingEnds, ReaperLives | a call and a notification on a pool of two, with retries, `Reset`, `Close` and the reaper |
| `io` | StreamOwnDeadline, NothingOutlives, InterruptedEnds | two goroutines on one direction of a connection, all four codecs |
| `limit` | ExcessBounded, FittingNeverRefused | streams of up to three messages, however reads cut them: what fits is never refused, what is accepted is shorter than twice the limit |
| `listen` | NothingLeft, ConnectionsAreIsolated, PacketNothingLeft, ChannelFits, CutOnlyAfterTimeout, CancelEnds, AcceptErrorEndsServe, FirstEndsAll, HelperEnds | `ListenAndServe` with every kind of scheme: the end of the context ends the call, the listener and everything it started |
| `batch` | OwnResponse, CorrelationExact | a batch across the wrap of the counter, answered in any order, in part and with strays: no request gets another's response, and `BatchCorrelate` agrees with its definition |
| `http` | OwnHTTPResponse, StatusTells, RoutedWhileRegistered, ExchangeEnds | two operations on one `HTTPBridge`, or one and another client's POST: own responses only, a frame for each message that is owed one, cancellation ends the exchange on both sides |
| `server_notify` | NotificationSilent (violated) | a panicking notification is answered |
| `io_lost` | TimeoutEnds (violated) | a packet reply loses its timeout to another reply |
| `serve_active` | ActiveConnectionsFinish (violated) | cancelling `Serve` costs an active connection its response |

`CorrelationExact` is stated for unambiguous batches only (`Unambiguous`): the IDs of
a batch drawn less than a whole turn of the counter apart, no two of the caller's
own equal, no stray with a request's ID. Anything else is beyond what an ID can
tell. It is checked against `Reference`, the set of reports a batch should lead to.

Bounds. Two requests are enough for every race between tasks, the loop and the
shutdown, which are pairwise; `server_batch` has three entries so that one can
finish while two are in different phases. Two callers let one abandon a call and
the other be misled by its response, or wait for its mutex; `IdleTimeouts` has both
values, since with an idle timeout an operation ends without its context and only
without one does `CancelledReturn` depend on the context alone. The pool has two
callers, two connections and two names for them, one retry each; the context of
the notification never ends (`Patient`), so that its progress shows what the pool
does by itself. A connection is dialled again under a name that is free. In `io`
each goroutine performs operations for ever, which is what lets one operation meet
what an earlier one left; the packet encoder has an idle timeout there and the
packet decoder has none, so that both cases occur. In `listen` two connections
show isolation and counting, three packet routines let one end, one be at work and
one be about to start, and three HTTP requests let one finish, one be cut and one
come too late. In `limit` messages have lengths and streams ends that put every
boundary (below, at, one above and twice the limit) within reach of limits 0 to 3.
In `batch` the counter has three values (`IDSpace`) and is drawn from up to four
times (`MaxDraws`), so that it wraps within a batch of two and a full turn between
two requests happens as well. In `http` two POSTs are two operations of one client
(a call with a call, notification or `Close`), or a call and another client's POST
with one of the bodies `MCOtherBodies` lists, which end in every way a body can;
what the client's own POSTs carry is in `Payloads` (a notification also as the empty
batch, which is answered); the mux changes up to twice
(`MaxChanges`) for one handler and one default, and the context of one POST
(`Stoppable`) may end on the server: what two cancelled requests do to each other is
nothing, since they share only the mux.

Every caller of the client and the pool performs one operation. `MaxMessages`,
`MaxBatch`, `MaxDraws`, `MaxChanges`, `Stoppable`, `Callers`, `Conns`, `Routines`,
`Requests`, `Posts`, `Payloads`, `OtherBodies`, `Streams` and `Limits` are the only
bounds; what is proved (section 4) holds without them. No symmetry is used. Deadlock is checked in every
run but `http`, where all operations may be over: elsewhere the only final states
are the ones `Terminated` or `Failed` names, or the specification goes on for ever.

Fairness. In `server` goroutines that can run do run, a context that is done does
interrupt a read (the `AfterFunc` goroutine runs), handlers return, and nothing
is assumed of the peer or the caller: a stalled peer may stall for ever. In
`client` each client goroutine takes its steps; the server may never answer. In
`pool` dials end (they have a timeout), a connection answers or fails, the
semaphore is fair (puddle's is first come, first served), timers fire, and a
`Close` that has begun goes on; `EverythingEnds` therefore says that the pool itself
never strands a caller, not that a silent server answers. In `io` goroutines run,
time passes and the lock of the descriptor is handed on in order (strong fairness
of `Enter`); the peer may do nothing. In `listen` listening does not block, `Run`
returns once its context is done (`CancelReturns`) and handlers of connections
return; `Accept` fails only once the listener is closed; time passes, and HTTP
handlers need never return. In `http` the goroutines of the client and of
`ServeHTTP` run and handlers return; the network promises nothing, except that the
body of a POST that `ServeHTTP` has been given can be read to its end.

## 4. Proofs

Every safety invariant that a passing run checks is also a theorem, and so are the
action property `QuietAfterReturn` and the refinement `ImplementsService`. The
theorems hold for every value of the constants that satisfies the `ASSUME`s of the
modules, which say what kind of thing a constant is (a set of callers, a number) and
that `NoOne`, `None` and `Nobody` are none of the things they stand beside; sets of
connections and packet routines are finite, because they are counted;
`BodiesAssumption` says that a POST of another client is some body, of any number of
messages with any entries, and `PayloadsAssumption` that what the client posts is any
message. No theorem has a hypothesis of its own. Each inductive invariant was first checked by TLC on the instance of its run.

`RPCServerProofs`, for every set of configurations, number of messages and batch
size: `TypeCorrect`, `FramesAreComplete`, `RunSettlesEverything`,
`ShutdownIsGraceful`, `OrderIsKept`, `BatchOrderIsKept`, `RunReturnsQuiet` and
`RunImplementsService`. None of these is inductive. The invariant is `IndInv`: tasks
are numbered by the messages decoded (`Numbered`); the responses collected are those
of the entries done (`Collected`); an ended task has all entries done and an end that
fits its responses (`Ended`); the wire has each frame once (`Wire`); who may still run
when (`Stopping`: in particular a task the loop runs inline is the last one decoded,
which is what gives `InOrder`); a serial batch is handled from the front
(`FromTheFront`). `FrameComplete`, for example, follows from `Collected` and `Ended`,
and the refinement from `Ended`, `Stopping` and `Numbered`: a task that ends silent
has no response, so by `Collected` nothing was owed.

`TransportClientProofs`, for any number of callers: `ClientTypeCorrect`,
`CallGetsItsResponse` and `FailureIsFinal`. `ResponseMatches` itself says what it depends
on: that nothing has been answered that nobody waits for (`unasked`; see finding 1). The argument of `ClientInv`: each message exists once and in one
place (`Once`); whoever is in an exchange holds the mutex (`Exchanging`); while the
decoder works the only call in flight is the one its caller is waiting for
(`OnlyTheCurrent`), because an abandoned call leaves its error in the decoder.
`SpentAfterFailure` needs more: that a failed exchange leaves an error in the encoder
or the decoder or a closed connection, and that nobody waits for a response on an
encoder that has failed (`Spent`). It holds whatever the server answers, and it is about
calls: after a failed `Decode` a `Notify` may still be written and return without an
error.

`ClientPoolProofs`, for any number of callers, any finite set of connections, any
`Retries` (negative ones included) and any size of the pool: `ConnectionsAreExclusive`,
`FailedAreDestroyed`, `TokensAreConserved`, `ClosingIsFinal`, `RetriesAreBounded` and
`ResetReachesAll`, all from `PoolInv`. `Holding` ties what a caller holds to where it is
and to a state of the connection that no other action hands out, which gives
exclusiveness. `Counted` says where each token of the semaphore is: free, with a
connection that is dialled, used or being given up, or with a caller that has it
and has yet to find a connection. The size of the pool does not follow from that
alone, since idle connections hold no token and those that the reaper has taken do;
the second conjunct bounds both together and is what a dial in `lookup` relies on.
`Budget` relates what was sent to what was lost by position in the retry loop. `Shut`
relates `closed`, puddle's own flag, the mutex and the timer: a callback of the timer
that `Stop` came too late for finds `closed` set under the mutex.

`CancellableIOProofs`, for any number of callers and any choice of codecs, transports
and timeouts: `StreamsFailOnTheirOwn` and `OperationsEndClean`. A past deadline stays
on a connection after the operation it ended, so `StreamOwnDeadline` is not
inductive. `IOInv` adds that a stream has one user (`Exclusive`), that an `AfterFunc`
which may still act belongs to a running operation and has acted only if that
operation's context is done (`Armed`), and that after the deadline is cleared only
the operation's own `AfterFunc` can have set it again (`Cleared`).

`ListenAndServeProofs` first proves the parts. `ServeLeavesNothing` and
`ServeIsolates`, for any finite set of connections: the counter of the `WaitGroup` is
the number of live goroutines (`Counted`, by the cardinality theorems), a handler
belongs to a live goroutine (`Handling`), and while `Serve` accepts under a live
context it has not called stop and no connection has left its loop but for a reason
of its own, its peer, its Binder or its codec (`Untouched`, `OwnReason`). `PacketLeavesNothing` and `ErrorsNeverBlock`, for any
finite number of routines: the channel holds one error per routine that is done
(`Collected`), so a routine that is not yet done finds room. `CutsWaitForTimeout`, for
any set of HTTP requests. Then the whole, `ListenKeepsPromises`, from the
specification that run `listen` checks: every server but the chosen one stays idle,
no action of an idle server can happen but the cancelling of the context, and that is
a step, or none, of the chosen one (`ListenInv`).

`HTTPBridgeProofs`, for any number of POSTs, any bodies and any number of changes to the
mux: `LookupsAreCurrent`, `StatusIsTrue` and `ResponsesAreOwn`, from `BridgeSpec`. Each
step of the whole is a step, or none, of the mux, of the handler and of the bridge
(lemma `Moves`), so `BridgeInv` has a part for each. For the mux, a lookup
between its two loads found nothing in the first, and the default it is about to load
is one of those in place since it began. For the handler, the buffer has, in order, a frame for exactly those of the messages
read so far that are owed one (`Settled`), the responses gathered for the message in
progress are what its entries so far and the failures of their handlers call for
(`Answering`), and all that a POST has written is its own (`OwnFrames`). For the
bridge, whoever is between `Encode` and the end of `Decode` holds the mutex, and the
response the bridge keeps meanwhile is that of its POST (`Exchange`).

`BatchExchangeProofs`, for batches of any size, counters of any width and any IDs:
`ResponsesGoHome` and `CorrelateIsExact`. `BatchInv` says of the counter that a drawn ID
is as far behind it as draws have been made since, once around or not (`Behind`), and
hence that two of a batch differ unless a whole turn lies between them (`Apart`): linear
arithmetic instead of `%`. Responses have the decoded ID of their request and answer
each at most once (`Echoed`); what is reported with a request has an ID that equals
its own (`Matched`); at each turn of the loops `processed` and the calls made are sets
determined by the position (`Loops`). The lemmas on IDs carry the rest: equality is
symmetric, an ID that is not zero equals what it is decoded to, and nothing equals
the echo of an ID that does not equal the ID. What `Index` returns (an element that
matches if there is one) rests on the well-foundedness of the natural numbers.

`ReadLimitProofs`, for any streams and limits: `NeverTwiceTheLimit` and
`FittingIsAccepted`. Neither is inductive: what a call may still accept depends on
what earlier calls have buffered. `LimitInv` adds that between calls the buffer holds
less than the limit (`Idling`), and that within a call the buffer and what may still
be read are together below twice the limit, but at least as much as the limit as
long as the message is incomplete (`Reading`).

Only model-checked: the liveness properties (`CancelReturns`, `InputEndReturns`,
`CancelledReturn`, `EverythingEnds`, `ReaperLives`, `InterruptedEnds`, `CancelEnds`,
`AcceptErrorEndsServe`, `FirstEndsAll`, `HelperEnds`, `ExchangeEnds`), which with ENABLED
are beyond the prover.

## 5. Findings

With a run:

1. A notification whose handler panics is answered (rpcserver.go:197), against
   the comment of `handleRequest`. A `TransportClient` matches no IDs, so it gives
   such an answer to its next call: hence the condition in `ResponseMatches`.
2. `EncodeTo` of the packet codec clears the shared write deadline without a lock
   (packetencoder.go:92) and can undo the timeout of a concurrent `EncodeTo`,
   which then waits for as long as the socket blocks.
3. Cancelling the context of `Serve` cancels active connections (server.go:331),
   whose requests can lose their responses; the comment of `ListenAndServe` says
   they may finish.

Seen in the models, without a run of their own:

* The same happens after a notification that the server must answer: nothing stops an
  empty `NotifyBatch` (answered as an invalid request, rpcserver.go:259) or a
  `NotifyRaw` whose object has an ID or is invalid, and the next call on the
  connection takes that frame.
* Without `WaitOnClose` a syntax error, an oversized message or an idle timeout on a
  connection cancels the requests that are being handled there, and their responses
  are lost although the peer is still reading.
* `WaitOnClose` does not protect replies from the cancellation of the context
  given to `Run` (`GracefulShutdown` needs a live context), although a comment in
  `TestRPCServer_Run_WaitOnClose` expects it.
* A retry of `ClientPool` takes an idle connection before it dials, so it need not
  use "a new connection"; a reset connection or a broken pipe is not retried,
  which the documentation of `Retries` suggests.
* The idle timeout of one `DecodeFrom` fails the concurrent `DecodeFrom` of another
  routine (`OwnDeadline` holds for streams only).
* `ListenAndServe` of an http URI returns when the shutdown begins, while requests
  are in progress (server.go:273).
* `SetLimit` says that an object over n bytes is refused. The limit counts what one
  `Decode` reads from the transport, so an object that begins in the buffer may have
  up to 2n - 1 bytes (`ExcessBounded` is exact), and white space before an object
  counts: an object of n bytes after a newline is refused. `SetLimit` after the
  first `Decode` drops what is buffered. After `ErrJSONTooLarge` the next `Decode`
  says EOF.
* `ErrHTTPEmptyResponse` is documented for 2xx responses; the handler's own 413 and
  500, of JSON type and without a body, lead to it as well. A result that cannot be
  encoded is a 204 to the client. A syntax error in the body is a 500 whose parse
  error has been written to the buffer and is then dropped, with the responses to the
  messages before it; so is any other error of reading the body. `Notify` over HTTP does not look at the status.
* `MethodMux.Handle` may answer `ErrMethodNotFound` although at every moment the method
  or a default was set: `RoutedWhileRegistered` says only that each was absent at some
  time during the lookup.
* `ListenAndServe` hands `unixpacket`, a connection-oriented network, to
  `net.ListenPacket`.
* `errors.As` stores into the package variable `errMaxBytes` from concurrent HTTP
  requests (httphandler.go:136). Nothing reads it.

## 6. Not modelled, and the plan

Not modelled: message types and their marshalling, the choice of a network by
`Dial` (no state), logging and formatting, the user's handlers and callbacks beyond
their outcome. Within modelled parts: malformed JSON under a read limit, the limit
of the packet decoder (it only sizes a buffer), `PacketRoutines = 0`, HTTP
redirects, which may repeat a POST, and the idle reaper with real time, which is
what its construction race (clientpool.go:176) would need.

What is left is smaller: named statements of what the components promise each other
(that `Run` as `Serve` uses it is what `RPCService` allows, for one), and action
properties of the pool and of the codecs next to their invariants.
