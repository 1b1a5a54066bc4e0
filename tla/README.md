# Electrum client SDK in TLA+

A model of `electrum-sdk`: the asynchronous client of src/client.rs, which keeps
a connection to an Electrum server alive and multiplexes requests over it. It
holds TLA+ modules, TLC configurations and machine-checked proofs. Line numbers
such as client.rs:254 refer to the repository's `src/` directory.

## The system

`Client` is a handle of shared cells, cloned freely. There is no central task;
whatever coordination there is happens through the cells.

| Component | State | Operations |
| --- | --- | --- |
| Connection lifecycle (client.rs:204-557) | `status` (mutex), `scheduled_for_stop` (atomic), `addr` and `proxy` (two locks), the event channel (mpsc, 1024) and its receiver (mutex) | `connect`, `start`, `stop`, `change_address`, the auto-connect loop, `try_connect`, `disconnect`; the sender, receiver and pinger task of each connection |
| Requests and responses (client.rs:559-704, 909-930) | `last_id` (atomic), `inventory` (mutex), the oneshot of each timed call, the notifications (broadcast, 1024) | `send_msg`, `send_batch_msg`, `get_response`, `get_batch_response`, `call` and the methods built on them |
| Subscriptions (client.rs:105-126, 734-844) | `headers` (atomic), `scripts` (mutex) | subscribe, unsubscribe, batch subscribe, and resubscription in `try_connect` |
| Dialing (net/mod.rs, net/socks.rs) | how far a dial has got | prefix and domain of the address, TCP or SOCKS5 dial with a timeout, TLS handshake |
| Messages and types (types/mod.rs, types/method.rs) | none | `to_response`, `to_notification`, the untagged parse, method names, header slices |
| Stream (net/stream.rs), crate root, examples | none | delegation, re-exports, sample programs |

How they interact. `connect()` checks the status and spawns the **loop**, which
every 20 s reads the stop flag and the status and dials on `Disconnected` only.
A dial spawns a **sender**, which takes events (requests, `Close`, `Stop`) out of
the one channel that all connections share; a **receiver**, which reads the
socket, decodes an answer with the request of the inventory, broadcasts it, and
at the end of the stream queues `Close`; and a **pinger**. A call takes an id,
files the request in the inventory, queues the event, waits for the sender's
acknowledgement if it has a timeout, and subscribes to the broadcast to wait for
its answer. On a new connection `try_connect` repeats the subscriptions, within
the loop's own task.

What is hard: the status is written by five kinds of task, the flag by four;
`Close` and `Stop` name no connection; a full channel drops events; subscribing
comes after sending; a write failure, an end of stream and a stop race for the
same status; the loop runs code that waits without a timeout. PROJECT.json lists
each hazard at its line.

What makes the components correct:

- lifecycle: the client is connected only if somebody serves the connection; it
  dials again after every loss; one loop, one served connection; `stop` and
  `change_address` finish and do what they say; the address is not torn;
- requests: ids are unique, an answer can be decoded and reaches its own caller,
  nothing is written twice, a failed send is not written later, timed calls end;
- subscriptions: on every connection the server gets what the application may
  rely on, and nothing that was taken back;
- dialing: every phase ends, and TLS is used when the address asks for it;
- messages: an answer is decoded as what its caller waits for, whatever the
  server sends, and no line stops the receiver from reading the next one.

## Modules

| Module | What it is |
| --- | --- |
| `Lifecycle` | the connection lifecycle, one action per step between two points where another task can interfere |
| `KeepAlive` | abstract: what an application that never stops the client may rely on |
| `MCLifecycle` | `Lifecycle` for TLC, and `KeepAlive` instantiated with `status` and "some connection is in service" |
| `Lifecycle_proofs` | theorems about `Lifecycle`, checked by TLAPS |
| `Requests` | ids, inventory, event channel, acknowledgements, broadcast and timeouts |
| `Requests_proofs`, `Rpc_proofs` | theorems about `Requests`, and that it implements `Rpc` |
| `Rpc` | abstract: an id stands for one request of one call, answered once at most; a call that ends with its answers has all of them |
| `MCRequests` | `Requests` for TLC, and `Rpc` instantiated: an id is fresh from `lastId` on, open while it is in the inventory |
| `Subscriptions` | the flag and the set of scripts, the calls that change them, `try_connect`'s repetition, and what the server knows on each connection |
| `MCSubscriptions` | `Subscriptions` for TLC: which task uses which script |
| `Subscriptions_proofs` | theorems about `Subscriptions` |
| `Messages` | lines as far as decoding tells them apart, and the decoding: operators only |
| `Session` | one connection at a time, from the address to its last line: the dial and the receiver, with `Messages` |
| `MCSession` | `Session` for TLC: the lines that the server may send |
| `Session_proofs` | theorems about `Messages` and `Session` |
| `Change_proofs`, `KeepAlive_proofs` | further theorems about `Lifecycle`: what a change of address finds and leaves, and the steps of `KeepAlive` |

How they fit together. All of them model the same client, each with the others
reduced to what it sees of them. `Lifecycle` has requests as events without
content, and of the subscriptions only the flag, since repeating it may hold up
the loop. `Requests` and `Session` have connections that come and go at any
moment, which includes all that `Lifecycle` does. So has `Subscriptions`, but its
`try_connect` runs once at a time: it covers what `Lifecycle` does as long as one
task or loop dials, which `OneLoop` and `KeepAlive` say of an application of one
task that does not stop the client. The inventory of `Requests` says that an id
can be decoded, that of `Session` to what.

Operators named `Wrong...` are variants of the definition that follows each of
them, with one plausible mistake. No specification uses them; each property is
known to fail when the mistaken variant takes the place of the right one
("mutants" in PROJECT.json).

### Lifecycle and the code

| Variable | Code |
| --- | --- |
| `status`, `scheduled`, `headers`, `addr`, `proxy` | the cells of `Client` of these names; an address is the number of the call that set it |
| `chan` | the mpsc channel, oldest event first, capacity `ChanCap`; `by` remembers who sent an event, for the properties and for the answers only |
| `rxQueue` | the tasks at `receiver.lock()` (client.rs:412); the tokio mutex is fair, its head holds the lock |
| `pc`, `local` | where each application task and each loop stands, and the address and proxy it has read (or is to write) |
| `snd`, `rcv`, `sock`, `peer`, `asked` | sender, receiver and socket of each connection, what it was dialed with, header subscriptions written and not answered |

| Actions | Code |
| --- | --- |
| `Connect`, `CheckStatus`, `SetDown`, `SpawnLoop` | `connect(wait)`, and `start()` = `connect(false)` (246-263) |
| `LoopTop`, `LoopSetStopped`, `LoopClearFlag`, `LoopCheck` | the loop (263-291); the 20 s sleep is the time it may stay at "top" |
| `ReadAddr`, `ReadProxy`, `SetConnecting`, `DialOk`, `DialFail`, `ResubscribeHeaders`, `SubscribeAnswer`, `LagAnswer`, `ResubscribeScripts` | `try_connect` (295-528), by a loop or by `connect(true)` |
| `CallStop`, `ReadStatusForStop`, `SendStop` | `stop()` (550-557) |
| the same, `SubscribeStop`, `LagStop`, `WriteAddr`, `WriteProxy`, `Restart` | `change_address()` (204-230) |
| `LockReceiver`, `TakeMsg`, `WriteFails`, `TakeClose`, `TakeStop`, `SenderSetStatus`, `SenderClearFlag`, `SenderNotify`, `SenderExit` | the sender (410-510) |
| `Answer`, `ReadEof`, `ReceiverReadStatus`, `ReceiverSendClose`, `ReceiverAborted` | the receiver (325-407) and `disconnect()` (541-547) |
| `ReceiverPanics` | the receiver ends without `disconnect()` on an answer that counts more headers than it has (types/mod.rs:275, client.rs:346); what that answer is, is in `Session` |
| `Ping`, `QueueRequest`, `SetHeaders` | the pinger, any request, `block_headers_subscribe()` |
| `PeerClose`, `DropSocket` | the server or the network closes the socket; both halves dropped |

An abort takes effect at the next poll of the aborted task, so a receiver may
take its last steps after its sender is gone; `ReceiverAborted` is a separate
action for this reason. A write to a socket that the server has closed may
succeed (the bytes are lost) or fail.

### Requests and the code

`call[k]` is the call in progress of task k with its locals: the ids, the
oneshot, the subscription (`queue` and `lagged`) and the ids still missing.
`Uses` says which task makes which kind of
call. `Assign`, `Insert` and `Send` are `send_msg` and `send_batch_msg`, `TakeAck` and
`AckTimeout` their wait for the oneshot; a batch holds the inventory's lock from
its first id to its last insert. `Subscribe`, `Receive`, `ReceiveLagged` and
`AnswerTimeout` are `get_response` and `get_batch_response`. `Write` and
`WriteFails` are the sender; `Answer` and `Notify` the receiver. `Publish` is
tokio's broadcast: a subscription that is full loses its oldest item, and its
next `recv` fails. `Reconnect`, `Break` and `CloseLink` stand for the whole of
`Lifecycle`. An answer is read in the step in which the server gives it; one
that is in flight when the connection breaks is either read before or lost.

### Subscriptions and the code

`headers` and `scripts` are the two cells of `ActiveSubscriptions`; `call[u]` is
the request that a call of task u has prepared and will send in its next step,
after the lock of the set is released. `SubscribeHeaders`, `SubscribeScript`,
`SubscribeBatch` and `UnsubscribeScript` are the calls (745-843), `Send` and
`Refused` the two outcomes of `try_send`. A call that returns early
(AlreadySubscribed, NotSubscribed) has no step, except that a batch which stops
half-way leaves its first scripts in the set. `Dial`, `RepeatHeaders`,
`HeadersAnswered`, `CopyScripts` and `RepeatScripts` are the steps of
`try_connect` (303-519): it copies the set, releases the lock and queues the
batch. `Write` is the sender together with the server, which handles the requests
of a connection in order.

Two history variables are not in the code. `view` is what the application may
conclude about an item from the requests that the channel has accepted: "on",
"off", or "open" when it cannot tell, for example after a refusal. `owed` is
what `try_connect` has not repeated on this connection yet, or what its refused
batch never will be.

### Session, messages and the code

`Dial`, `Resolve`, `Reached`, `NotReached` and `Handshake` are the phases of
`net::connect` with its two ways to the server (net/mod.rs:31-112,
net/socks.rs). An address is its prefix, the kind of its host and whether there
is a proxy: an IPv6 literal has no TLS domain, since the domain is what precedes
the first colon. `ReadResponse`, `ReadNotification`, `ReadOther` and `ReadEnd`
are the loop of the receiver (client.rs:330-406), one step for each line, with
the untagged parse (`IsRequest`, `IsResponse`, `IsNotification`: the first that
fits), `ToResponse` and `ToNotification`. `Display` and `FromStr` are the two
tables of types/method.rs, each written out by itself. `answers` and `asked` are
history: what was broadcast for an id, and the method it was given to. The inbox
is what the server has sent and the receiver has not read; it may be any sequence
of `Lines`, also on a later connection.

## Runs

Deadlock is not checked: an application that makes no more calls, or that waits
for an answer, may rest in any state.

| Run | Question | Bounds | Result |
| --- | --- | --- | --- |
| `keepalive` | Does an application that only connects get the cycle of `KeepAlive`, one loop, one served connection, and a new dial after every loss? | 1 task, 2 calls, 2 loops, 2 connections, channel 5 with traffic up to 2 | holds, 12 478 states |
| `stop` | Does a stop end the loops, whoever consumes the flag? | 1 task, 2 calls of connect, start, stop, change; 2 loops, 1 connection, channel 3; failing writes, panics, lag | holds, 711 272 states |
| `change` | Is an address changed only between connections, and used afterwards? | 1 task, connect and one change; 2 loops, 2 connections, channel 2; headers, requests, failing writes, panics, lag; symmetry of loops and connections | holds, 1.47 M states |
| `subscriptions` | Does the server get what the application may rely on, and nothing else? | 1 task, 2 scripts and the headers, batches of 1 and 2, channel 2 | holds, 454 839 states |
| `session` | Is the stream of an address what it asks for, does a dial end, and are lines decoded as their callers expect? | 2 ids, 3 methods, 16 lines and 2 ends of a stream, 2 lines unread | holds, 318 076 states |
| `requests` | Do calls implement `Rpc`; are requests written at most once; do timed calls end? | 2 tasks, one with batches of 0 to 2 and calls, the other with calls, pings and sends; 3 ids, channel 1, subscription 1 | holds, 503 498 states |
| `write_failure` | `Recovers` when a write fails | 1 call | violated |
| `header_hang` | `Retries` with the repeated header subscription | 1 call | violated |
| `stop_strands` | `LoopManagesConnection` with `stop()` | 2 calls | violated |
| `stop_leaves_open` | `StopDisconnects` with `stop()` | 2 calls | violated |
| `change_hangs` | `ChangeReturns` of a client that is connected | 2 calls | violated |
| `null_answer` | Does a waiting call get a null answer? | 1 task, 2 ids | violated |

Why the bounds are enough for these questions. Two loops and two connections are
what it takes for one to interfere with another; the pools are reused without
limit, so a run covers any number of reconnections. The capacities of 1 to 5
make "full" a reachable state; where a property presumes room for `Close`
(`Recovers`, `keepalive`), requests are queued only below `Load`. Two calls are
what the races of `stop` and `change_address` with an earlier call need, and
where they are not enough is said below. Two tasks and three ids give a batch of
two next to a single request, and two calls one after the other next to a third.
Two scripts make a batch that stops half-way, two places a subscription and an
unsubscription queued at the same time. The three methods of `session` are one
whose answer may panic, one whose answer decodes as another method's would, and
one that anything answers. A line and the one behind it are what the receiver
could confuse.

Six properties fail, each against a line of the repository (PROJECT.json,
"findings"):

1. A failed write ends the sender without a new status, and aborts the receiver
   that would have reported the loss. The status stays `Connected` for ever.
2. The loop waits without a timeout for the answer to the header subscription it
   repeats. If the answer is broadcast before it subscribes, or the connection
   drops first, it never dials again.
3. `stop()` races with a `Close` in the channel: the loop writes `Stopped` and
   ends, the sender writes `Disconnected` afterwards. No loop is left and
   `connect()` starts none in that status.
4. `stop()` races with the loop: the loop consumes the flag, and the `Stop` is
   then not sent or not carried out. The status is and stays `Stopped`, and the
   connection stays open and served, against client.rs:549, "Disconnect and set
   status to 'Stopped'".
5. `change_address()` of a connected client waits for the notification of a
   `Stop` that was published before it subscribed, or that nobody will publish
   because the loop has consumed the flag. On a client that was never connected,
   or is `Disconnected`, it waits for ever too, since no sender is there to
   publish; the run leaves these cases out.
6. The receiver drops null answers, so `script_subscribe()` of a script without
   history times out although client.rs:764 handles the case.

Where the properties that hold stop holding. Each of these was seen with TLC by
the change named here. The first three are further ways in which client.rs:250,
"keep alive connection", is not what the code does; they have no run of their
own because `write_failure`, `header_hang` and `stop_strands` show the same line
to fail in the same way or a worse one. Of the others no line of the repository
says anything.

- A `Close` that meets a full channel is lost, and the loss of the connection
  goes unnoticed: `Recovers` with `Load` = `ChanCap`.
- A receiver that panics never sends `Close`, so the client stays `Connected`
  when the server hangs up: `Recovers` with `panic` in `Faults`. The safety
  invariants of `keepalive` hold with it.
- A `Close` names no connection. When it is queued behind a `Stop`, the sender
  that takes the `Stop` exits, and the sender of the next connection takes the
  `Close` of the old one and hangs up on a server that is there: one connect and
  one change are enough, `HangsUpOnEnded` of `Lifecycle`, which holds in
  `keepalive`.
- Two tasks that call `connect()` at once both see `Initialized` and spawn a loop
  each: `OneLoop` and `OneServing` fail (two users, two calls, only `connect` in
  `Ops`). One task that stops and connects again within the sleep of the old loop
  gets there too, with three calls.
- A second change of address (`change` with `MaxCalls` = 3): the first one is a
  stop and a start within the sleep of the old loop, which goes on next to the
  new one (`OneLoop` fails with `change` in `Ops`). With two loops that dial, the
  second change is written while a loop dials, `AddressChangesWhileStopped`, and
  the client ends up `Connected` to the address before the last one,
  `ServesCurrentAddress`. A `stop()` before the change breaks the first of the
  two as well.
- With two loops one flag ends one of them and the other goes on: connect, stop
  and change with three calls (`StopEndsLoops`). With `headers` in `Ops` the loop
  may wait for the answer of finding 2, and no stop ends it.
- `change_address()` whose subscription lags while it waits (`lagStop` in the
  faults of `change`): the wait ends as if the stop had come, and the address is
  written under a running connection, `AddressChangesWhileStopped`.
- Two tasks that use the same script: one changes the set before the other and
  sends after it, and `NothingResurrected` fails (`Uses` = all pairs).

### Fairness

`Lifecycle`: weak fairness of each application call, loop, `try_connect`, sender
and receiver. Tokio polls a ready task again, the sleep ends, and a plain TCP
dial ends within its 60 s. A TLS handshake has no timeout (net/mod.rs:81), so
this is an assumption about the server. No fairness for the application making
calls, the server answering or closing, a panic, or lag.

`Subscriptions`: weak fairness of `Write`; the sender of a connection takes what
is in the channel. `Session`: weak fairness of the phases of a dial that have an
end (name resolution, and the two ways to the server with their 60 s) and of the
receiver. None of the handshake, of the server, or of anybody ending a
connection.

`Requests`: weak fairness of each call's steps, and strong fairness of
`AnswerTimeout`. Strong, because a passed deadline stays passed while the poll
that finds it may be put off by a notification that is ready first; a stream of
notifications with no gap at all, for ever, is excluded. Nothing is assumed of the
server, the connection or the sender.

## Proofs

`Lifecycle_proofs`, for any finite or infinite sets of tasks, loops and
connections, any channel capacity and any bound on calls, from
`LifecycleAssumption` (the sets are disjoint, the numbers natural).

- `TypeInvariant`: `TypeInv` is inductive. `TypeOK` is not, since a sender that
  exits takes the head of the mutex queue, which must not be empty. `MutexQueue`
  says the queue holds exactly the senders between lock and exit, each once, and
  that all but the head are "ready"; `FreeEntries` that a free pool entry has no
  tasks. `TypeCorrect` is the corollary for `TypeOK`.
- `ConnectedServed`: if no write fails, `ConnectedIsServed`. Inductive over
  `TypeInv`: only a dial sets Connected and it puts its sender in service, a
  sender leaves service only by writing another status. `write_failure` shows
  that the hypothesis is needed.
- `AlwaysManaged`: if the application does not stop the client,
  `LoopManagesConnection`. The strengthening `ManagedInv` adds that no task, loop
  or sender is on the path of a stop, and that a connection exists only after a
  task has dialed. `stop_strands` shows that the hypothesis is needed.
- `SingleLoop`: if in addition one task uses the client, `OneLoop`, with
  `SingleInv`: in the statuses that let `connect()` pass, no loop is alive.
- `SingleService`: under the same hypotheses `OneServing`, failing writes
  included. `ServingInv`: whoever serves, the status is Connected and no task is
  on its way to a connection, since a dial starts only from another status.

`Change_proofs`, for applications of one task that call `connect()` and
`start()` as often as they like and `change_address()` once, at any point
(`OneUser`, `OnlyChanges`, and `[][OneChange]_vars`, which says that only the call
number `ChangeAt`, any number, is a change), and whose subscription does not lag:
`CurrentAddress` and `StoppedChange`, for `ServesCurrentAddress` and
`AddressChangesWhileStopped`. A failing write, a full channel and a lagging
answer are allowed, and a change that returns `MessageNotSent` counts. The
invariant is `ChangeInv`. `CurrentInv` is the property with the tasks on their way
to a connection added, and only a write of the address could break it. What
excludes that is `QuietInv`: from the `Stop` that a sender carries out to the last
write, nobody dials or serves. It becomes true when the sender writes `Stopped`,
because up to that point the loops and connections are in order (`PriorInv`: one
loop, none while the application dials; one connection in service, none while
anybody dials), and it stays true because the application is inside the change
(`StopInv`: there is one `Stop` at most, and the change waits for it). After the
change the order is gone, the old loop goes on next to the new one, which harms
nothing as long as the address stays. TLC has checked `ChangeInv` with three
calls, the change being the first, second or third of them (6.5 M states at most).

`KeepAlive_proofs`, under the hypotheses of `SingleLoop` and if no write fails:
`FollowsCycle`, the initial state and every step of `Lifecycle` are those of
`KeepAlive` or leave status and service alone. `DialingInv`: a task on its way
to a connection finds the status it started from, and Connecting while it
dials. That the steps are taken in the end (the fairness of `KeepAlive`) is
model-checked.

`Requests_proofs`, for any set of callers, any capacities and any number of
requests, from `RequestsAssumption` (the capacities are positive, nobody is a
caller, a notification has no id). `MaxId` bounds the runs; only `TypeCorrect` is
about it.

- `RequestsInvariant`: `RequestsInv` is inductive. `PendingIsKnown` alone is not:
  an answer takes its id out of the inventory, so no event and no unsent call may
  still hold that id. `OwnIds` (ids are below the counter and of one call only),
  `UnsentIds` (an unsent call has filed its requests and nobody else knows them),
  `OnePlace` (an id is in one event or with the server, not both) and `FailedIds`
  (what the sender reported as failed is gone) close the argument.
- `UniqueIds`, `KnownPending`: corollaries for `IdsAreUnique` and `PendingIsKnown`.
- `NotSentNeverWritten`: a call in progress returns `MessageNotSent` from a
  refused send or a failed acknowledgement only (`NotSentSteps`); the invariant
  says that its ids are nowhere then.
- `NothingResent`: only a send adds ids to the channel, and only unsent ones.
- `TypeCorrect`, for `TypeOK` with its bounds: `Bounds` next to `RequestsInv`. The
  counter stays within `MaxId` because every request has an id or is in the finite
  set `Unnumbered`: a call that starts adds no more than `MaxId` leaves room for,
  an id assigned takes one out, nothing else adds one.

`Rpc_proofs`, from the same assumption: `CallsImplementRpc`, every behaviour of
`Requests` is one of `Rpc` whose ids are all the natural numbers. Taking an id
from the counter opens a request, the insert is a stutter, the server's answer
closes it, and a return is the end of its call. The step that needs an argument
is a return with answers: `Received` says that a request of a waiting call that
is still in the inventory is still missing and not in the call's subscription, so
a call with nothing missing has requests outside the inventory only; `OwnIds`
excludes that another call is about to file one of them.

`Subscriptions_proofs`, for any tasks, scripts and channel capacity, from
`SubscriptionsAssumption`: `TypeCorrect`, and under the hypothesis `OneOwner`
(a script is used by one task, though a task may use many) `MissesNothing` and
`ResurrectsNothing`, for `NothingMissed` and `NothingResurrected`. Neither is
inductive. `SubsInv` relates the places of an item: a request in preparation
says what the set says (`CallsStand`, where `OneOwner` comes in: nobody else has
changed it since); so does what the application may conclude (`ViewsStand`);
`try_connect`'s copy has every script that is "on" and still owed to the
connection (`CopyCovers`); and the last request in the channel decides what the
server will know, on a connection that is down too (`QueueAgrees`).
`OneOwner` is needed, as said above.

`Session_proofs`, for any ids, methods, lines and inbox, from
`MessagesAssumption` and `SessionAssumption`: `NamesRoundTrip` (the two tables of
types/method.rs agree in both directions, and no two methods share a name);
`TypeCorrect`; `FittingAnswers` and `SingleAnswers` from `PendingInvariant` (an id
in the inventory has its own method there and no answer yet); `SurvivingReader`;
`EncryptionAsAsked`, from "only an ssl:// address is ever in a handshake".

Only model-checked: the liveness properties (`Recovers`, `StopEndsLoops`,
`TimedCallsReturn`, `SubscriptionsArrive`, `AnswersArrive`, `TipsArrive`,
`DialEnds` and those that fail) and the fairness in the refinement of
`KeepAlive`, which the proof system does not reach. Every invariant and
every action property of a passing run is proved; a hypothesis that a theorem
has and the code does not is a restriction of the application (one task, one
change, no stop) or of the faults, and what happens without it is said above.

## Not modelled

- Timing other than order; the TLS and SOCKS protocols themselves; logging; memory.
- JSON and the consensus encoding: a value is named after what it decodes to.
  The hash of a script (`to_electrum_scripthash`) and the layout of headers and
  transactions are arithmetic on bytes with no state. `ListUnspentRes`,
  `GetMerkleRes` and the implementations of `ToSocketAddrsDomain` for types other
  than `String` are used by nothing.
- What answers contain, and so the order of a batch's answers: the code returns
  them as they come, without ids or scripts.
- Which of several resolved addresses is dialed: the code takes the first one.
- That a panic of the receiver ends that task and nothing else (`Lifecycle`,
  `Session`) is how tokio handles it in a program that unwinds. Cargo.toml:36 sets `panic = "abort"` for
  this package's own release builds, the examples; there it ends the process.
- The pinger's requests are traffic in `Lifecycle` and a caller in `Requests`; that
  it lives until its sender exits is the guard of `Ping`. A file descriptor is
  freed by `DropSocket` only.
- The crate root re-exports, and the examples are programs that use the client.

## Plan

1. `Lifecycle`, `KeepAlive`, `Requests`, `Rpc`, `Subscriptions`, `Session` and
   `Messages`, their runs and the theorems above: done.
2. Next to prove: the address for an application that stops and connects, under
   a hypothesis that no call is made while an old loop sleeps.
3. Next to model: the answers of a call in order, to state what a batch that ends
   early has returned; the composition of `Session` with the inventory and the
   timeouts of `Requests`.
