# Formal models of nest-amqp

`nest-amqp` is a NestJS module that connects an application to AMQP 1.0 brokers
through `rhea-promise`. It creates connections, attaches a receiver for every
`@Listen()` method, turns messages into validated objects for the user's
callback, settles them, sends messages, recovers after a broken connection and
drains at shutdown. The library is single threaded, but nearly every one of its
functions awaits something, and what it read before the await (a `Map` entry, a
credit count, a connection state) may be out of date after it. That, and the
credit accounting the library does by hand, is what these models are about.

Paths below are relative to the repository root; `queue.service.ts` is
`src/service/queue/queue.service.ts`, `amqp.service.ts` is
`src/service/amqp/amqp.service.ts`.

## 1. Inventory

| Part | State | Operations | Talks to |
|---|---|---|---|
| **Message handling**: the closures of `QueueService.listen()`, `MessageControl`, `ObjectValidatorService` | per delivery: position of the handler, `MessageControl.handled`; per receiver: link credit | message event, decode, validate, callback, auto-accept, catch blocks, `.catch()` of `messageHandler`; `accept()`, `reject()`, `release()` | user callback, rhea `Delivery` and `Receiver` |
| **Receiver creation and recovery**: `AMQPService.createReceiver()` | credit of the rhea `Receiver` | `addCredit(credits)`, the top-up in the `receiver_open` handler | message handling, rhea |
| **Link registry**: `receivers` and `senders` of `QueueService` | two `Map`s from link token to link | `getReceiver()`, `getSender()` with their retry loops, `removeListener()`, `clearSenderAndReceiverLinks()` | `createReceiver()`, `createSender()` |
| **Connection lifecycle**: `AMQPService.createConnection()`, `disconnect()`, `AMQConnectionStorage` | rhea connection, armed timers, stored connections | first `open()`, connection events, reopening timer, `RECONNECT` event, `close()` | module lifecycle, rhea |
| **Shutdown**: `QueueService.shutdown()`, `onModuleDestroy()` | snapshot of the receivers, position in it | close, poll the credit, sleep, disconnect | registry, connections, handlers in progress |
| **Module lifecycle**: `onModuleInit()`, the `RECONNECT` handler, `attachListeners()` | the list of listeners | attach all in sequence; on `RECONNECT` clear the Maps and attach again | registry, connections |
| **Sending and scheduling**: `QueueService.send()`, `extendObject()` | none of its own | schedule annotations, message merging, waiting for the delivery | registry |
| **Configuration**: `QueueModule.forRoot()`, `forRootAsync()`, the provider factories, the two storages | the static module definition; options and connections by name | extend the definition, copy and store options, create connections as Nest resolves the providers | Nest, connections, everything that reads options |
| **Listener discovery**: `@Listen()`, `ListenerExplorer`, the lookup in `attachListeners()`, `getLinkToken()` | the metadata at the methods | explore all providers, find an instance for each method, join names to tokens | Nest, configuration, registry |
| Other decorators, exceptions, logging, samples | none | output | |

What is hard in each of them, and what makes it correct:

- **Message handling.** Handlers of several deliveries and user code that keeps
  a `MessageControl` interleave at every await; exceptions can come out of the
  `catch` blocks themselves, because thrown values need not be `Error`s
  (`queue.service.ts:127`, `:156`). Correct means: the broker hears exactly one
  outcome per delivery, no handler ends without one, each settlement returns
  exactly one credit, and the automatic outcome is the documented one.
- **Recovery.** A receiver is attached again while old deliveries are still being
  processed. Correct means: no capacity is lost, whatever rhea did to the
  credit, and the surplus is bounded.
- **Registry.** Look-up and registration are separated by an await. Correct means:
  every open link can be found again, retries are exactly as many as configured.
- **Connections.** Two mechanisms bring a connection back (rhea's for a broken
  transport, the service's for an error close), and `disconnect()` stops neither.
  Correct means: they never both act, each error close is answered once, what was
  closed stays closed.
- **Shutdown.** It polls `credit === 0` while messages arrive and are settled and
  connections break. Correct means: it ends, closes everything, and leaves no
  work behind.
- **Module lifecycle.** The reconnect of one connection clears the links of all, and
  runs of `attachListeners()` overlap. Correct means: after a reconnect every
  listener has a receiver again, and one.
- **Sending.** The sender may have died long ago, a delivery may wait in it, the
  broker may take the message and its answer get lost, other calls replace the
  sender meanwhile; the schedule is integer arithmetic merged with whatever the
  caller gives. Correct means: a call puts its message on the wire at most once
  and says `Success` only if it did, every call comes back, deliveries are as many
  and as even as asked for, the schedule survives the merge.
- **Configuration.** Calls accumulate in one static definition in which the last
  provider of a token counts, while the storages are written at the call or when a
  factory runs, and each `forRootAsync()` overwrites the imports of the one before.
  Correct means: both orders agree, no option is lost.
- **Discovery.** Methods are inherited, overridden and found more than once; two
  methods may name one queue; an instance may be missing or scoped. Correct means: a
  start fails only for known reasons, and the first method of a queue gets its
  messages.

The hazards, each at its line, with the properties that watch it, are in
`PROJECT.json`.

## 2. Modules

```
ProcessingSlots            what a listener promises: numbered processing slots
     ^ implemented by
MessageHandling  ------------>  MessageHandlingProofs
     ^ extended by
ReceiverRecovery ------------>  ReceiverRecoveryProofs

LinkRegistry ---------------->  LinkRegistryProofs
     ^ extended by                   ^ extended by
     |-- Sending ------------->  SendingProofs
     |     | extends
     |   Scheduling
     |-- Reattachment -------->  ReattachmentProofs

ConnectionLifecycle --------->  ConnectionLifecycleProofs

Shutdown -------------------->  ShutdownProofs

ModuleConfiguration
     ^ extended by
ListenerDiscovery ----------->  ListenerDiscoveryProofs

MCMessageHandling, MCReceiverRecovery, MCSending, MCReattachment, MCShutdown,
MCListenerDiscovery: instances
```

### MessageHandling

One receiver, its deliveries and their controls (`queue.service.ts:52-173`,
`message-control.domain.ts`).

| Model | Code |
|---|---|
| `options` | `ListenOptions`: a type, `noValidate`/`skipValidation`, `acceptValidationNullObjectException` |
| `body` | what decoding can tell: fails `JSON.parse`; `null`; has a `type` and a payload that is not an object; anything else |
| `phase` | where `messageValidator` is: before the message event, at `await validate()`, at `await callback()`, rejected towards `.catch()`, over |
| `callback` | the promise of the user's callback |
| `handled`, `Settle` | `MessageControl.handled`; the body of `accept()`, `reject()`, `release()` |
| `dispositions` | the calls on `context.delivery`, with who caused them |
| `credit` | `receiver.credit` |

One action is what runs between two awaits. `OnMessage` goes from the message
event to the first await and so contains decoding and, without validation, the
start of the callback. `CallbackReturns` contains the auto-accept. Thrown values
without a message are actions of their own (`ValidationThrowsNonError`,
`CallbackThrowsNonError`), because they leave through another exit than an
`Error`: the catch block throws, `SafetyNet` is the `.catch()` that receives it.
`UserSettles` is any call of user code, from the callback or long after it.

`AutomaticSettlement` states the outcome of every message that user code leaves
alone: `CalledFor` says which one it is by callback, body and options, nothing is
settled before the handler is over, and the callback may be passed over only for a
body that cannot be decoded or has to be validated. So it distinguishes a library
that rejects too much from one that accepts too much.

`ProcessingSlots` is the abstract specification: a message takes one of `Slots`
slots, holds it until it is settled, is never taken again. `ImplementsSlots`
maps free slots to credit and busy messages to unsettled deliveries.

### ReceiverRecovery

`MessageHandling` on a link that breaks and is attached again
(`amqp.service.ts:222-263`). `LinkLost` makes unsettled deliveries stale,
`ReceiverOpen` is the handler at line 252 with its top-up: the new attachment
starts with the credit the object still counts, or with none. Handlers and user
code keep running while the link is lost, and settling a stale delivery still
adds a credit, as `handleSettlement()` does.

### LinkRegistry

The two Maps with concurrent callers (`queue.service.ts:297-399`). A call is
`creating` (awaiting `createReceiver()` or `createSender()`), `sleeping` between
attempts, or `closing` (awaiting `receiver.close()`). `CreateSucceeds` overwrites
the entry as `Map.set()` does; `CloseSucceeds` deletes whatever entry the token
has by then. `PeerCloses` is a link closed by the broker, which the service only
logs. `Clear` is what a reconnect does. `links` remembers every link that was
ever opened, so that an orphan can be seen; `overlapped` and `tries` are history
for the properties. The module is checked through the two that extend it.

### Sending

`QueueService.send()` (`queue.service.ts:190-266`) over `LinkRegistry`. `stage` is
where a caller's `send()` is: waiting for `getSender()`, waiting for
`sender.send()`, or its result. `queued` tells whether its delivery waits in the
sender, `copies` how often the message went out. `HasSender` is the synchronous part
between the two awaits, which composes the message and may throw in it. `Transfers`
is rhea, which sends a queued delivery whenever the link is open, also when
`send()` has given up waiting for it. `Resolves` applies the test of line 265,
`SendState`, to what is known of the delivery: nothing is taken for granted but
that it is not settled before it was sent, so that `Failed` is an answer of the
model too. `SendFails` covers every way to reject, before and after the
transfer. `OtherCall` is `listen()` and `removeListener()`, as far as the
Maps are concerned.

### Scheduling

How `send()` composes its message (`queue.service.ts:193-259`), as operators.
`Annotations` has the four branches of `:203-246` with what JavaScript takes for
false (`divideMinute` 0) and what `isDefined()` does not (`afterSeconds` 0), `Every`
the arithmetic of a minute, `Extended` is `extendObject()` restricted to
`message_annotations`: an object of the caller is merged key by key, and a `null` or
an `undefined` that is there, as an entry or as the whole, replaces what was
computed (`Missing` is a key that is not there, `Unset` one that is there without a
value). `Composes` is false for an `afterSeconds` beyond the last date
(`:232`). `Sending` uses them in `HasSender`, but keeps no schedule in its state,
since nothing that happens to the message later depends on it: what
`SpreadOverMinute` and `ScheduleKept` say of a message that is being sent
they say of every schedule it may have.

### Reattachment

`QueueModule.onModuleInit()`, its `RECONNECT` handler and `attachListeners()`
(`queue.module.ts:215-265`), over the Maps and calls of `LinkRegistry`. Each run of
`attachListeners()` is a caller of the registry: run 0 belongs to `onModuleInit()`,
run *n* to the *n*-th event; they overlap. `Reattach` is the whole synchronous part
of the handler: clear the Maps, start a run, request the first link. `ErrorClose(k)`
closes a connection and the links on it, `Reopened(k)` is the success of the timer
of `ConnectionLifecycle`, seen from here. Before run 0 is over the event has no
handler; `missed` remembers that. The application is one more caller: `AppCalls` is a
`listen()` or `removeListener()` of its own, at any time after the start, and
`touched` remembers the queues it has called about since the last event, for the
properties. Links that the broker closes one by one are in `Sending`, not here.

### ConnectionLifecycle

One connection (`amqp.service.ts:50-169`): the first `open()` and what
`throwExceptionOnConnectionError` makes of its failure, closes with and without
an error, transport losses, the timer of line 101, its `open()`, the event, and
`disconnect()`. `timers` and `reopening` are counters, not flags, so that a second
timer would be visible. `disconnect()` only calls `close()`, which asks the broker when
the connection is open and resolves at once when it is not; it stops neither the
timer nor rhea, so both go on in the model (`RheaReconnects` has no guard on
`shutdown`). `shutdown` keeps how the `close()` ended: `closed`, `notOpen` (there was
nothing to close, or the broker was first) or `threw`. `ClosedStaysClosed` is what
remains true, and `ClosedForGood`, which is violated, what does not.

### Shutdown

`QueueService.shutdown()` and `AMQPService.disconnect()` over several receivers
and connections. `at` is the await or the statement the loop is at, `targets` the
array made at line 276. Messages keep arriving at receivers that are not closed
yet, listeners may still be registered, connections break, `close()` may reject.
Each receiver has its own `parallelMessageProcessing`. A message is only counted
here; `MessageHandling` shows how one comes to its settlement. A broken
connection may be back at any moment, also between two polls of the loop and
after the shutdown: by rhea (`Resumed`: the links nobody closed are attached again
and their credit is topped up) or by the timer (`Reopened`: the links are gone and
the `RECONNECT` handler clears the Map). `close()` of a link or a connection that
is not open does nothing; `missed` remembers the connections for which that
happened in `disconnect()`.

### ModuleConfiguration

`QueueModule.forRoot()` and `forRootAsync()` (`queue.module.ts:36-205`) in any order,
each a `RootCall`: a URI, an options object, an array of named connections, or the
asynchronous form with any combination of `useFactory`, `useClass` and
`useExisting`, with the imports of the call and what its factory injects.
`definition` is the static `moduleDefinition` that each call extends; its imports
are those of the last `forRootAsync()` alone (`queue.module.ts:78`). `Exports` is what
modules of the application export, `imports` and `injects` are sets of those.
`storedOptions` and `connections` are the two storages. Then Nest resolves
the providers in any order their dependencies allow: `Resolve` runs a value or an
options factory, which stores a copy of what `getConnectionOptions()` keeps and
returns all of it; a provider that injects what is imported no more is
`Unresolvable`; `CreateConnection` is `createConnection()` as a factory, seen from
outside (`ConnectionLifecycle` looks inside). Options are an identity, by which
two calls can be told apart, and the three entries some property is about. A
connection name is a sequence cut at its colons, so that tokens can collide as
they do in the code.

### ListenerDiscovery

`onModuleInit()` over `ModuleConfiguration`. The classes of the application are
constants: `Lineage` has the classes along the prototypes of each, itself first,
`Prototype` the methods each declares. `Explore` follows `ListenerExplorer` through them:
a scan finds inherited methods that are not `Overridden`, the metadata names the class
that declares them. `Hosts` is the lookup of the instance by class and
then by class name (`queue.module.ts:251-261`); of a scoped provider there is no
instance to return, and the error is thrown on (`ScopedHost`). `Attach` and `ListenFails` are
`listen()` as far as the Map is concerned: a token that is there already makes it
return without attaching the new callback (`queue.service.ts:336-338`).
`receivers` remembers which method and which instance serves each token.

### What is taken from outside

`rhea-promise` is not part of the repository. The models assume of it what the
code relies on:

- with `credit_window: 0` a message arrives only against credit, one credit each;
- a reattached receiver keeps its credit or starts with none;
- it reconnects by itself after a transport loss, not after a close by the
  broker, and a `close()` of the lost connection does not stop it;
- when it has reconnected, the links that nobody closed are attached again;
- closing a connection closes its links, and what waited for a link on it is
  rejected before the connection is open again;
- an `open()` that the broker answers with a close rejects, and fires
  `connection_close` too;
- `close()` of a connection that is not open resolves at once, and so does that of
  a link; either does nothing;
- a sender transfers a delivery at most once, when its link has credit, and settles
  none that it has not transferred;
- `AwaitableSender.send()` rejects when the broker refuses the message, when the link
  closes or when no answer comes in time, without taking the delivery back.

Of Nest they assume that the last provider of a token in a module replaces the
others, that a provider is resolved once and after what it injects, that
`onModuleInit()` runs when all are, that a module sees what the modules it imports
export, that `moduleRef.get()` throws another error than `UnknownElementException` for
a scoped provider, and that `MetadataScanner` finds each method name along the
prototype chain once, the most derived one.

Definitions that stand for such behaviour are marked `external` in the map.

Definitions commented "not used" are wrong variants of the definition that
follows them. No action refers to them; putting one in place of the right
one must break a property (`mutants` in `PROJECT.json`), which shows that the
property can tell the difference.

## 3. Runs

| Run | Instance | Shows |
|---|---|---|
| `handling` | 3 deliveries (symmetric), 2 credits, every body for each, all 8 settings of the options; 245,438 states | settlement exactly once, no handler ends without one, credit is conserved, the automatic outcome is the documented one, the first settlement stands, the receiver implements its slots |
| `recovery` | 3 deliveries, 1 credit, up to 2 losses, fair; 315,750 states | no credit is lost by a reconnect, the surplus is bounded by what was in flight, every message is settled in the end |
| `recovery_limit` | the same with 1 loss | **violated**: `InFlightLimit` |
| `sending` | 2 callers, 1 queue, 2 attempts with a sleep, up to 3 links, 1 clear, links that close at any time, fair; 628,157 states; all schedules over 7 values of `divideMinute` and 3 of `afterSeconds`, all annotations of the caller with entries that are missing, null or given | without overlapping calls no link is orphaned, exactly the configured attempts are made, no receiver is reported removed twice, a `send()` puts its message on the wire at most once and exactly once if it says `Success`, each call returns, a dead sender stays in its Map, deliveries are spread over the minute, the schedule is kept but for the entries the caller names |
| `reattachment` | 2 connections, 3 `@Listen()` methods (two on one queue), a third queue without, up to 2 closes, 1 call of the application, fair; 95,797 states | a run that reports success after the last event has left exactly the decorated listeners, each with an open receiver, whatever the application had added or removed before the event; duplicates are bounded; an event brings the listeners back unless something fails |
| `reattachment_orphan` | 1 close | **violated**: `OneReceiverPerListener` |
| `connection` | up to 3 closes and losses, fair; 408 states | one reopening at a time and never of an open connection, each error close accounted for, each answered by an attempt, and a connection that `disconnect()` found open and closed stays closed |
| `connection_shutdown` | up to 2 | **violated**: `ClosedForGood` |
| `shutdown` | 2 receivers on 2 connections, one with 1 credit and one with 2, up to 2 messages each, any number of losses and returns of the connections, fair; 628,782 states | a receiver is left only closed and with a slot free, every connection is closed at the end that was not down when its turn came, shutdown ends |
| `shutdown_undrained` | 1 message each | **violated**: `Drained` |
| `startup` | up to 2 of 19 root calls with imports that differ, 11 sets of providers over 3 classes, one of them scoped; 42,009 states | each connection has the options that the storage has for it, `throwExceptionOnConnectionError` is never lost, a start fails only for the reasons listed, the first method of a queue serves it from an instance of its class |
| `retry_dropped` | the same | **violated**: `RetryHonoured` |

### The disagreements

- `recovery_limit`: with `parallelMessageProcessing: 1`, a message is in
  processing when the connection breaks. `receiver_open` tops the credit up to 1
  (`amqp.service.ts:258-262`). The old handler ends and adds one more. From then
  on two messages are in flight at a time, for good. `SurplusBounded` says how far
  this can go.
- `reattachment_orphan`: one of two connections is closed and reopened. The handler
  clears the Maps of both; the receivers on the other one stay open and forgotten,
  and `attachListeners()` opens new ones beside them. `removeListener()` and
  `shutdown()` do not find the old ones any more. No calls overlap here.
- `connection_shutdown`: `disconnect()` leaves the reopening timer armed. A
  connection closed with an error less than a second before opens again after it.
  (So does one that rhea is reconnecting at the time; the run looks at the timer,
  which is the service's own.)
- `shutdown_undrained`: `credit === 0` means that all slots are taken, not that some
  message is being processed. With more than one slot, the wait ends too early.
  For one slot the two are the same, and `NeverLeavesFullReceiver` shows that
  the wait is then right.
- `retry_dropped`: `retryConnection`, documented at
  `queue-module-options.interface.ts:75-81`, is not among the three options that
  `getConnectionOptions()` (`queue.module.ts:197-205`) copies to the storage, where
  `queue.service.ts:341` and `:374` look for it. Through `forRoot()` and `forRootAsync()`
  each link is tried once. `sending` checks the loops with two attempts all the same,
  as they are written to.

More are visible in the models without a run of their own:

- Two overlapping `listen()` or `send()` calls for one queue both miss in the Map;
  each opens a link; the later `set()` hides the earlier one. The comment at
  `queue.service.ts:34` promises one. `OrphansNeedOverlap` says that overlapping
  calls and reconnects are the only causes.
- The NOTE at `amqp.service.ts:37-38` has it that a close without an error is
  followed by one attempt to reconnect. The handler returns at once then
  (`ClosedCleanly`), and reconnects only after an error; the tests at
  `amqp.service.spec.ts:193` and `:206` agree with the code.
- `FirstListenerServes` needs connection names without a colon: connection `a` with
  queue `b:q` and connection `a:b` with queue `q` share a token, and the second of
  the two never gets a message.
- `ScheduleKept` leaves out annotations of the caller that are `null` or `undefined` as
  a whole: `extendObject()` puts them in the place of the computed ones, and the
  message is sent at once, without its schedule.
- `forRootAsync()` overwrites the imports of an earlier one (`queue.module.ts:78`) while
  its providers stay, so that the second call may make the first one's `inject` or
  `useExisting` unresolvable. A `@Listen()` method of a scoped provider ends the start
  (`:258-260`). Both are among the reasons in `StartFailsOnlyFor`; no document speaks of
  them.
- A connection that is down when `disconnect()` comes to it is not closed: its
  `close()` does nothing, and rhea or the timer may open it after the shutdown has
  resolved. `ClosedWhenDone` has it as its exception (`missed`), `connection_shutdown` shows
  it for the timer.
- A first `open()` that throws to the caller may leave the timer armed, which then
  opens a connection that nobody has stored (`OpenRejected`, `ReopenSucceeds`).

### Bounds

- *Deliveries (3), credits.* Deliveries interact only through the credit. Two
  credits with three deliveries give a delivery that waits while two run; one
  credit gives starvation its best chance. The theorems of section 4 cover any
  number.
- *`MaxLosses` 2*: a delivery that is stale from the first loss may be settled
  before, between and after the second one.
- *`MaxLinks` 3, two callers*: enough for an orphan, a registered link and a third
  opened after a removal. One queue, as calls on different tokens share nothing
  but `Clear`.
- *`MaxRetryAttempts` 2, `RetryDelay` 1*: one failure that is retried after a sleep
  and one that is final.
- *`MaxClears` 1*: the entry of a pending call is cleared under it.
- `reattachment`, *`MaxClears` 2, `MaxAppCalls` 1*: two closes, so that two runs overlap
  and the second event clears the Maps under the first; the call of the
  application falls before, between and after them; `MaxLinks` 11 is never reached.
  One attempt per link, which is what the module configures.
- *`MaxRoots` 2*: calls interact through the order of two providers for one token and of
  two writes to one entry; an array of two connections of one name does so within a
  call, and two calls of `forRootAsync()` suffice for imports that get lost. The 19
  calls have every form, a name that repeats, one that is empty, one with a colon, an
  unsupported URI, each set of asynchronous sources, and imports that export what the
  other call injects, something else, both or nothing.
- *`Divisions`* 0, 1, 7, 12, 60, 1000, 100000: no schedule, one delivery, one that does not
  divide a minute, those that do, and periods of 60 ms. The theorem covers every
  number up to 60,000; beyond that the period is 0. *`Delays`* 0, 1, 10 with
  *`MaxDelay`* 5: the last one stands for a delay past the last date.
- *`MaxCloses` 3*: an error close, a failed reopening that is answered with a close,
  and a third after that.
- *`MaxMessages` 2*: the receiver with one credit is filled twice while the loop waits,
  the one with two credits is filled and emptied. Losses and returns of connections have
  no bound. `LeavesNoFullReceiver` and `AllClosedWhenDone` hold for any number of
  messages. `ShutdownEnds` needs that the messages come to an end: a receiver
  whose connection was down when it was closed is attached again once rhea is back
  (its `close()` did nothing), and if the broker has always one more message for it, it
  may be full at every poll.

`CHECK_DEADLOCK FALSE` stands where the system may stop: all messages handled, the
module shut down or failed to start. `sending` has no such end and is checked for
deadlock.

### Fairness

All fairness is weak, and on what the runtime gives: promises settle, timers fire,
so `Handle(d)`, `Proceed(c)`, `Proceed(r)`, `Service` and `Proceed` are taken when they stay
enabled. (`Proceed(c)` of `Sending` includes that `sender.send()` rejects in the end
when the broker does not answer, which `rhea-promise` does by a timer.) Two assumptions go beyond the library: user callbacks and validators
come to an end, and a broker that has credit and messages sends one (fair for
the broker as a whole, not for a particular message). A callback that never
ends does keep its slot for ever, and `shutdown()` waiting. No fairness is
assumed of user calls on a control, of broker closes, of new calls, or of a call
of `shutdown()`, nor that a connection comes back in `Reattachment`.
`RheaReconnects` is not fair in `ConnectionLifecycle`;
`ReceiverOpen` is in `ReceiverRecovery`, where the question is what happens once
the link is back. In `ReceiverRecovery` and `Shutdown` each receiver has at least one
credit in the liveness runs: with `parallelMessageProcessing: 0` a listener
never receives anything and `shutdown()` polls for ever. No fairness is assumed of the
connections in `Shutdown` either: they may break and come back for ever, or stay down.

## 4. Proofs

TLAPS proves, for any set of deliveries, callers, queues, receivers and connections
(also infinite ones, but for the connections, which are a sequence) and any number
of credits, attempts, losses and closes, for any calls of `forRoot()` and
`forRootAsync()`, any providers and any classes:

| Module | Theorem | Statement |
|---|---|---|
| `MessageHandlingProofs` | `TypeCorrect` | `Spec => []TypeOK` |
| | `SettlesOnce` | `Spec => []SettledOnce` |
| | `NeverForgotten` | `Spec => []FinishedIsSettled` |
| | `SettlesAutomatically` | `Spec => []AutomaticSettlement` |
| | `Implementation` | `Spec => ImplementsSlots`, the refinement of `ProcessingSlots` |
| | `CreditsConserved` | `Spec => []CreditConserved` |
| | `FirstSettlementIsFinal` | `Spec => FirstSettlementStands` |
| `ReceiverRecoveryProofs` | `RecoveryTypeCorrect` | `RecoverySpec => []RecoveryTypeOK` |
| | `CapacitySurvives` | `RecoverySpec => []NoCreditLost` |
| | `SurplusIsBounded` | `RecoverySpec => []SurplusBounded` |
| | `RecoverySettlesOnce` | `RecoverySpec => []SettledOnce` |
| `LinkRegistryProofs` | `TypeCorrect` | `Spec => []TypeOK` |
| | `RetriesAreExact` | `Spec => []AllAttemptsMade` |
| | `NoOrphansOtherwise` | `Spec => []OrphansNeedOverlap` |
| | `RemovalsAreReal` | `Spec => []RemovedAtMostOnce` |
| `SendingProofs` | `SendingImplementsRegistry` | `SendingSpec => Spec` |
| | `SendingTypeCorrect` | `SendingSpec => []SendingTypeOK` |
| | `SendsOnce` | `SendingSpec => []OneMessagePerSend` |
| | `DeadSendersStay` | `SendingSpec => DeadSenderStays` |
| | `SchedulesKept` | `SendingSpec => []ScheduleKept` |
| | `SchedulesSpread` | `SendingSpec => []SpreadOverMinute` |
| `ReattachmentProofs` | `ReattachmentTypeCorrect` | `ReattachmentSpec => []ReattachmentTypeOK` |
| | `ListenersComeBack` | `ReattachmentSpec => []ReattachedIsListening` |
| | `DuplicatesAreBounded` | `ReattachmentSpec => []DuplicatesBounded` |
| `ConnectionLifecycleProofs` | `TypeCorrect` | `Spec => []TypeOK` |
| | `ReopeningsNeverMeet` | `Spec => []OneReopeningAtATime` |
| | `ErrorClosesAddUp` | `Spec => []EveryErrorCloseAccounted` |
| | `ClosedConnectionsStayClosed` | `Spec => []ClosedStaysClosed` |
| `ListenerDiscoveryProofs` | `StartupTypeCorrect` | `StartupSpec => []StartupTypeOK` |
| | `StoragesAgree` | `StartupSpec => []OptionsAgree` |
| | `ConnectionErrorsEndStart` | `StartupSpec => []ExceptionIsThrown` |
| | `StartFailsOnlyForReasons` | `StartupSpec => []StartFailsOnlyFor` |
| | `TheFirstServes` | `StartupSpec => []FirstListenerServes` |
| `ShutdownProofs` | `TypeCorrect` | `Spec => []TypeOK` |
| | `LeavesNoFullReceiver` | `Spec => []NeverLeavesFullReceiver` |
| | `AllClosedWhenDone` | `Spec => []ClosedWhenDone` |

The assumptions are the types of the constants (`...Assumption` in each
module: bounds, credits and attempts are natural numbers, `Unset` is not an
integer, a receiver's connection is one of the connections); TLC evaluates them. Two say
more. `ConfigurationAssumption`: only the array form of `forRoot()` names connections, the
others have one, the default one (`queue.module.ts:51-54`, `:70-83`), the default name is
not empty, and all calls that give a `useClass` give the same class. `DiscoveryAssumption`: the first class along the prototypes of an instance is
its own.

**Message handling.** `SettledOnce` is not inductive alone: a delivery that has
not been sent must not be settled. `IInv` adds `QueuedIsUntouched` (no callback
and no settlement before the message event) and `FinishedIsSettled`. The
argument goes through `Settle`, the one place where the three variables of a
control change: `SettleType` and `SettleOnceStep` say what it does, and each
action cites them. Under `IInv` each step is a step of `ProcessingSlots` or a
stutter (`OnMessageIsTake`, `HandleIsFinish`, `UserSettlesIsFinish`), which is the
refinement. `CreditConserved` is then a fact about the slots alone
(`SlotsConserve`): no second case analysis over the handlers. `AutomaticSettlement`
needs that the phase tells what has been called and what the body is like
(`PhaseTells`): the library settles only in the step with which the handler of a
delivery ends, with the outcome of that exit (`LibrarySettles`, `HandlerEnds`), and a
delivery that was settled before that was settled by user code (`HandledBySomebody`).

**Recovery.** The top-up breaks conservation, so what is left of it are two
inequalities. They need two more facts: stale deliveries have been sent
(`StaleIsSent`, so a new delivery is never stale and always counts as in flight),
and while the link is lost everything unsettled is stale (`LostIsStale`, so that
nothing is in flight when `ReceiverOpen` sets the credit and `TopUpBounds` alone
gives `NoCreditLost`). Steps of `MessageHandling` are again seen as slot moves
(`SlotMoveKeepsBooks`).

**Registry.** `CallInv` says of each call by itself what it has counted and asked
for (`GoodCall`), which is type correctness and `AllAttemptsMade`. Orphans need two
more facts about calls that wait for the broker: what a call has found in the Map
still stands there, unless another call on the same Map and queue was noted
(`MapAsFound`), and two waiting calls on one are always noted (`OverlapsNoted`). With
them the one dangerous step, `CreateSucceeds` overwriting an entry, is harmless
without an overlap. `RemovedAtMostOnce` counts: a removal that answers true takes
an entry away, and an entry is a link of its own (`RemovalsCounted`).

**Reattaching.** The registry's own specification does not help here, since its
`Clear` is free and the event's is not: `MapsInv` starts again from `CallInv`.
`ReattachedIsListening` needs to know who may have a hand in the Map of receivers.
Before the start is over nobody but run 0 has (`StartIsAlone`); the queues
that the application calls about are remembered in `touched` until the next event
(`AppTouches`); an entry is an open receiver of its queue unless its
connection was closed and no event has followed (`MapIsSound`); what is in the Map beyond
the decorated listeners is in `touched` (`OnlyListeners`). `LatestRunAttaches` is the
argument itself: of the run of the last event it says which listeners it has come past
and that those have receivers, and it allows the runs before it to overwrite an entry,
since what they write is an open receiver too. There is one lemma for each kind of step
(`AnswerKeepsMaps` to `MissedKeepsMaps`). `DuplicatesBounded` counts: each receiver of a
queue is paid for by a request of some call that the broker has answered
(`ReceiversArePaidFor`), and the requests for one queue are at most one per run and one
per call of the application (`SpentBounded`).

**Sending.** `SendingStep` shows each step to be one of `LinkRegistry` or a stutter,
so that the invariants above hold under `send()` without another proof.
`OneMessagePerSend` follows a delivery through its call (`DeliveryInv`): it is queued or sent,
never both, there is none before the call has its sender, and no other caller touches
it (`CallsApart`, `DeliveredUntouched`).
`DeadSenderStays` uses `MapAsFound`: the only step that could replace a sender is the
creation of another, which found no entry.

**Scheduling.** `ScheduleKept` is a split over the branches (`AnnotationsGive`), then over
what the caller names (`Merges`), and
`SpreadOverMinute` is arithmetic: `PeriodBounds` for the division, a bijection with
`0..n-1` for the number of times.

**Shutdown.** What the loop has left behind is closed and not full (`LoopInv`), unless its
connection broke; the connections behind the second loop are closed or were down when
their turn came (`DisconnectInv`, `Dealt`). That a connection is down, or its links are
gone, only if it broke at some time (`CountInv`) is why leaving the polling loop by its
first condition is excused by `broken`, and that no connection is closed before the
second loop (`TargetInv`) is why an open link that is closed is really closed.
`CountInv` also has that a receiver has neither credit nor messages before it is
attached, or the sum of the two, which `TypeOK` bounds, could be exceeded by attaching
it. What goes on around the loop (messages, new listeners, connections that break and
come back) is one lemma, `AroundInv`: it opens no link that was closed
(`AroundLinks`).

**Connections.** `OneReopeningAtATime` needs to know that a connection that opens
has no reopening pending: the first `open()` comes before any close
(`FirstOpenFirst`), and a connection that rhea is bringing back was not closed
(`LostIsRheas`). The type invariant itself needs `EveryErrorCloseAccounted`: the
timers are bounded because each stands for a close. All are inductive only
together (`ConnectionInv`); `ErrorCloseCounts` is the one fact about a close with an
error, which three actions share. `ClosedStaysClosed` needs that nothing is
pending for a connection that `close()` found open (`ClosedIsQuiet`), which is
`OneReopeningAtATime` at the moment of the close, and that no close of the broker
overtakes it unseen.

**Start.** Two orders must agree: that of the list of providers, in which the last of a
token counts, and that of the writes to the storage. `StartInv` ties both to the calls.
`LastProviderGives` says whose options the last provider of a name has (`Giver`: the last
`forRoot()` that names it, else the first `forRootAsync()`), `SyncStored` that what
`forRoot()` stored is from the same entry, and `ResolvedStored` that a resolved provider of
options agrees with the storage. A factory of `forRootAsync()` runs long after all calls
were made and writes the storage then; it is harmless since it is in use only where no
`forRoot()` named the default connection, and that holds because its providers are put in
front (`ForRootAsyncKeeps`, `ResolveKeeps`). A connection needs the provider of its options
resolved first, so that `OpenedAsStored` follows (`CreateConnectionKeeps`), and with it
`OptionsAgree` and `ExceptionIsThrown`. For the failures: each entry of a call is provided
(`EntriesProvided`) and resolved when the listeners are explored, nothing needs what is not
provided but a `useClass` that `useExisting` has displaced (`NeedsProvided`), what is
injected was named by some `forRootAsync()` and the imports are those of the last
(`InjectsImported`), and a listener is
declared along the prototypes of some provider (`ExploreType`). `FirstServes` is an
induction over the listeners: those that `attachListeners()` has come past have their
token in the Map, behind it the first of that token. `FlattenSeqType`, which `Explore` rests on,
is an induction on the length of the list, written out with `Least`.

Only model-checked: liveness (`EveryMessageSettled`, `EverySendReturns`,
`EventBringsListenersBack`, `ErrorCloseIsAnswered`, `ShutdownEnds`), which is out of
the prover's reach. Every invariant and every action property that a passing run checks
is stated by a theorem.

## 5. Not modelled

- `validateArray()`, which nothing in `listen()` calls, and what validation decides
  about a given payload: its outcome is a free choice.
- `@InjectAMQConnection()`, exception classes, logging, samples: no state. The exceptions
  are outcomes of the actions that throw them.
- `forFeature()`, which returns the definition as it is, and whether other modules see
  the exports (`isGlobal`): a matter of Nest. `definition.global` has what line 58 makes of it,
  also for the single options object, whose `isGlobal` is not looked at.
- The `logger` option, the text of rejections and of log lines; `ttl` and the other
  message options of `send()`, which are copied as they are.
- Connections with the empty name, which the storage keeps and never finds: the
  behaviour is in the model (`Found`), the properties leave it out (`EmptyNames`).
- `Source` objects: the token of one is its JSON text, so that here it is a token like any
  other.
- A callback that settles its message and works on: the next message then runs
  beside it. The credit stands for unsettled messages; the README speaks of
  messages that are processed.

## 6. What is left

Every part of the library that keeps state is modelled. What could still be added:

1. A composition of `ConnectionLifecycle` and `Reattachment`, in place of the
   assumption that `Reopened` makes about pending links.
2. Receivers that the broker closes while the connection stays: `Sending` has them for
   senders; for listeners nothing in the library reacts, and no document promises it.
