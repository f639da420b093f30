# TLA+ specifications of pynng

pynng binds the messaging library nng to Python. Its own logic is what stands
between nng's threads and Python's: completions of asynchronous operations on
their way to an event loop, callbacks of pipes, the life of sockets, endpoints,
helpers and messages that several threads and finalizers touch. These modules
model that logic, TLC checks them on small instances, and TLAPS proves the
safety of the native completion queue, of asynchronous calls, of pipe events
and their streams, of messages, of devices, of replies and of what sockets list and
register for every size.

nng itself is outside. Its operations are modelled from how pynng uses them: an
operation that was started completes exactly once and runs its callback on a
thread of nng; `nng_aio_cancel` makes a pending one complete; `nng_aio_wait`,
`nng_aio_free` and closing a socket wait for the callbacks; a call may be refused
for reasons of nng's own; the id of a closed socket may be given to the next one.

## The system

| Component | State | Operations | What is hard | What makes it correct |
|---|---|---|---|---|
| Native completion queue (`src/aio_engine.h`) | ring of entries, capacity, head, tail, count, closed, reference count; per entry a slot id and IDLE, QUEUED or FREED | complete, drain a batch, close, free; make, free an entry | callbacks on nng's threads against the reader, owners that free queued entries, finalizers in any order, growing while wrapped | first in first out, nothing lost, each entry freed once by one party, no use after free, no lost wake-up |
| Engine of a loop, `MPSCAIOEngine` | slots (id to future), counter, wake pipe, queue | register, `_on_notify`, close, `get_for_loop` | slot ids wrap; a loop ends while helpers live | a completion resolves the future of its own call |
| `AIOHelper` and the pools | nng aio, entry, current slot; `_recv_pool`, `_send_pool` | send, receive, cancel, free; acquire, release, drain on close | cancellation racing completion, reuse on another loop, close on another thread | a helper serves one call, a message has one owner, a cancelled call ends and says so |
| Fallback completion (`_aio_map`) | map from aio to rescheduling function | complete, cancel | no slots and no pool; trio cancels by asking nng first and lets a success win | as above |
| Pipe event dispatcher | a `_PipeState` per pipe, `Socket.pipes`, ids of removed pipes | ADD_PRE, ADD_POST, REM_POST, `Pipe.close` | REM_POST overtakes ADD events; callbacks close pipes and sockets | callbacks in order, one at a time per pipe, removed pipes stay removed, close returns |
| `PipeEventStream` | three callbacks, queue or channel, closed flag | make, put, next, close | events from callback threads around close, several iterating tasks | events in order with none left out; the iteration ends |
| Socket lifecycle | closed flag, registry of handles, devices | open, close, finalize | a constructor that fails half-way, close on any thread, in callbacks, in finalizers; ids that nng reuses | closed once, handles of others untouched |
| Dialers and listeners | `_dialers`, `_listeners` | dial, listen, create, start, close | an endpoint that cannot be configured or started, alone or in a constructor | what is listed is what nng has |
| `TLSConfig` | a configuration for each nng library, and which are usable | make, set, use, free | a library refuses what the other accepted, or is imported later; no lock | a usable configuration has all the settings |
| `Sub0` | topics, lock | subscribe, unsubscribe, unsubscribe_all | the lock is not held across nng's call | Python's view agrees with nng's |
| Devices | aios of the devices on a socket | start, end | start against close; finalizers under the device lock | no device survives its sockets; no self-deadlock |
| Synchronous receive | one aio, waited for in slices | receive, interrupt | slice ending as the message comes | one receive in flight, no message leaked |
| `Message` | nng message, freed flag, lock | send, free, read | sending twice, freeing while sending | freed or consumed once |
| `Rep0Service`, `Request` | contexts, workers, queue, timeouts of the socket | start, serve, reply, stop | start that fails half-way, shutdown with work in flight, a socket that was lent | every request has one reply or none, iterations end, a borrowed socket is left as it was found |
| `Surveyor0`, options, addresses, statistics, exceptions, fork guard, build | two timeouts of a survey; little else | | little | |

The components meet in six places. Completions: nng's thread pushes an entry
and writes a wake byte, the loop's reader drains the queue and resolves the
futures of the slots, the task goes on and gives its helper back
(`CompletionQueue` below `AsyncOps`). Pipe events: threads of nng enter the
dispatcher under one lock per socket and run user callbacks without it
(`PipeEvents`), among them those of a `PipeEventStream`, which hands them to an
event loop. Closing: any thread may close a socket, which must end what waits
on it and free what is pooled (in all of them). Endpoints: threads make and close
them on sockets that others close, with TLS configurations that others change
(`Sockets`). Devices: a device forwards between two sockets on nng's threads and
ends when either is closed, under one lock that finalizers on any thread want too
(`DeviceClose`). Messages: a Python `Message` and nng take turns in owning one
`nng_msg`, across threads, coroutines and interrupts (`MessageOwnership`).
`Rep0Service` sits on top of contexts and of the queue of its event loop.

## Modules

| Module | What it models |
|---|---|
| `CompletionFifo` | what the native queue promises: a first-in first-out queue of completed entries, handed out in batches |
| `CompletionQueue` | the native queue in detail, with callbacks, owners, reader and engine as actors |
| `RingArithmetic`, `CompletionQueueProofs` | proofs about it |
| `PipeCallbacks` | what a socket promises about pipe callbacks and `Socket.pipes` |
| `PipeEvents` | the dispatcher, `Pipe.close` and `Socket.close` |
| `PipeEventStream` | the stream of pipe events, on top of `PipeEvents` |
| `PipeEventsProofs` | theorems about the two |
| `AsyncOps`, `AsyncOpsProofs` | calls of `arecv_msg` and `asend_msg`: slots, helpers, pools, the fallback, cancellation, closing, messages |
| `MessageOwnership`, `MessageOwnershipProofs` | `Message` objects: sends on sockets and contexts by threads and coroutines, reads, sliced receives, `KeyboardInterrupt` |
| `DeviceClose`, `DeviceCloseProofs` | `device()`, `adevice()` and `Socket.close`, with the device lock and finalizers |
| `Rep0Service`, `Rep0ServiceProofs` | starting, workers, requests, replies and leaving the service |
| `TLSConfig`, `Subscriptions` | a `TLSConfig`; the subscriptions of a `Sub0` |
| `Sockets`, `SocketsProofs` | constructors, endpoints, closing and the registry of sockets, composed with the two; theorems about all three |
| `MC...` | symmetry for TLC |

A definition whose name has an underscore followed by a word, such as
`Unlink_Leaks`, is a mutation: the definition after it as a plausible mistake
would have it. The specifications use none of them; each shows that a property
can fail. Every module has a type invariant. Where the configuration does not list
it, it is there to be read and for the proofs, which establish it for every size.

### CompletionQueue

Variables carry the names of the C fields. What C does between lock and unlock
is one action (`Complete`, `DrainBatch`, `EntryFreeMark`, `QueueClose`); what it
does before the lock (`CallbackEnter` reads `entry->queue`; `EntryFreeClearSlot`
clears the slot id) and after the unlock (`ResolveBatch`, `EntryFreeReclaim`,
`EngineRelease` release references) are actions of their own, so every
interleaving is explored. `helper` is the program counter of the entry's owner
(an `AIOHelper`; `DeviceAIO` uses an entry in the same way), which a finalizer
may start on freeing at any time and on any thread. `reader` is that of
`_on_notify`, `engine` that of `close` and `__del__`. A destroyed queue is
`refcount = 0`, a freed entry `memory = "freed"`. `Fifo` maps the ring to
`CompletionFifo`: growing and wrapping are stuttering or single steps of it.

### PipeEvents and PipeEventStream

A handler is an action that takes the lock and decides, a state in which the
callbacks run, and an action for the `finally` block; `connector` and `reaper`
say where the two threads of a pipe are. `running` is `state.running`. The
condition variable is explicit: a reaper that must wait is `"waiting"` and goes on
only once `StopCallbacks` has notified it. `Pipe.close` is two steps, the nng call
and the flag, and may be called by the pre-connect callback or by anybody who
has the pipe. `Socket.close` may be called by a thread inside a callback, and then
does not wait (`FinishesElsewhere`).

`PipeEventStream` EXTENDS it. `Dispatch` is a step of the dispatcher, which now also
waits for the stream's callback; `putting` says where that callback is on each
thread, between the test of `_closed` and the hand-over to the loop (`scheduled`).
`Register` and `Unregister` add and remove one of the three callbacks at a time,
`Signal` is the end of `close`: the sentinel behind what was handed over, or the end
of trio's channel. `whole` holds the pipes first heard of when the stream was
complete, about which it promises everything. Under trio close runs on the loop;
under asyncio any thread may call it.

### AsyncOps

A step of the event loop runs from one await to the next: `Begin` acquires a
helper, registers a slot and starts the aio; `Resume` is everything from the
resolved future to the decision about the helper; `Release` is the append to the
pool, apart because another thread may close the socket in between. `pending` is
the native queue as `CompletionFifo` sees it (`UsesFifo`), so what is proved and
checked of `CompletionQueue` carries over. `path` says how completions come back on
the current loop; without an engine `Report` pops the rescheduler from `aio_map` and
has the loop run it (`soon`, `RunSoon`). `TrioOutcome` and `AsyncioOutcome` differ in
who wins when a cancelled call has succeeded. `holder` is a Socket, which nng
closes before its pools are emptied, or a Context, which empties them first and
then forgets its `nng_ctx` (`Forget`). `owner` says who has the message of each call.

### MessageOwnership

A step of a thread ends with at most one call into nng, and a `KeyboardInterrupt`
may hit it between any two steps (`Interrupt` sends it to the cleanup the code runs
from there, or ends it). `place` says who really has the `nng_msg`, `mem_freed` who
Python thinks has it; the properties are about the difference. A coroutine that
waits for a message's lock does so inside `Lock.acquire`, so its whole loop waits
(`LoopStands`). A sliced receive (`recv_msg`, or `recv_into`, which copies and drops
the message) is one wait; its native callback is two steps, because it still holds
the mutex after it has set `done`.

### DeviceClose

`call` is the program counter of a call of `device()` or `adevice()`, `closer` that of
the close of a socket, on whatever thread. A finalizer runs on the thread of any
actor (`host`), which is suspended until the finalizer has returned;
`FinishesElsewhere` is the test by which `Socket.__del__` and `DeviceAIO.__del__` give
their work to a thread of its own. `_end_devices` aborts and then waits with the lock
held (`EndDevices`, `DevicesEnded`). Where nothing is seen from outside between two
statements they are one step: making the aio and the call (`Begin`), forgetting the
device at every socket (`Forgets`).

### Rep0Service

A step is what runs between two awaits of the one event loop. `context`, `arrived`
and `owed` are nng's side: a context remembers the requester of the last request it
received. A request moves from `"sent"` through `"arrived"`, `"queued"` and `"held"` to
a reply, or is left (`__exit__`) or dropped (`__del__`). `socket` is the service's own or
borrowed; `Start` sets the timeouts, listens and starts the workers, `StartFailed`
stops at any of these and `Released` undoes what the code undoes. A borrowed socket
may be closed by its owner at any time (`SocketClosed`). Under asyncio the end of the
service is a sentinel in the queue, under trio the end of a channel, and the tasks of
a nursery are cancelled where they wait (`WorkerCancelled`).

### Sockets, TLSConfig and Subscriptions

`at` is the program counter of each thread with what its call has to remember; a
call is one step for each call into nng or into shared state of Python, so that
others come in between. `NewSocket` begins a constructor: `Open`, `Register`, `Configure`
and, when it was asked to listen or dial, the steps of `Dial`. Whatever fails in it
leads to `Dropped`, the finalizer of the half-made object, which goes through the same
`LookUp`, `Pop`, `CloseFn` and `Clear` as `Socket.close`. `found` keeps what the lookup in
`_active_handles` said until the pop. The endpoint `e` of a call is known to its thread
alone until `List`. dial and listen differ in names only, but for `dial(block=None)`,
which after a refused connection makes another endpoint; one action serves both.

`TLSConfig` models a setter as two steps, the own library and the other one
(`ApplyOwn`, `ApplyOther`); an error in the second gives the other configuration up
(`"diverged"`). `tls_mixed` notes that two setters have overlapped. `Subscriptions`
takes nng's call and the change of the set as two steps; the lock of
`unsubscribe_all` is held all along under nng v1 and for the copy only under v2.
`sub_crossed` holds the topics on which calls have overlapped.

## Runs

| Run | Instance | Distinct states | Shows |
|---|---|---|---|
| `queue_memory` | 3 entries, initial capacity 2, batches of 1, wake pipe of 1 byte, malloc may fail | 1,482,586 | types, exact reference count, no use after free, no lost wake-up, `CompletionFifo` implemented |
| `queue_progress` | 2 entries, capacity 1, malloc succeeds, fairness | 20,340 | entries have one owner; completions reach their task; freed entries are reclaimed |
| `queue_malloc` | as above, malloc may fail | | finding: the entry that did not fit is leaked |
| `pipe_events` | 2 pipes, 2 connectors, fairness | 24,803 | `PipeCallbacks` implemented; rejected pipes silent; removed pipes stay removed; removals are told; close returns |
| `pipe_stream` | 1 pipe, 2 tasks, asyncio and trio | 351,365 | the tasks receive what the callbacks saw, in order; a closed stream ends its iteration |
| `async_ops` | 2 receives, 1 send, 3 helpers, 2 slot ids, pools of 1, 2 loops, native and trio, Socket and Context | 1,156,463 | helpers exclusive, futures resolved by their own completion, messages settled, cancellation passed on, queue used as promised |
| `async_progress` | 1 receive, 1 send, all three paths, fairness | 43,998 | cancelled calls end; closing ends calls |
| `messages` | 2 threads, 1 coroutine, 2 messages of which one comes in, 2 interrupts | 236,913 | never freed twice; only interrupts leak; sent once; a refused send keeps its message; the receive outlives its callback |
| `message_loop` | 2 coroutines, 1 message | | finding: the second send stops the event loop |
| `devices` | 2 sockets, 1 `device()`, 1 `adevice()`, fairness | 252,623 | no device outlives a close; only live aios are listed; closes return and end the calls |
| `rep0` | 3 requests, 2 workers, 1 iteration, asyncio and trio, owned and borrowed, fairness | 338,348 | replies reach their requester; requests are served whatever became of others; leaving ends workers and iteration; the socket is left as it was found, also by a failed start |
| `sockets` | 2 threads, 2 sockets, 2 endpoints, 2 socket ids, 2 settings, 1 topic, 3 calls | 839,962 | endpoints listed are those nng has; the registry finds open sockets and no closed one; libraries agree on a `TLSConfig`; the set of subscriptions is nng's |

The bounds are chosen so that the interesting cases happen. Three entries on
capacity two wrap and then grow while wrapped, and a batch of one makes the
reader loop. Two slot ids make the counter wrap and skip an occupied one. A pool
of one is full when a second call ends. Two loops leave a helper of the first in
the pool of the second. `async_ops` has the native path and trio; the asyncio
fallback shares its steps with both and is in `async_progress`. `MaxRemoved = 2` holds
the ids of both pipes, as 1024 holds those the code needs; with room for one an
evicted id lets a dead pipe come back. One pipe has all three events from two
threads, and two tasks compete for one sentinel. Two interrupts let the second hit
the cleanup of the first. Two sockets give a device two owners, closed in either
order. Three requests for two workers make one worker serve twice while the other
is busy; that one sentinel ends one iteration of several is checked with the two
tasks of `pipe_stream`. Three calls are enough for two threads to make a socket each,
and to close one while the other gets its id, or to close one while it is dialled
(starting an endpoint and reading its TLS configuration are not counted); the
settings are two, so that one can miss, and subscriptions are about one topic at a
time except in `unsubscribe_all`, whose topics are independent.

### Findings

* `queue_malloc`: when growing the ring fails, `pynng_native_aio_complete` leaves
  the entry QUEUED though it is linked nowhere. Its owner then leaves the freeing
  to an unlinker that does not exist.
* `message_loop`: `asend_msg` holds `_mem_freed_lock`, a lock of threads, across its
  await. A second coroutine of the same loop that sends or reads the message
  stops the loop that the first needs; instead of "Attempted to send the same
  message more than once." both hang.

Met while modelling and not given a run:

* Leaving `with request:` without a reply lets the worker receive again on the same
  context, but `reply` refuses only a second reply: a task created in the block that
  replies after it answers the requester of the next request. `LateReply = TRUE` has
  that step, and `ReplyToRequester` fails with it.
* A receive that is cancelled under asyncio after its message reached the aio frees
  the message (`arecv_msg`), while `test_arecv_cancellation_race_with_send` expects such
  a message to remain queued.
* The coroutine of `adevice()`, when it is collected inside a device section, waits
  for the lock its own thread holds. `DeviceClose` has that step (`CollectCoroutine`),
  and its liveness properties are conditional on `CollectedInSection`.
* A start of a `Rep0Service` that fails on a borrowed socket leaves the workers it had
  started receiving requests that nobody answers, against the comment at
  `service.py:204`; `FailedStartEnds` is about owned sockets.
* Under asyncio one sentinel ends one iteration over a `Rep0Service` or a
  `PipeEventStream`; of several tasks the others wait for ever.
* An ADD event that is still on its way when 1024 other pipes have been removed finds
  the id of its pipe forgotten, and a dead pipe comes back into `Socket.pipes`.
* `Pipe.send_msg` sets the pipe of a message before anything looks whether it was
  sent, in memory that nng owns by then; `Pipe.dialer` and `Pipe.listener` raise
  KeyError in a callback that runs before dial has listed its endpoint.
* Setters of a `TLSConfig` that overlap on two threads may leave two usable
  configurations with different settings; calls of subscribe and unsubscribe that
  overlap on one topic may leave `Sub0.subscriptions` different from nng's.

### Fairness

Weak fairness, and only for what the code or its scheduler obliges to happen:
threads inside a handler or callback go on, the loop runs its reader and tasks
that are ready, nng completes what was cancelled or whose socket is closed, a
close that began goes on when nothing blocks it. Nobody is obliged to start,
cancel or close anything, and no message has to come. `Rep0Service` also assumes
that the user does something with every request (replies, leaves its block or
drops it), and that a request which was sent is delivered to a worker that
receives. Its fairness is stated by kinds: some worker goes on while any can, some
request is settled while any is held, and so on. Each kind has finitely much to do, so
that is enough. `PipeEventStream` and `Sockets` state no fairness: what they promise is
safety.

## Proofs

`CompletionQueueProofs` proves for every set of entries, every initial capacity,
batch and pipe size, whether or not malloc fails:

* `TypeCorrect`: `Spec => []TypeOK`
* `RefcountCorrect`: `Spec => []RefcountExact`
* `MemorySafe`: `Spec => []NoUseAfterFree`
* `WakeupsNotLost`: `Spec => []NoLostWakeup`
* `RingImplementsFifo`: `Spec => RefinesFifo`

and, assuming that growing the ring never fails,

* `EntriesOwnedOrLinked`: `Spec => []OwnedOrLinked`

None of the invariants is inductive. `Inv` adds what they rest on: `RingOK` (the head is
the cell after the last entry, and no entry is linked twice, else unlinking it
would free it twice), `LinkedOK` (what is linked is live and QUEUED or FREED),
`EntryOK` (where the owner is, against the entry's state and memory: a callback
runs only while the owner has not freed the entry) and `ActorsOK` (what is closed
when; references not yet released belong to freed entries). Each action has a
lemma that it preserves `Inv`. The cells of the ring are computed modulo the
capacity; `RingArithmetic` isolates that arithmetic in four lemmas (`WrapIs`,
`WrapRange`, `WrapInjective`, `WrapShift`) so that the rest needs only linear
facts. `WakeInv` adds to `Inv` that the write end of the pipe lives as long as the queue
is open: a completion then leaves a byte, its own or one that was there, and a drain
either empties the queue or hands out something, after which the reader looks again.
`OwnedInv` adds that an entry is QUEUED only while it is linked; `queue_malloc` shows
why the theorem needs its hypothesis. The refinement maps the ring to the sequence of
its linked entries from the tail; a completion appends one, also when it moves them into
a larger array, or none when that fails; a drain takes entries from the front until the
batch is full or none is left; and every step that leaves the ring alone stutters. The
assumptions are those of `CompletionQueue`: finitely many entries, and positive capacity,
batch and pipe size.

`AsyncOpsProofs` proves for all finite sets of calls and helpers, any number of slot ids,
pools and loops and any choice of paths

* `HelpersAreExclusive`: `Spec => []HelperExclusive`
* `CompletionsReachTheirCalls`: `Spec => []OwnCompletion`
* `MessagesAreSettled`: `Spec => []MessageSettled`
* `CancellationPropagates`: `Spec => []CancelPropagates`
* `QueueIsUsedAsFifo`: `Spec => UsesFifo`

from one inductive invariant. `Places` says that a helper is in one place at most,
with a call or at one index of one pool, and is live exactly while it is somewhere.
`HelperOK` ties the aio of a helper, its message, its slot and its entry in the native
queue together, and says that nothing is under way (`Quiet`) for a helper that no
waiting call has: this is why a helper may be reused or freed. `CallOK` follows a call:
while it waits (`WaitingOK`), where the completion is that will resolve its future (with
nng, in the native queue, with the loop, or used up: `Delivery`), that the slot of its
future is its own (`SlotOK`), and where its message is, against what nng has answered
(`Progress`); when it has ended (`Settled`), that its outcome matches the message and
the cancellation. `RoomToRelease` says that the room seen in a pool is still there when
the helper is put in, since one task at a time is between the two, and `SoonOnce` that a
callback is scheduled once. The assumptions are that calls and helpers are finitely
many and that the markers for no call and no helper are not among them.
`QueueIsUsedAsFifo` is the other half of `RingImplementsFifo`: the calls use the abstract
queue as its users are supposed to.

`MessageOwnershipProofs` proves for any number of threads, tasks, messages and interrupts

* `TypeCorrect`: `Spec => []TypeOK`
* `NothingFreedTwice`: `Spec => []NeverFreedTwice`
* `OnlyInterruptsLeak`: `Spec => []NoLeak`
* `NothingSentTwice`: `Spec => []SentOnce`
* `CallbackHasItsMutex`: `Spec => []SyncRecvOutlivesCallback`
* `RefusedKeepsMessage`: `Spec => RefusedSendKeepsMessage`, an action property

`Inv` says of each call how far it has come with its message: `SendPhase` relates the
step a sender is at to its aio, to nng's answer and to who has the `nng_msg`,
`ReceivePhase` and `Brings` do the same for a receiver, whose message is nobody else's
until the call returns it. `LockOK` is what makes this local: the lock of a message is
with a call that uses it. `SenderMoves` and `ReceiverMoves` show once that a step of one
call, which moves at most that call's message, is not noticed by the others; each
action then only has to show what it does to its own call.

`DeviceCloseProofs` proves for any number of sockets and calls `Spec => []TypeOK`,
`ClosedSocketHasNoDevice` (`Spec => []NoDeviceOutlivesClose`) and `ListedIsLive`
(`Spec => []ListedAioLives`). The flag of a socket is set without the device lock, so
what a start has checked may be out of date when the device starts. `StartingOK`
says why that is harmless: until the start is over no close gets past its flag,
because it needs the lock. `ListedOK` says that a device which runs is listed at
every socket it forwards for, so `_end_devices` waits for all of them.

`Rep0ServiceProofs` proves `RepliesReachRequester`: `Spec => []ReplyToRequester` when
`LateReply` is false, for any number of requests and workers. The argument is
`OwedOK`: the worker of a request that awaits its reply does not receive, so its
context still owes the reply to that requester. `SocketReturned`
(`Spec => []SocketLeftAsFound`) holds for any set of timeouts, whichever of them a
failed start had set.

`SocketsProofs` proves for any number of threads, sockets, endpoints, settings,
topics and calls

* `LibrariesAgree`: `SocketsSpec => []TlsAgrees`
* `SubscriptionsCurrent`: `SocketsSpec => []SetIsCurrent`

`TlsStep` and `SubStep` reduce a step of the whole system to one of the component.
For the TLS configuration `SetterOK` says that while no setters have overlapped at
most one is under way, and `AgreeOK` that what the other library lacks is what this
setter still has to set. For the subscriptions `OneAtATime` says that a topic without
overlap is the business of one call at most and `StepOK` that this call has to do to
the set what nng has done already. The constructor writes both without a lock;
`MakerOK` says why it may: a socket being made belongs to the one thread that makes
it, and `UnknownOK` that nobody calls its methods before.

On that build

* `RegistryIsExact`: `SocketsSpec => []RegistryExact`
* `EndpointsAreListed`: `SocketsSpec => []EndpointsListed`

for any number of threads, sockets, endpoints and ids. `RegistryInv` says that the ids of
sockets which are not closed are different and held by nng (`IdOK`), that an entry is of
such a socket and under its id (`EntryOK`), and how far a call that makes or closes a
socket has come with both (`PhaseOK`, `CloserOK`): an id is free for nng to give
again only after its entry is gone. `EndInv` does the same for endpoints: one that nng
has and no table lists is the business of the one call that makes or closes it. The
assumptions are that the markers for "nothing", "none" and a free lock are no setting,
topic or thread.

`PipeEventsProofs` proves for any finite set of pipes, any number of connectors and tasks,
and either backend

* `TypeCorrect`: `Spec => []TypeOK`, and `StreamTypeCorrect` the same of the stream
* `NoIdEvicted`: with `MaxRemoved` pipes or fewer, `Spec => [][Remembers]_vars`
* `DispatcherRefines`: `Spec /\ [][Remembers]_vars => RefinesCallbacks`
* `ClosedPipeIsSilent`: `Spec /\ [][Remembers]_vars => RejectedIsSilent`
* `StreamUsesDispatcher`: `StreamSpec => Spec`
* `ClosedStreamReachesATask`: `StreamSpec => []ClosedStreamEnds`
* `StreamFeeds`: `StreamSpec /\ [][Remembers]_vars => []StreamFaithful`

`Remembers` says that no step makes the socket forget the id of a removed pipe. The code
keeps the last 1024 of them and does forget older ones, and then a late ADD event does
break these promises (see the findings), so the hypothesis is part of what is true; it
holds in every behaviour with at most `MaxRemoved` pipes, and `DispatcherKeepsPromises`,
`RejectedPipeIsSilent` and `StreamIsFaithful` state the three results for that case.
`NoIdEvicted` rests on no id being remembered twice (`RemovedOnce`).

The invariant `PipesOK` is about one pipe at a time: which threads run its callbacks
(`RunningOK`, one at most), when it has its `_PipeState` and with which flags (`StateOK`),
what was called for it (`CalledOK`), and that an ADD event which the reaper has overtaken
finds the id among the removed ones (`LateOK`). `LateOK` is what needs `Remembers`, and all
the rest needs `LateOK`. A step of one pipe leaves the others alone (`LeavesAlone`), so each
step has to be looked at for its own pipe only. In the refinement a handler that starts on
callbacks is `PipeCallbacks` calling, one that has run them is it returning, a rejected
pipe's removal included, and every other step stutters. `Silent` is kept once it holds: a
pipe that its callback has closed is rejected before any other handler comes to it.

The stream is proved on top, from `Spec` as it stands. `Fed` says that the events of a pipe
received and coming are, in order, the callbacks called for it, all of them but the one a
thread has in hand (`OneInHand`, `InHandIsLast`); after close only what was in hand past the
test of `_closed` may still come, and it is the next. The lemmas `FeedsOther`, `FeedsOwn`,
`FeedsSkip`, `FeedsTake`, `FeedsMore` and `FeedsLess` say what appending, taking, calling and
dropping do to that relation, counting events by `Ahead`, which needs no recursion.
`ClosedStreamEnds` needs neither: the sentinel is behind everything, and only a task takes
it away. The assumption is that the sentinel is no event.

Only model-checked: everything about liveness, which is outside the prover's reach, with
`PipeForgotten`, `RemoveFollowsConnect` and `CloseReturns` of `PipeEvents` among it. Every
invariant that a run checks is a theorem, three of them under a hypothesis stated above:
`ReplyToRequester` when nobody replies late, `OwnedOrLinked` when growing the ring does not
fail, and `StreamFaithful` while no id is evicted.

## Not modelled, and what comes next

`Surveyor0.asurvey` is one task that sets two timeouts, sends, receives until a
timeout and restores the timeouts; what would be hard about it, two surveys at a
time on one socket, its docstring excludes. The fork guard and the finalization of the
library are flags read once. Options, addresses, statistics, exceptions and the build
convert or generate and have no state worth a model. `Pipe.send` sends to one pipe through
the socket as `send_msg` does.

Open hazards, listed in PROJECT.json without a property: an engine closed by two
threads at once, two threads that pop from one helper pool, a coroutine that is closed
(GeneratorExit) rather than cancelled while it waits, `Pipe.send_msg` of a sent message,
and looking up an endpoint that is not listed yet.

Theorems next: the safety part of what TLC checks as liveness, such as that a pipe which
has left `Socket.pipes` for good does not come back.

Abstractions to keep in mind:

* The emptiness test and the pop of a helper pool are one step. Slot ids do not come
  round within one turn of the loop (`SlotsSuffice`).
* The lists of callbacks of a socket are one callback each; `PipeEventStream` adds its
  own as a second one. A loop that is closed while events are handed to it is left out.
* A `KeyboardInterrupt` just after a sliced receive was started and before its `try`
  block is left out, and so is the deadline that cuts the slices.
* A borrowed socket is not closed by its owner after the service has stopped; the
  nursery that a failed start under trio leaves open has no step of its own.
* `Sockets` does not tell dialers from listeners, reads the other configurations of a
  `TLSConfig` in the step that sets them (`SeenUsable` allows for what an overlapping
  setter did in between), and leaves out the references by which a TLS configuration
  outlives its endpoints for a while: they only delay its freeing.
