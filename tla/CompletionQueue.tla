---------------------------- MODULE CompletionQueue ----------------------------
(***************************************************************************)
(* The native completion queue of src/aio_engine.h: a ring buffer under a  *)
(* mutex into which nng's task threads push finished asynchronous          *)
(* operations and from which the event loop drains them.                   *)
(*                                                                         *)
(* Four kinds of actor take steps:                                         *)
(*   - the nng callback of each entry (pynng_native_aio_complete);         *)
(*   - the helper that owns an entry (AIOHelper and DeviceAIO in           *)
(*     pynng/_aio.py), which can be finalized on any thread;               *)
(*   - the reader, MPSCAIOEngine._on_notify on the loop's thread;          *)
(*   - the engine's own closing and finalizing, which cyclic garbage       *)
(*     collection may run before the helpers' finalizers.                  *)
(*                                                                         *)
(* What runs between lock and unlock is one action.  What the code does    *)
(* before the lock (reading entry->queue, clearing slot_id) and after the  *)
(* unlock (releasing references) are actions of their own.                 *)
(*                                                                         *)
(* A slot id is abstracted to "none" or "waiting": AsyncOps models which   *)
(* operation a slot id names and that no two share one.                    *)
(***************************************************************************)
EXTENDS Integers, FiniteSets

CONSTANTS
  Entry,            \* the entries that are ever allocated
  NoEntry,          \* an array cell that was never written
  InitialCapacity,  \* 256 in the code
  MaxBatch,         \* MPSCAIOEngine._batch_size, 256 in the code
  PipeCapacity,     \* wake bytes the non-blocking pipe holds
  MallocMayFail     \* TRUE: growing the array may fail

ASSUME NoEntryAssumption == NoEntry \notin Entry
ASSUME EntryAssumption == IsFiniteSet(Entry)
ASSUME CapacityAssumption == InitialCapacity \in Nat \ {0}
ASSUME BatchAssumption == MaxBatch \in Nat \ {0}
ASSUME PipeAssumption == PipeCapacity \in Nat \ {0}
ASSUME MallocAssumption == MallocMayFail \in BOOLEAN

VARIABLES
  \* pynng_mpsc_queue_t
  entries, capacity, head, tail, count,
  closed,     \* no entry is pushed any more
  write_fd,   \* TRUE while the queue may write to the wake pipe
  refcount,   \* 0 once the queue is destroyed
  \* pynng_aio_entry_t
  state,      \* "IDLE", "QUEUED" or "FREED"
  slot_id,    \* "none" (0) or "waiting"
  memory,     \* "unborn", "live" or "freed"
  \* the actors
  aio,        \* where the entry's nng aio and its callback are
  helper,     \* where the entry's owner is
  future,     \* the future of the owner's operation
  reader, batch,
  engine,
  wake,       \* bytes in the wake pipe
  dropped     \* entries freed under the lock, references not yet released

ringVars  == <<entries, capacity, head, tail, count>>
queueVars == <<entries, capacity, head, tail, count, closed, write_fd>>
entryVars == <<state, slot_id, memory>>
loopVars  == <<reader, batch, engine>>
vars == <<entries, capacity, head, tail, count, closed, write_fd, refcount,
          state, slot_id, memory, aio, helper, future, reader, batch,
          engine, wake, dropped>>

------------------------------------------------------------------------------
(* The ring buffer.                                                        *)

Cell(i)    == (tail + i) % capacity
At(i)      == entries[Cell(i)]
Linked     == {At(i) : i \in 0..(count - 1)}
FirstN(n)  == {At(i) : i \in 0..(n - 1)}
IsFull     == count = capacity
Destroyed  == refcount = 0

(* pynng_mpsc_queue_new, called by MPSCAIOEngine.__init__.                  *)
QueueNew ==
  /\ entries = [i \in 0..(InitialCapacity - 1) |-> NoEntry]
  /\ capacity = InitialCapacity
  /\ head = 0
  /\ tail = 0
  /\ count = 0
  /\ closed = FALSE
  /\ write_fd = TRUE
  /\ refcount = 1

Init ==
  /\ QueueNew
  /\ state = [e \in Entry |-> "IDLE"]
  /\ slot_id = [e \in Entry |-> "none"]
  /\ memory = [e \in Entry |-> "unborn"]
  /\ aio = [e \in Entry |-> "idle"]
  /\ helper = [e \in Entry |-> "unborn"]
  /\ future = [e \in Entry |-> "none"]
  /\ reader = "idle"
  /\ batch = {}
  /\ engine = "open"
  /\ wake = 0
  /\ dropped = [a \in {"reader", "engine"} |-> {}]

------------------------------------------------------------------------------
(* The callback of nng's task thread.                                      *)

(* nng calls pynng_native_aio_complete, which reads entry->queue before it *)
(* takes the lock.                                                         *)
CallbackEnter(e) ==
  /\ aio[e] = "pending"
  /\ aio' = [aio EXCEPT ![e] = "callback"]
  /\ UNCHANGED <<queueVars, refcount, entryVars, helper, future, loopVars,
                 wake, dropped>>

AppendInPlace(e) ==
  /\ ~IsFull
  /\ entries' = [entries EXCEPT ![head] = e]
  /\ head' = (head + 1) % capacity
  /\ count' = count + 1
  /\ UNCHANGED <<capacity, tail>>

(* Mutation: the wrapped part of a full ring is copied unrotated.          *)
GrowAndAppend_Unrotated(e) ==
  /\ IsFull
  /\ entries' = [i \in 0..(2 * capacity - 1) |->
                   IF i < count THEN entries[i]
                   ELSE IF i = count THEN e ELSE NoEntry]
  /\ capacity' = 2 * capacity
  /\ tail' = 0
  /\ head' = (count + 1) % (2 * capacity)
  /\ count' = count + 1

(* The array is doubled, the entries move to its start in their order, and *)
(* e follows them.                                                         *)
GrowAndAppend(e) ==
  /\ IsFull
  /\ entries' = [i \in 0..(2 * capacity - 1) |->
                   IF i < count THEN At(i)
                   ELSE IF i = count THEN e ELSE NoEntry]
  /\ capacity' = 2 * capacity
  /\ tail' = 0
  /\ head' = (count + 1) % (2 * capacity)
  /\ count' = count + 1

(* malloc returned NULL: the code goes on, and links the entry nowhere.    *)
GrowFails ==
  /\ IsFull
  /\ MallocMayFail
  /\ UNCHANGED ringVars

WriteWakeByte ==
  wake' = IF write_fd /\ wake < PipeCapacity THEN wake + 1 ELSE wake

(* The locked part for an IDLE entry of an open queue.                     *)
Complete(e) ==
  /\ aio[e] = "callback"
  /\ ~closed
  /\ state[e] = "IDLE"
  /\ state' = [state EXCEPT ![e] = "QUEUED"]
  /\ AppendInPlace(e) \/ GrowAndAppend(e) \/ GrowFails
  /\ WriteWakeByte
  /\ aio' = [aio EXCEPT ![e] = "idle"]
  /\ UNCHANGED <<closed, write_fd, refcount, slot_id, memory, helper, future,
                 loopVars, dropped>>

(* The locked part otherwise: the callback returns.                        *)
CompleteRefused(e) ==
  /\ aio[e] = "callback"
  /\ closed \/ state[e] # "IDLE"
  /\ aio' = [aio EXCEPT ![e] = "idle"]
  /\ UNCHANGED <<queueVars, refcount, entryVars, helper, future, loopVars,
                 wake, dropped>>

------------------------------------------------------------------------------
(* The helper that owns the entry.                                         *)

(* pynng_aio_entry_new, called by AIOHelper.__init__ on the loop's thread. *)
EntryNew(e) ==
  /\ engine = "open"
  /\ reader = "idle"
  /\ helper[e] = "unborn"
  /\ helper' = [helper EXCEPT ![e] = "ready"]
  /\ memory' = [memory EXCEPT ![e] = "live"]
  /\ refcount' = refcount + 1
  /\ UNCHANGED <<queueVars, state, slot_id, aio, future, loopVars, wake,
                 dropped>>

(* _prepare_aio, then the nng call that starts the operation.  A helper is *)
(* reused only if pynng_aio_entry_is_idle says so.                         *)
StartOp(e) ==
  /\ engine = "open"
  /\ reader = "idle"
  /\ helper[e] = "ready"
  /\ state[e] = "IDLE"
  /\ helper' = [helper EXCEPT ![e] = "waiting"]
  /\ future' = [future EXCEPT ![e] = "pending"]
  /\ slot_id' = [slot_id EXCEPT ![e] = "waiting"]
  /\ aio' = [aio EXCEPT ![e] = "pending"]
  /\ UNCHANGED <<queueVars, refcount, state, memory, loopVars, wake, dropped>>

(* The finally block of _wait_for_aio, once the future is resolved.        *)
FinishOp(e) ==
  /\ engine = "open"
  /\ reader = "idle"
  /\ helper[e] = "waiting"
  /\ future[e] = "done"
  /\ helper' = [helper EXCEPT ![e] = "ready"]
  /\ future' = [future EXCEPT ![e] = "none"]
  /\ slot_id' = [slot_id EXCEPT ![e] = "none"]
  /\ UNCHANGED <<queueVars, refcount, state, memory, aio, loopVars, wake,
                 dropped>>

(* _free unregisters the slot and calls nng_aio_cancel and nng_aio_wait.   *)
(* A finalizer does this at any time, on any thread.                       *)
FreeBegin(e) ==
  /\ helper[e] \in {"ready", "waiting"}
  /\ helper' = [helper EXCEPT ![e] = "freeing"]
  /\ future' = [future EXCEPT ![e] = "none"]
  /\ UNCHANGED <<queueVars, refcount, entryVars, aio, loopVars, wake, dropped>>

(* Mutation: the entry is freed while nng can still call back.             *)
AioStopped_Assumed(e) == TRUE

(* nng_aio_free returns once the callback has returned.                    *)
AioStopped(e) == aio[e] = "idle"

(* pynng_aio_entry_free clears the slot id before it takes the lock.       *)
EntryFreeClearSlot(e) ==
  /\ helper[e] = "freeing"
  /\ AioStopped(e)
  /\ helper' = [helper EXCEPT ![e] = "unslotted"]
  /\ slot_id' = [slot_id EXCEPT ![e] = "none"]
  /\ UNCHANGED <<queueVars, refcount, state, memory, aio, future, loopVars,
                 wake, dropped>>

(* Mutation: whoever marks the entry FREED also frees it.                  *)
Reclaims_Always(prev) == TRUE

(* A QUEUED entry is left to whoever unlinks it.                           *)
Reclaims(prev) == prev = "IDLE"

(* Its locked part.                                                        *)
EntryFreeMark(e) ==
  /\ helper[e] = "unslotted"
  /\ state' = [state EXCEPT ![e] = "FREED"]
  /\ helper' = [helper EXCEPT ![e] = IF Reclaims(state[e]) THEN "reclaiming"
                                     ELSE "gone"]
  /\ UNCHANGED <<queueVars, refcount, slot_id, memory, aio, future, loopVars,
                 wake, dropped>>

(* free(e), and the release of its reference after the unlock.             *)
EntryFreeReclaim(e) ==
  /\ helper[e] = "reclaiming"
  /\ helper' = [helper EXCEPT ![e] = "gone"]
  /\ memory' = [memory EXCEPT ![e] = "freed"]
  /\ refcount' = refcount - 1
  /\ UNCHANGED <<queueVars, state, slot_id, aio, future, loopVars, wake,
                 dropped>>

------------------------------------------------------------------------------
(* Unlinking, shared by the reader and by close.                           *)

(* Mutation: an entry freed while it was queued is forgotten.              *)
Unlink_Leaks(S, actor) ==
  /\ state' = [e \in Entry |-> IF e \in S THEN "IDLE" ELSE state[e]]
  /\ UNCHANGED <<memory, dropped>>

(* The unlinked entries become IDLE; the FREED ones among them are freed.  *)
Unlink(S, actor) ==
  LET orphans == {e \in S : state[e] = "FREED"} IN
  /\ state' = [e \in Entry |-> IF e \in S THEN "IDLE" ELSE state[e]]
  /\ memory' = [e \in Entry |-> IF e \in orphans THEN "freed" ELSE memory[e]]
  /\ dropped' = [dropped EXCEPT ![actor] = orphans]

(* Mutation: the references of the unlinked entries are not released.      *)
ReleaseDropped_None(actor, own) ==
  /\ refcount' = refcount - own
  /\ dropped' = [dropped EXCEPT ![actor] = {}]

(* _pynng_mpsc_queue_release, after the unlock; the owner's own reference  *)
(* goes in pynng_mpsc_queue_free.                                          *)
ReleaseDropped(actor, own) ==
  /\ refcount' = refcount - Cardinality(dropped[actor]) - own
  /\ dropped' = [dropped EXCEPT ![actor] = {}]

------------------------------------------------------------------------------
(* The reader: MPSCAIOEngine._on_notify and pynng_mpsc_drain_batch.        *)

(* The wake pipe is emptied before the queue is.                           *)
ReadPipe ==
  /\ engine = "open"
  /\ reader = "idle"
  /\ wake > 0
  /\ wake' = 0
  /\ reader' = "draining"
  /\ UNCHANGED <<queueVars, refcount, entryVars, aio, helper, future, batch,
                 engine, dropped>>

(* The entries among the first n that give out their slot id.              *)
Emitted(n) == {e \in FirstN(n) : state[e] # "FREED" /\ slot_id[e] # "none"}

(* Mutation: entries that emit nothing count towards the batch too.        *)
StopsAt_Popped(n) == n = IF count < MaxBatch THEN count ELSE MaxBatch

(* The loop ends when the ring is empty or the caller's buffer is full.    *)
StopsAt(n) ==
  /\ n = count \/ Cardinality(Emitted(n)) = MaxBatch
  /\ \A m \in 0..(n - 1) : Cardinality(Emitted(m)) < MaxBatch

DrainBatch ==
  /\ reader = "draining"
  /\ \E n \in 0..count :
       /\ StopsAt(n)
       /\ batch' = Emitted(n)
       /\ Unlink(FirstN(n), "reader")
       /\ tail' = Cell(n)
       /\ count' = count - n
  /\ reader' = "resolving"
  /\ UNCHANGED <<entries, capacity, head, closed, write_fd, refcount, slot_id,
                 aio, helper, future, engine, wake>>

(* Mutation: the wake pipe is emptied after the queue was found empty.     *)
ResolveBatch_ReadsLast ==
  /\ reader = "resolving"
  /\ ReleaseDropped("reader", 0)
  /\ future' = [e \in Entry |->
                  IF e \in batch /\ future[e] = "pending" THEN "done"
                  ELSE future[e]]
  /\ batch' = {}
  /\ reader' = IF batch = {} THEN "idle" ELSE "draining"
  /\ wake' = IF batch = {} THEN 0 ELSE wake
  /\ UNCHANGED <<queueVars, entryVars, aio, helper, engine>>

(* The references are released, then the batch's futures are resolved.  A  *)
(* batch of zero ends the loop.                                            *)
ResolveBatch ==
  /\ reader = "resolving"
  /\ ReleaseDropped("reader", 0)
  /\ future' = [e \in Entry |->
                  IF e \in batch /\ future[e] = "pending" THEN "done"
                  ELSE future[e]]
  /\ batch' = {}
  /\ reader' = IF batch = {} THEN "idle" ELSE "draining"
  /\ UNCHANGED <<queueVars, entryVars, aio, helper, engine, wake>>

------------------------------------------------------------------------------
(* The engine: close() and __del__().                                      *)

(* The locked part of pynng_mpsc_queue_close.                              *)
QueueClose ==
  /\ closed' = TRUE
  /\ write_fd' = FALSE
  /\ tail' = Cell(count)
  /\ count' = 0
  /\ Unlink(Linked, "engine")
  /\ UNCHANGED <<entries, capacity, head, refcount, slot_id, aio, helper,
                 future, reader, batch, wake>>

(* close() runs once the loop is closed, or from __del__: _on_notify is    *)
(* not on the stack.                                                       *)
EngineClose ==
  /\ engine = "open"
  /\ reader = "idle"
  /\ engine' = "closing"
  /\ QueueClose

(* The releases after the unlock; then both descriptors are closed.        *)
EngineCloseFds ==
  /\ engine = "closing"
  /\ engine' = "closed"
  /\ ReleaseDropped("engine", 0)
  /\ wake' = 0
  /\ UNCHANGED <<queueVars, entryVars, aio, helper, future, reader, batch>>

(* __del__: pynng_mpsc_queue_free closes the queue once more.              *)
EngineDel ==
  /\ engine = "closed"
  /\ engine' = "freeing"
  /\ QueueClose

(* Its releases, the owner's reference with them.                          *)
EngineRelease ==
  /\ engine = "freeing"
  /\ engine' = "gone"
  /\ ReleaseDropped("engine", 1)
  /\ UNCHANGED <<queueVars, entryVars, aio, helper, future, reader, batch,
                 wake>>

------------------------------------------------------------------------------
(* The specification.                                                      *)

Callback(e) == CallbackEnter(e) \/ Complete(e) \/ CompleteRefused(e)

Free(e) ==
  \/ EntryFreeClearSlot(e)
  \/ EntryFreeMark(e)
  \/ EntryFreeReclaim(e)

Owner(e) == EntryNew(e) \/ StartOp(e) \/ FinishOp(e) \/ FreeBegin(e) \/ Free(e)

Reader == ReadPipe \/ DrainBatch \/ ResolveBatch

Engine == EngineClose \/ EngineCloseFds \/ EngineDel \/ EngineRelease

Next ==
  \/ \E e \in Entry : Callback(e) \/ Owner(e)
  \/ Reader
  \/ Engine

(* Every entry is gone and so is the queue: nothing is left to do.         *)
Finished ==
  /\ engine = "gone"
  /\ \A e \in Entry : helper[e] \in {"unborn", "gone"}
  /\ UNCHANGED vars

Spec == Init /\ [][Next \/ Finished]_vars

(* A callback that runs comes to its end, nng calls back for a cancelled   *)
(* operation, a freeing helper goes on, the loop serves its reader, and a  *)
(* close() that began ends.  Nothing obliges anybody to start or cancel an *)
(* operation, or to close the engine.                                      *)
Fairness ==
  /\ \A e \in Entry : WF_vars(Complete(e) \/ CompleteRefused(e))
  /\ \A e \in Entry : WF_vars(helper[e] = "freeing" /\ CallbackEnter(e))
  /\ \A e \in Entry : WF_vars(Free(e))
  /\ WF_vars(Reader)
  /\ WF_vars(EngineCloseFds \/ EngineRelease)

FairSpec == Spec /\ Fairness

------------------------------------------------------------------------------
(* Properties.                                                             *)

(* Every variable stays in its range: the indices stay in the array, the   *)
(* count never passes the capacity and the reference count never goes      *)
(* below zero.                                                             *)
TypeOK ==
  /\ capacity \in Nat \ {0}
  /\ entries \in [0..(capacity - 1) -> Entry \cup {NoEntry}]
  /\ head \in 0..(capacity - 1)
  /\ tail \in 0..(capacity - 1)
  /\ count \in 0..capacity
  /\ closed \in BOOLEAN
  /\ write_fd \in BOOLEAN
  /\ refcount \in Nat
  /\ state \in [Entry -> {"IDLE", "QUEUED", "FREED"}]
  /\ slot_id \in [Entry -> {"none", "waiting"}]
  /\ memory \in [Entry -> {"unborn", "live", "freed"}]
  /\ aio \in [Entry -> {"idle", "pending", "callback"}]
  /\ helper \in [Entry -> {"unborn", "ready", "waiting", "freeing",
                           "unslotted", "reclaiming", "gone"}]
  /\ future \in [Entry -> {"none", "pending", "done"}]
  /\ reader \in {"idle", "draining", "resolving"}
  /\ batch \in SUBSET Entry
  /\ engine \in {"open", "closing", "closed", "freeing", "gone"}
  /\ wake \in 0..PipeCapacity
  /\ dropped \in [{"reader", "engine"} -> SUBSET Entry]

Holders == {e \in Entry : memory[e] = "live"}
             \cup dropped["reader"] \cup dropped["engine"]

(* "Each entry holds one reference on its queue and the owner holds one":  *)
(* no reference is released twice and none is forgotten, whichever of the  *)
(* four places frees an entry and in whatever order the engine and the     *)
(* helpers are finalized.                                                  *)
RefcountExact ==
  refcount = Cardinality(Holders) + (IF engine = "gone" THEN 0 ELSE 1)

(* Nobody touches freed memory: a callback finds its entry and its queue,  *)
(* a helper finds its entry until it gives it up, the ring links live      *)
(* entries only, the queue outlives its engine, and the wake byte is never *)
(* written to a descriptor that was closed and may belong to others.       *)
NoUseAfterFree ==
  /\ \A e \in Entry :
       aio[e] # "idle" \/ helper[e] \notin {"unborn", "gone"}
         => memory[e] = "live" /\ ~Destroyed
  /\ \A e \in Linked : memory[e] = "live"
  /\ engine # "gone" => ~Destroyed
  /\ write_fd => engine = "open"

(* The comment in pynng_aio_entry_free, "A QUEUED entry is freed by        *)
(* whoever unlinks it from the queue", asks that there be somebody to      *)
(* unlink it: an entry its owner gave up is freed or linked.  It fails     *)
(* when the array cannot grow.                                             *)
FreedByUnlinker ==
  \A e \in Entry : helper[e] = "gone" => memory[e] = "freed" \/ e \in Linked

(* "A QUEUED entry is freed by whoever unlinks it from the queue": an      *)
(* entry is linked at most once, QUEUED exactly while it is linked and     *)
(* owned, and one its owner gave up is either linked, for the unlinker to  *)
(* free, or freed.  So no entry is freed twice and none leaks.             *)
OwnedOrLinked ==
  /\ \A i, j \in 0..(count - 1) : At(i) = At(j) => i = j
  /\ \A e \in Linked : state[e] \in {"QUEUED", "FREED"}
  /\ \A e \in Entry : state[e] = "QUEUED" => e \in Linked
  /\ FreedByUnlinker

(* An open queue that holds something has the loop's attention: a wake     *)
(* byte waits in the pipe, or the reader will look at the queue again      *)
(* before it sleeps.                                                       *)
NoLostWakeup ==
  count > 0 /\ ~closed =>
    \/ wake > 0
    \/ reader = "draining"
    \/ reader = "resolving" /\ batch # {}

(* A finished operation's task is woken, unless it is being freed or its   *)
(* loop is closed first.                                                   *)
OpDelivered ==
  \A e \in Entry :
    (helper[e] = "waiting" /\ aio[e] = "callback")
      ~> (future[e] = "done" \/ helper[e] # "waiting" \/ engine # "open")

(* An entry that its helper frees is really freed in the end, by whoever   *)
(* has it: nothing waits for ever in a queue nobody reads.                 *)
EntryReclaimed ==
  \A e \in Entry : helper[e] = "freeing" ~> memory[e] = "freed"

(* The inductive invariant behind the properties above, in named parts.    *)

RingOK ==
  /\ head = Cell(count)
  /\ \A i \in 0..(count - 1) : At(i) \in Entry
  /\ \A i, j \in 0..(count - 1) : At(i) = At(j) => i = j

LinkedOK == \A e \in Linked : memory[e] = "live" /\ state[e] \in {"QUEUED", "FREED"}

EntryOK(e) ==
  /\ helper[e] = "unborn" <=> memory[e] = "unborn"
  /\ helper[e] = "unborn" => state[e] = "IDLE" /\ aio[e] = "idle"
  /\ helper[e] \notin {"unborn", "gone"} => memory[e] = "live"
  /\ aio[e] # "idle" => helper[e] \in {"ready", "waiting", "freeing"}
  /\ memory[e] = "live" =>
       (state[e] = "FREED" <=> helper[e] \in {"reclaiming", "gone"})
  /\ helper[e] = "reclaiming" => e \notin Linked

ActorsOK ==
  /\ closed <=> engine # "open"
  /\ write_fd => engine = "open"
  /\ reader # "idle" => engine = "open"
  /\ dropped["reader"] # {} => reader = "resolving"
  /\ dropped["engine"] # {} => engine \in {"closing", "freeing"}
  /\ \A a \in {"reader", "engine"} : \A e \in dropped[a] : memory[e] = "freed"

Inv ==
  /\ TypeOK
  /\ RingOK
  /\ LinkedOK
  /\ \A e \in Entry : EntryOK(e)
  /\ ActorsOK
  /\ RefcountExact

(* The ring buffer implements the queue of CompletionFifo: growing and     *)
(* wrapping neither lose, repeat nor reorder an entry, and a batch that is *)
(* not full leaves nothing behind.                                         *)
Contents == [i \in 1..count |-> At(i - 1)]

Fifo == INSTANCE CompletionFifo WITH
          pending <- Contents,
          open    <- ~closed

RefinesFifo == Fifo!Spec
=============================================================================
