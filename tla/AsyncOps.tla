------------------------------- MODULE AsyncOps -------------------------------
(***************************************************************************)
(* The asynchronous operations of one Socket or Context (pynng/_aio.py and *)
(* the helper pools of pynng/_base.py): each call of arecv_msg or          *)
(* asend_msg takes an AIOHelper, starts its nng_aio and waits; nng         *)
(* completes the aio on a thread of its own.  The completion takes one of  *)
(* three paths back:                                                       *)
(*   native   the future of the call has a slot of the event loop's        *)
(*            MPSCAIOEngine, and the native queue brings the slot id to    *)
(*            _on_notify on the loop; helpers are pooled;                  *)
(*   asyncio  an event loop without add_reader: _async_complete finds the  *)
(*            rescheduler of the helper in _aio_map, which has the loop    *)
(*            resolve the future soon;                                     *)
(*   trio     the same, and the rescheduler wakes the task.                *)
(* Tasks are cancelled, the socket is closed by any thread, and the pools  *)
(* outlive an event loop.                                                  *)
(*                                                                         *)
(* The native queue is the abstract one, CompletionFifo, which             *)
(* CompletionQueue implements.  A step of the loop runs up to its next     *)
(* await; other threads interleave with it where it reads shared state.    *)
(*                                                                         *)
(* nng is external: an operation that was started completes once, with a   *)
(* message, a timeout, or an error because it was cancelled or its socket  *)
(* closed.  Starting an operation returns no error: all of nng's errors    *)
(* arrive through the aio.                                                 *)
(***************************************************************************)
EXTENDS Integers, FiniteSets, Sequences, SequencesExt, FiniteSetsExt

CONSTANTS
  RecvCall, SendCall,  \* calls of arecv_msg and of asend_msg, each with its
                       \* own message
  Helper,              \* AIOHelpers that are ever made
  NoHelper,
  MaxSlot,             \* slot ids are 1..MaxSlot, 2^31 - 1 in the code
  MaxPool,             \* Socket._MAX_POOL_SIZE, 32 in the code
  MaxLoop,             \* event loops run one after the other, a bound
  Path,                \* the completion paths there are
  Holder               \* what the calls may be made on: "socket", "context"

Call == RecvCall \cup SendCall
Kind == {"recv", "send"}
KindOf(c) == IF c \in RecvCall THEN "recv" ELSE "send"

NoCall == "no call"  \* whose message an aio without one holds

ASSUME CallAssumption ==
  IsFiniteSet(Call) /\ RecvCall \cap SendCall = {} /\ NoCall \notin Call
ASSUME HelperAssumption == IsFiniteSet(Helper) /\ NoHelper \notin Helper
ASSUME SlotAssumption == MaxSlot \in Nat \ {0}
ASSUME PoolAssumption == MaxPool \in Nat
ASSUME LoopAssumption == MaxLoop \in Nat \ {0}
ASSUME PathAssumption == Path \subseteq {"native", "asyncio", "trio"}
ASSUME HolderAssumption == Holder \subseteq {"socket", "context"}

VARIABLES
  \* the calls
  call,       \* "new", "waiting", "releasing" or "ended"
  uses,       \* the helper of each call
  cancelled,  \* the calls whose task was cancelled meanwhile
  outcome,    \* what each call ended with
  future,     \* "none", "pending" or "done"
  owner,      \* who owns the message of each call
  \* the helpers
  helper,        \* "unborn", "live" or "freed"
  backend,       \* the path its completions take
  helper_loop,   \* the event loop of its engine
  current_slot,  \* 0 for None
  slot_id,       \* the slot id in its native entry
  aio,           \* "idle", "pending" or "cancelling"
  result,        \* nng_aio_result
  aio_msg,       \* the call whose message the aio holds
  pool,          \* Socket._recv_pool and _send_pool
  \* the event loop and its engine
  loop, slots, slot_counter,
  pending,       \* completed entries, oldest first
  \* the fallback
  path,          \* the path of this event loop
  aio_map,       \* the helpers whose rescheduler is in _aio_map
  soon,          \* what call_soon_threadsafe or run_sync_soon has to run
  \* the Socket or the Context
  holder,        \* which of them it is
  socket         \* "open", "closing", "draining", "forgetting", "closed"

callVars == <<call, uses, cancelled, outcome, future, owner>>
aioVars == <<aio, result, aio_msg>>
engineVars == <<loop, slots, slot_counter, path, holder>>
helperVars == <<helper, backend, helper_loop, current_slot, slot_id, aio_map>>
queueVars == <<pending, soon>>
vars == <<call, uses, cancelled, outcome, future, owner, helper, backend, helper_loop,
          current_slot, slot_id, aio, result, aio_msg, pool, loop, slots,
          slot_counter, pending, path, aio_map, soon, holder, socket>>

Init ==
  /\ call = [c \in Call |-> "new"]
  /\ uses = [c \in Call |-> NoHelper]
  /\ cancelled = {}
  /\ outcome = [c \in Call |-> "none"]
  /\ future = [c \in Call |-> "none"]
  /\ owner = [c \in Call |-> IF c \in RecvCall THEN "peer" ELSE "caller"]
  /\ helper = [h \in Helper |-> "unborn"]
  /\ backend = [h \in Helper |-> "none"]
  /\ helper_loop = [h \in Helper |-> 0]
  /\ current_slot = [h \in Helper |-> 0]
  /\ slot_id = [h \in Helper |-> 0]
  /\ aio = [h \in Helper |-> "idle"]
  /\ result = [h \in Helper |-> "none"]
  /\ aio_msg = [h \in Helper |-> NoCall]
  /\ pool = [k \in Kind |-> <<>>]
  /\ loop = 1 /\ slots = <<>> /\ slot_counter = 0
  /\ pending = <<>>
  /\ path \in Path /\ aio_map = {} /\ soon = <<>>
  /\ holder \in Holder
  /\ socket = "open"

(* The loop's thread is between two steps.                                 *)
LoopIdle == \A c \in Call : call[c] # "releasing"

------------------------------------------------------------------------------
(* Slots and helpers.                                                      *)

Occupied == DOMAIN slots

(* Mutation: an occupied slot is not skipped when the counter wraps.       *)
NextSlot_NoSkip == (slot_counter % MaxSlot) + 1

(* register: the first free slot after the counter, which wraps and skips  *)
(* 0.                                                                      *)
NextSlot ==
  LET After(i) == ((slot_counter + i) % MaxSlot) + 1
      steps == {i \in 0..(MaxSlot - 1) : After(i) \notin Occupied}
  IN After(Min(steps))

(* Mutation: a helper of a loop that is gone is reused.                    *)
IsValid_AnyLoop(h) ==
  backend[h] = "native" /\ current_slot[h] = 0 /\ ~Contains(pending, h)

(* is_valid_for_current_loop, FALSE without an engine; _sending is FALSE   *)
(* whenever a call has ended.                                              *)
IsValid(h) ==
  /\ backend[h] = "native"
  /\ helper_loop[h] = loop
  /\ current_slot[h] = 0
  /\ ~Contains(pending, h)

(* AIOHelper.__init__: an entry of the loop's engine, or a rescheduler in   *)
(* _aio_map.                                                               *)
Make(h) ==
  /\ helper[h] = "unborn"
  /\ helper_loop' = [helper_loop EXCEPT ![h] = loop]
  /\ backend' = [backend EXCEPT ![h] = path]
  /\ aio_map' = IF path = "native" THEN aio_map ELSE aio_map \cup {h}

(* The helpers of a pool that the calls of this loop may use.              *)
Valid(k) == {i \in DOMAIN pool[k] : IsValid(pool[k][i])}

(* The youngest of them, 0 if there is none, and what is popped and freed  *)
(* before it is found.                                                     *)
Youngest(k) == IF Valid(k) = {} THEN 0 ELSE Max(Valid(k))
Stale(k) == {pool[k][i] : i \in (Youngest(k) + 1)..Len(pool[k])}

(* _acquire_recv_helper and _acquire_send_helper: the youngest valid       *)
(* helper of the pool, or a new one.                                       *)
Acquire(k, h) ==
  LET top == Youngest(k) IN
  /\ \/ top = 0 /\ Make(h)
     \/ /\ top # 0 /\ h = pool[k][top]
        /\ UNCHANGED <<helper_loop, backend, aio_map>>
  /\ pool' = [pool EXCEPT ![k] = SubSeq(@, 1, top - 1)]
  /\ helper' = [g \in Helper |-> IF g \in Stale(k) THEN "freed"
                                 ELSE IF g = h THEN "live" ELSE helper[g]]

(* register, and the slot id in the entry.                                 *)
TakeSlot(c, h) ==
  /\ slots' = [s \in Occupied \cup {NextSlot} |-> IF s = NextSlot THEN c
                                                  ELSE slots[s]]
  /\ slot_counter' = NextSlot
  /\ current_slot' = [current_slot EXCEPT ![h] = NextSlot]
  /\ slot_id' = [slot_id EXCEPT ![h] = NextSlot]

(* The future of a call, of its loop, or of asyncio_helper, which makes it *)
(* with the helper, or the sleep of a trio task.                           *)
NewFuture(c) == future' = [future EXCEPT ![c] = "pending"]

(* _prepare_aio.                                                           *)
Prepare(c, h) ==
  /\ NewFuture(c)
  /\ \/ path = "native" /\ TakeSlot(c, h)
     \/ path # "native" /\ UNCHANGED <<slots, slot_counter, current_slot, slot_id>>

(* _free: the aio is stopped and freed, its rescheduler forgotten.         *)
Free(hs) ==
  /\ helper' = [h \in Helper |-> IF h \in hs THEN "freed" ELSE helper[h]]
  /\ aio_map' = aio_map \ hs

(* The bound on slot ids: there is a free one, and 2^31 - 1 calls do not   *)
(* begin between _on_notify's pop of a slot and the finally block of its   *)
(* call, which unregisters the slot id once more.                          *)
SlotsSuffice ==
  /\ Cardinality(Occupied) < MaxSlot
  /\ \A h \in Helper : current_slot[h] = NextSlot => current_slot[h] \in Occupied

(* Context._context is None: an AIOHelper made on it raises TypeError.     *)
Forgotten == holder = "context" /\ socket = "closed"

(* arecv_msg and asend_msg up to their first await.                        *)
Begin(c) ==
  /\ LoopIdle
  /\ SlotsSuffice
  /\ call[c] = "new"
  /\ Forgotten => Valid(KindOf(c)) # {}
  /\ \E h \in Helper :
       /\ Acquire(KindOf(c), h)
       /\ Prepare(c, h)
       /\ uses' = [uses EXCEPT ![c] = h]
       /\ aio' = [aio EXCEPT ![h] = "pending"]
       /\ result' = [result EXCEPT ![h] = "none"]
       /\ aio_msg' = [aio_msg EXCEPT ![h] = IF c \in SendCall THEN c ELSE NoCall]
  /\ owner' = [owner EXCEPT ![c] = IF c \in SendCall THEN "aio" ELSE @]
  /\ call' = [call EXCEPT ![c] = "waiting"]
  /\ UNCHANGED <<cancelled, outcome, loop, queueVars, path, holder, socket>>

(* The call raises before there is anything to settle; what was in the     *)
(* pool has been freed.                                                    *)
BeginRefused(c) ==
  /\ LoopIdle
  /\ call[c] = "new"
  /\ Forgotten /\ Valid(KindOf(c)) = {}
  /\ call' = [call EXCEPT ![c] = "ended"]
  /\ outcome' = [outcome EXCEPT ![c] = "refused"]
  /\ Free(Stale(KindOf(c)))
  /\ pool' = [pool EXCEPT ![KindOf(c)] = <<>>]
  /\ UNCHANGED <<uses, cancelled, future, owner, backend, helper_loop,
                 current_slot, slot_id, aioVars, engineVars, queueVars, socket>>

------------------------------------------------------------------------------
(* nng's threads.                                                          *)

CallOf(h) == CHOOSE c \in Call : uses[c] = h /\ call[c] = "waiting"

(* A Socket is closed in nng before its pools are emptied, a Context after *)
(* its pools were.                                                         *)
NngClosed ==
  IF holder = "socket" THEN socket \in {"draining", "closed"}
  ELSE socket \in {"forgetting", "closed"}

(* _async_complete pops the rescheduler and calls it.                      *)
AsyncComplete(h) ==
  /\ aio_map' = aio_map \ {h}
  /\ soon' = IF h \in aio_map THEN Append(soon, h) ELSE soon
  /\ UNCHANGED pending

(* The callback of the aio, of v1 or v2: _async_complete, or               *)
(* pynng_native_aio_complete, which queues the entry.                      *)
Report(h) ==
  \/ backend[h] # "native" /\ AsyncComplete(h)
  \/ /\ backend[h] = "native"
     /\ pending' = Append(pending, h)
     /\ UNCHANGED <<aio_map, soon>>

(* A received message goes to the aio, a sent one to nng; a failed send    *)
(* leaves its message in the aio.                                          *)
Complete(h) ==
  /\ aio[h] # "idle"
  /\ \E r \in {"ok", "timeout", "closed", "canceled"} :
       /\ r = "closed" => NngClosed
       /\ r = "canceled" => aio[h] = "cancelling"
       /\ r \in {"ok", "timeout"} => ~NngClosed
       /\ result' = [result EXCEPT ![h] = r]
       /\ LET c == CallOf(h) IN
          IF r # "ok" THEN UNCHANGED <<aio_msg, owner>>
          ELSE /\ aio_msg' = [aio_msg EXCEPT ![h] = IF c \in RecvCall THEN c
                                                    ELSE NoCall]
               /\ owner' = [owner EXCEPT ![c] = IF c \in RecvCall THEN "aio"
                                                ELSE "nng"]
  /\ aio' = [aio EXCEPT ![h] = "idle"]
  /\ Report(h)
  /\ UNCHANGED <<call, uses, cancelled, outcome, future, helper, backend,
                 helper_loop, current_slot, slot_id, pool, engineVars, socket>>

------------------------------------------------------------------------------
(* The event loop.                                                         *)

(* Mutation: of a batch only the oldest slot is looked at.                 *)
OnNotify_OldestOnly ==
  /\ LoopIdle
  /\ pending # <<>>
  /\ pending' = <<>>
  /\ LET emitted == {slot_id[Head(pending)]} \cap Occupied
         woken == {slots[s] : s \in emitted}
     IN
     /\ slots' = [s \in Occupied \ emitted |-> slots[s]]
     /\ future' = [c \in Call |-> IF c \in woken THEN "done" ELSE future[c]]
  /\ UNCHANGED <<call, uses, cancelled, outcome, owner, helperVars, aioVars,
                 pool, loop, slot_counter, soon, path, holder, socket>>

(* _on_notify drains the queue; each slot id resolves its future.          *)
OnNotify ==
  /\ LoopIdle
  /\ pending # <<>>
  /\ pending' = <<>>
  /\ LET emitted == {slot_id[pending[i]] : i \in DOMAIN pending} \cap Occupied
         woken == {slots[s] : s \in emitted}
     IN
     /\ slots' = [s \in Occupied \ emitted |-> slots[s]]
     /\ future' = [c \in Call |-> IF c \in woken THEN "done" ELSE future[c]]
  /\ UNCHANGED <<call, uses, cancelled, outcome, owner, helperVars, aioVars,
                 pool, loop, slot_counter, soon, path, holder, socket>>

(* The loop runs _set_future_finished, or trio reschedules the task.       *)
RunSoon ==
  /\ LoopIdle
  /\ soon # <<>>
  /\ soon' = Tail(soon)
  /\ future' = [c \in Call |-> IF /\ call[c] = "waiting"
                                  /\ uses[c] = Head(soon)
                               THEN "done" ELSE future[c]]
  /\ UNCHANGED <<call, uses, cancelled, outcome, owner, helperVars, aioVars,
                 pool, engineVars, pending, socket>>

(* Mutation: nng is not told of the cancellation.                          *)
CancelTask_Silent(c) ==
  /\ LoopIdle
  /\ call[c] = "waiting"
  /\ c \notin cancelled
  /\ cancelled' = cancelled \cup {c}
  /\ UNCHANGED <<call, uses, outcome, future, owner, helperVars, aioVars,
                 pool, engineVars, queueVars, socket>>

(* Mutation: an aio that is over is cancelled as if it were not.           *)
CancelTask_Again(c) ==
  /\ LoopIdle
  /\ call[c] = "waiting"
  /\ c \notin cancelled
  /\ cancelled' = cancelled \cup {c}
  /\ aio' = [aio EXCEPT ![uses[c]] = "cancelling"]
  /\ UNCHANGED <<call, uses, outcome, future, owner, helperVars, result,
                 aio_msg, pool, engineVars, queueVars, socket>>

(* A CancelledError arrives at the await, or trio calls abort_fn: nng is   *)
(* asked to cancel the aio, once, and the task goes on waiting.            *)
CancelTask(c) ==
  /\ LoopIdle
  /\ call[c] = "waiting"
  /\ c \notin cancelled
  /\ cancelled' = cancelled \cup {c}
  /\ aio' = [aio EXCEPT ![uses[c]] = IF @ = "pending" THEN "cancelling" ELSE @]
  /\ UNCHANGED <<call, uses, outcome, future, owner, helperVars, result,
                 aio_msg, pool, engineVars, queueVars, socket>>

(* Mutation: only nng's answer tells a cancelled call.                     *)
OutcomeOf_NngOnly(c) ==
  IF result[uses[c]] = "canceled" THEN "cancelled" ELSE result[uses[c]]

(* Under trio what nng had done before the cancellation counts: only       *)
(* NNG_ECANCELED raises trio.Cancelled.                                    *)
TrioOutcome(c) ==
  IF result[uses[c]] = "canceled" THEN "cancelled" ELSE result[uses[c]]

(* Under asyncio a task that was cancelled raises CancelledError, with the *)
(* engine and without it; any other gets the result of nng_aio_result.     *)
AsyncioOutcome(c) ==
  IF c \in cancelled \/ result[uses[c]] = "canceled"
  THEN "cancelled" ELSE result[uses[c]]

(* What the await raises or returns.                                       *)
OutcomeOf(c) ==
  IF backend[uses[c]] = "trio" THEN TrioOutcome(c) ELSE AsyncioOutcome(c)

(* Mutation: a message left in the aio is not freed.                       *)
SettleMessage_Leaks(c) ==
  /\ owner' = [owner EXCEPT ![c] = IF OutcomeOf(c) = "ok" /\ c \in RecvCall
                                   THEN "caller" ELSE @]
  /\ UNCHANGED aio_msg

(* A received message becomes the caller's; one left in the aio after a    *)
(* failure or a cancellation is freed.                                     *)
SettleMessage(c) ==
  /\ owner' = [owner EXCEPT ![c] =
                 IF aio_msg[uses[c]] # c THEN @
                 ELSE IF OutcomeOf(c) = "ok" THEN "caller" ELSE "freed"]
  /\ aio_msg' = [aio_msg EXCEPT ![uses[c]] = NoCall]

(* The finally block of _wait_for_aio.                                     *)
ClearSlot(h) ==
  /\ slots' = [s \in Occupied \ {current_slot[h]} |-> slots[s]]
  /\ current_slot' = [current_slot EXCEPT ![h] = 0]
  /\ slot_id' = [slot_id EXCEPT ![h] = 0]

(* _release_recv_helper and _release_send_helper: what they look at.       *)
Keeps(c) ==
  /\ IF holder = "socket" THEN socket = "open" ELSE ~Forgotten
  /\ backend[uses[c]] = "native"
  /\ Len(pool[KindOf(c)]) < MaxPool
  /\ helper_loop[uses[c]] = loop
  /\ ~Contains(pending, uses[c])

(* The helper is freed, or about to be put into the pool.                  *)
ReleaseHelper(c) ==
  /\ call' = [call EXCEPT ![c] = IF Keeps(c) THEN "releasing" ELSE "ended"]
  /\ Free(IF Keeps(c) THEN {} ELSE {uses[c]})

(* The task goes on once its future is resolved, up to the release of its  *)
(* helper.                                                                 *)
Resume(c) ==
  /\ LoopIdle
  /\ call[c] = "waiting"
  /\ future[c] = "done"
  /\ future' = [future EXCEPT ![c] = "none"]
  /\ ClearSlot(uses[c])
  /\ outcome' = [outcome EXCEPT ![c] = OutcomeOf(c)]
  /\ SettleMessage(c)
  /\ ReleaseHelper(c)
  /\ UNCHANGED <<uses, cancelled, backend, helper_loop, aio, result, pool, loop, path,
                 holder, slot_counter, queueVars, socket>>

(* The append; the socket may have been closed since.                      *)
Release(c) ==
  /\ call[c] = "releasing"
  /\ call' = [call EXCEPT ![c] = "ended"]
  /\ pool' = [pool EXCEPT ![KindOf(c)] = Append(@, uses[c])]
  /\ UNCHANGED <<uses, cancelled, outcome, future, owner, helperVars, aioVars,
                 engineVars, queueVars, socket>>

(* An engine starts without slots.                                         *)
NewEngine == slots' = <<>> /\ slot_counter' = 0

(* asyncio.run has ended, with all of its tasks, and another one begins:   *)
(* get_for_loop makes an engine for it, or finds that it cannot have one.  *)
NextLoop ==
  /\ loop < MaxLoop
  /\ \A c \in Call : call[c] \in {"new", "ended"}
  /\ loop' = loop + 1
  /\ path' \in Path
  /\ NewEngine
  /\ UNCHANGED <<callVars, helperVars, aioVars, pool, queueVars, holder, socket>>

------------------------------------------------------------------------------
(* Socket.close or Context.close, on any thread.                           *)

(* A Socket is marked as closed first; a Context starts with its pools.    *)
CloseBegin ==
  /\ socket = "open"
  /\ socket' = IF holder = "socket" THEN "closing" ELSE "draining"
  /\ UNCHANGED <<callVars, helperVars, aioVars, pool, engineVars, queueVars>>

(* close_fn or nng_ctx_close: what is pending completes with NNG_ECLOSED.  *)
CloseFn ==
  /\ socket = "closing"
  /\ socket' = IF holder = "socket" THEN "draining" ELSE "forgetting"
  /\ UNCHANGED <<callVars, helperVars, aioVars, pool, engineVars, queueVars>>

(* "while self._recv_pool: self._recv_pool.pop()._free()", then the same   *)
(* for _send_pool.                                                         *)
DrainPool ==
  /\ socket = "draining"
  /\ LET k == IF pool["recv"] # <<>> THEN "recv" ELSE "send" IN
     IF pool[k] = <<>>
     THEN /\ socket' = IF holder = "socket" THEN "closed" ELSE "closing"
          /\ UNCHANGED <<pool, helper, aio_map>>
     ELSE /\ pool' = [pool EXCEPT ![k] = Front(@)]
          /\ Free({Last(pool[k])})
          /\ UNCHANGED socket
  /\ UNCHANGED <<callVars, backend, helper_loop, current_slot, slot_id,
                 aioVars, engineVars, queueVars>>

(* "self._context = None".                                                 *)
Forget ==
  /\ socket = "forgetting"
  /\ socket' = "closed"
  /\ UNCHANGED <<callVars, helperVars, aioVars, pool, engineVars, queueVars>>

------------------------------------------------------------------------------
(* The specification.                                                      *)

Loop == \/ OnNotify \/ RunSoon
        \/ \E c \in Call : \/ Begin(c) \/ BeginRefused(c) \/ CancelTask(c)
                           \/ Resume(c) \/ Release(c)

Next ==
  \/ Loop
  \/ \E h \in Helper : Complete(h)
  \/ NextLoop
  \/ CloseBegin \/ CloseFn \/ DrainPool \/ Forget

Finished ==
  /\ \A c \in Call : call[c] = "ended"
  /\ socket = "closed"
  /\ UNCHANGED vars

Spec == Init /\ [][Next \/ Finished]_vars

(* The loop runs what is ready, and nng completes an operation that was    *)
(* cancelled or whose socket is closed.  Nothing obliges a message to come *)
(* or anybody to cancel or to close; a close that began ends.              *)
Fairness ==
  /\ WF_vars(OnNotify) /\ WF_vars(RunSoon)
  /\ \A c \in Call : WF_vars(Resume(c)) /\ WF_vars(Release(c))
  /\ \A h \in Helper : WF_vars((aio[h] = "cancelling" \/ NngClosed) /\ Complete(h))
  /\ WF_vars(CloseFn) /\ WF_vars(DrainPool) /\ WF_vars(Forget)

FairSpec == Spec /\ Fairness

------------------------------------------------------------------------------
(* Properties.                                                             *)

(* Every variable stays in its range, and the pools within their limit.    *)
TypeOK ==
  /\ call \in [Call -> {"new", "waiting", "releasing", "ended"}]
  /\ uses \in [Call -> Helper \cup {NoHelper}]
  /\ cancelled \subseteq Call
  /\ outcome \in [Call -> {"none", "ok", "timeout", "closed", "cancelled", "refused"}]
  /\ future \in [Call -> {"none", "pending", "done"}]
  /\ owner \in [Call -> {"peer", "caller", "aio", "nng", "freed"}]
  /\ helper \in [Helper -> {"unborn", "live", "freed"}]
  /\ backend \in [Helper -> Path \cup {"none"}]
  /\ helper_loop \in [Helper -> 0..MaxLoop]
  /\ current_slot \in [Helper -> 0..MaxSlot]
  /\ slot_id \in [Helper -> 0..MaxSlot]
  /\ aio \in [Helper -> {"idle", "pending", "cancelling"}]
  /\ result \in [Helper -> {"none", "ok", "timeout", "closed", "canceled"}]
  /\ aio_msg \in [Helper -> Call \cup {NoCall}]
  /\ pool \in [Kind -> Seq(Helper)]
  /\ \A k \in Kind : Len(pool[k]) <= MaxPool
  /\ loop \in 1..MaxLoop
  /\ Occupied \subseteq 1..MaxSlot /\ \A s \in Occupied : slots[s] \in Call
  /\ slot_counter \in 0..MaxSlot
  /\ pending \in Seq(Helper) /\ soon \in Seq(Helper)
  /\ path \in Path /\ aio_map \subseteq Helper
  /\ holder \in Holder
  /\ socket \in {"open", "closing", "draining", "forgetting", "closed"}

InUse(h) == {c \in Call : uses[c] = h /\ call[c] \in {"waiting", "releasing"}}
Pooled(h) == {p \in Kind \X (1..MaxPool) :
                p[2] <= Len(pool[p[1]]) /\ pool[p[1]][p[2]] = h}

HelperInOnePlace ==
  \A h \in Helper :
    /\ Cardinality(InUse(h)) + Cardinality(Pooled(h))
         = (IF helper[h] = "live" THEN 1 ELSE 0)
    /\ Pooled(h) # {} => /\ aio[h] = "idle" /\ aio_msg[h] = NoCall
                         /\ current_slot[h] = 0 /\ slot_id[h] = 0
                         /\ ~Contains(pending, h)

(* A helper serves one call at a time, on the loop whose queue its aio     *)
(* reports to: a live one is with one call or once in one pool, and one in *)
(* a pool has nothing under way that could disturb the next call.  So      *)
(* nobody starts an aio that nng still has, no completion goes to a loop   *)
(* that is gone, and close and the loop never free the same helper.        *)
HelperExclusive ==
  /\ \A c \in Call : call[c] = "waiting" => helper_loop[uses[c]] = loop
  /\ HelperInOnePlace

(* A call goes on only when its own operation is over: whichever slots are *)
(* reused and whenever it is cancelled, its future is resolved by the      *)
(* completion of its own aio, and by nothing else, once.                   *)
OwnCompletion ==
  \A c \in Call : call[c] = "waiting" =>
    LET h == uses[c] IN
    /\ future[c] = "done" => aio[h] = "idle" /\ ~Contains(pending \o soon, h)
    /\ backend[h] # "native" => (aio[h] = "idle" <=> h \notin aio_map)
    /\ future[c] = "pending" /\ backend[h] # "native" =>
         (aio[h] = "idle" => Contains(soon, h))
    /\ future[c] = "pending" /\ backend[h] = "native" =>
         /\ current_slot[h] \in Occupied /\ slots[current_slot[h]] = c
         /\ slot_id[h] = current_slot[h]
         /\ aio[h] = "idle" => Contains(pending, h)

(* No message is freed twice, kept by two or forgotten: a call that ended  *)
(* well handed its message on, any other freed what was left in its aio,   *)
(* and only the aio of the call itself ever holds its message.  Under trio *)
(* no message is lost to a receive that is cancelled as it arrives.        *)
MessageSettled ==
  \A c \in Call :
    /\ c \in RecvCall /\ owner[c] = "freed" => backend[uses[c]] # "trio"
    /\ owner[c] = "aio" <=> \E h \in Helper : aio_msg[h] = c
    /\ owner[c] = "aio" => call[c] = "waiting" /\ aio_msg[uses[c]] = c
    /\ call[c] = "ended" =>
         IF c \in RecvCall
         THEN (outcome[c] = "ok" <=> owner[c] = "caller")
         ELSE /\ outcome[c] = "ok" => owner[c] = "nng"
              /\ outcome[c] = "refused" => owner[c] = "caller"
              /\ outcome[c] \notin {"ok", "refused"} =>
                   \/ owner[c] = "freed"
                   \/ c \in cancelled /\ owner[c] = "nng"

(* The CancelledError is always passed on: a task that was cancelled while *)
(* it waited never ends as if it had not been.  Under trio it ends so if   *)
(* nng gave the operation up, and otherwise with what nng had done.        *)
CancelPropagates ==
  \A c \in Call : call[c] = "ended" =>
    /\ outcome[c] = "cancelled" => c \in cancelled
    /\ (c \in cancelled /\ backend[uses[c]] # "trio") => outcome[c] = "cancelled"

(* A cancelled call ends, though it waits for nng to let go of its aio.    *)
CancelEnds == \A c \in Call : (c \in cancelled) ~> (call[c] = "ended")

(* Closing the socket ends every call that waits on it.                    *)
CloseEndsCalls ==
  \A c \in Call : (NngClosed /\ call[c] = "waiting") ~> (call[c] = "ended")

(* The loop and nng use the native queue as CompletionFifo allows: a       *)
(* helper's entry is never queued again before the loop has taken it out.  *)
Fifo == INSTANCE CompletionFifo WITH
          Entry <- Helper, MaxBatch <- Cardinality(Helper),
          open <- TRUE, batch <- {}

UsesFifo == Fifo!Spec
=============================================================================
