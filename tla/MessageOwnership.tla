-------------------------- MODULE MessageOwnership --------------------------
(***************************************************************************)
(* Who owns an nng_msg (pynng/_base.py, pynng/_aio.py): a Message owns the *)
(* nng_msg it wraps until a send hands it to nng.  _mem_freed records that *)
(* it no longer does, and _mem_freed_lock guards it.  Messages come in     *)
(* through the sliced receive of Socket.recv_msg and Context.recv_msg      *)
(* (_sliced_aio_recv and the pynng_sync_recv of src/aio_engine.h) and go   *)
(* out through send_msg of a Socket or of a Context and through asend_msg. *)
(*                                                                         *)
(* A call on a thread is interrupted by a KeyboardInterrupt between any    *)
(* two of its steps; each step ends with at most one call into nng.  A     *)
(* task runs on the thread of its event loop: asend_msg holds the lock     *)
(* across its await, and a task that waits for the lock stops the loop.    *)
(*                                                                         *)
(* nng is external: an operation ends well or not; a message it accepts is *)
(* out of its aio, one it does not accept stays there.  Its completion     *)
(* travels to the loop as in AsyncOps, which is left out here.             *)
(***************************************************************************)
EXTENDS Integers, FiniteSets

CONSTANTS
  Message,       \* Message objects, each with its nng_msg
  Incoming,      \* those that nng has not delivered yet
  ThreadCall,    \* calls, each on a thread of its own
  TaskCall,      \* calls made by coroutines of one event loop
  NoCall, NoMessage,
  MaxInterrupts  \* KeyboardInterrupts, a bound

ASSUME IncomingAssumption == Incoming \subseteq Message
ASSUME CallAssumption == ThreadCall \cap TaskCall = {}
ASSUME NobodyAssumption == NoCall \notin ThreadCall \cup TaskCall
                           /\ NoMessage \notin Message
ASSUME InterruptAssumption == MaxInterrupts \in Nat

Call == ThreadCall \cup TaskCall

VARIABLES
  \* the calls
  pc, op, msg, outcome,
  cancelled,   \* the tasks that were cancelled while they waited
  interrupts,  \* how many calls a KeyboardInterrupt has hit
  \* the aio of each call
  aio,     \* "idle", "pending", "cancelling", and while the completion
           \* callback of a receive runs "callback" and then "unlocking"
  result,  \* nng_aio_result: "none", "ok" or "failed"
  done,    \* pynng_sync_recv.done
  \* the messages
  place,      \* who has the nng_msg: "peer", "object", "aio", "nng", "freed"
  wrapped,    \* the messages that have a live Message object
  mem_freed,  \* the messages whose _mem_freed is TRUE
  lock,       \* the holder of _mem_freed_lock
  freed_recv  \* the receives whose pynng_sync_recv is freed

callVars == <<op, msg, cancelled, interrupts>>
aioVars == <<aio, result, done, freed_recv>>
msgVars == <<place, wrapped, mem_freed, lock>>
vars == <<pc, op, msg, outcome, cancelled, interrupts, aio, result, done,
          place, wrapped, mem_freed, lock, freed_recv>>

Init ==
  /\ pc = [c \in Call |-> "new"]
  /\ op = [c \in Call |-> "none"]
  /\ msg = [c \in Call |-> NoMessage]
  /\ outcome = [c \in Call |-> "none"]
  /\ cancelled = {} /\ interrupts = 0
  /\ aio = [c \in Call |-> "idle"]
  /\ result = [c \in Call |-> "none"]
  /\ done = {}
  /\ place = [m \in Message |-> IF m \in Incoming THEN "peer" ELSE "object"]
  /\ wrapped = Message \ Incoming
  /\ mem_freed = {}
  /\ lock = [m \in Message |-> NoCall]
  /\ freed_recv = {}

(* A task waits for the lock inside Lock.acquire: its loop stands still.   *)
LoopStands == \E c \in TaskCall : pc[c] = "locking"

Runs(c) == c \in TaskCall => ~LoopStands

Goto(c, label) == pc' = [pc EXCEPT ![c] = label] /\ UNCHANGED outcome

Finish(c, o) ==
  /\ pc' = [pc EXCEPT ![c] = "ended"]
  /\ outcome' = [outcome EXCEPT ![c] = o]

(* Mutation: the lock is kept.                                             *)
Unlock_Never(c) == UNCHANGED lock

Unlock(c) == lock' = [lock EXCEPT ![msg[c]] = NoCall]

MovesTo(c, where) == place' = [place EXCEPT ![msg[c]] = where]

------------------------------------------------------------------------------
(* Entering a call, and what every sender and reader does first.           *)

(* Operations on a Message somebody holds.  "read" stands for header, copy *)
(* and header_append, header_trim, header_chop and header_clear.           *)
Operations(c) == IF c \in TaskCall THEN {"asend", "read"}
                 ELSE {"send", "ctx_send", "read"}

Receives(c) == op[c] \in {"recv", "recv_into"}

(* A Message in the user's hands: not one that its call has not returned,  *)
(* or that recv_into keeps to itself.                                      *)
Held(m) ==
  /\ m \in wrapped
  /\ \A c \in Call : Receives(c) /\ msg[c] = m =>
       op[c] = "recv" /\ pc[c] = "ended" /\ outcome[c] = "ok"

Start(c) ==
  /\ pc[c] = "new" /\ Runs(c)
  /\ \E o \in Operations(c), m \in Message :
       /\ Held(m)
       /\ op' = [op EXCEPT ![c] = o]
       /\ msg' = [msg EXCEPT ![c] = m]
  /\ Goto(c, "locking")
  /\ UNCHANGED <<cancelled, interrupts, aioVars, msgVars>>

(* Mutation: the message is not looked at again.                           *)
EnsureCanSend_Never(c) == TRUE

(* _ensure_can_send, and the same test in header, copy and _buffer.        *)
EnsureCanSend(c) == msg[c] \notin mem_freed

(* MessageStateError.                                                      *)
LockRefused(c) ==
  /\ pc[c] = "locking" /\ lock[msg[c]] = NoCall
  /\ ~EnsureCanSend(c)
  /\ Finish(c, "state_error")
  /\ UNCHANGED <<callVars, aioVars, msgVars>>

Read(c) ==
  /\ pc[c] = "locking" /\ lock[msg[c]] = NoCall
  /\ op[c] = "read" /\ EnsureCanSend(c)
  /\ Finish(c, "ok")
  /\ UNCHANGED <<callVars, aioVars, msgVars>>

LockForSend(c) ==
  /\ pc[c] = "locking" /\ lock[msg[c]] = NoCall
  /\ op[c] \in {"send", "ctx_send"} /\ EnsureCanSend(c)
  /\ lock' = [lock EXCEPT ![msg[c]] = c]
  /\ Goto(c, "owning")
  /\ UNCHANGED <<callVars, aioVars, place, wrapped, mem_freed>>

(* Mutation: ownership is given up after the call to nng, if at all.       *)
GiveUp_Late(c) ==
  /\ pc[c] = "owning"
  /\ Goto(c, "given")
  /\ UNCHANGED <<callVars, aioVars, msgVars>>

(* "Give up ownership before the call".                                    *)
GiveUp(c) ==
  /\ pc[c] = "owning"
  /\ mem_freed' = mem_freed \cup {msg[c]}
  /\ Goto(c, "given")
  /\ UNCHANGED <<callVars, aioVars, place, wrapped, lock>>

------------------------------------------------------------------------------
(* Socket.send_msg.                                                        *)

NngSendmsg(c) ==
  /\ op[c] = "send" /\ pc[c] = "given"
  /\ \/ MovesTo(c, "nng") /\ Goto(c, "sent")
        /\ result' = [result EXCEPT ![c] = "ok"]
     \/ UNCHANGED place /\ Goto(c, "refused")
        /\ result' = [result EXCEPT ![c] = "failed"]
  /\ UNCHANGED <<callVars, aio, done, freed_recv, wrapped,
                 mem_freed, lock>>

SendReturns(c) ==
  /\ pc[c] = "sent"
  /\ Finish(c, "ok") /\ Unlock(c)
  /\ UNCHANGED <<callVars, aioVars, place, wrapped, mem_freed>>

(* Mutation: a refused message is not the Message's again.                 *)
SendRaises_Keeps(c) ==
  /\ pc[c] = "refused"
  /\ Finish(c, "error") /\ Unlock(c)
  /\ UNCHANGED <<callVars, aioVars, place, wrapped, mem_freed>>

SendRaises(c) ==
  /\ pc[c] = "refused"
  /\ mem_freed' = mem_freed \ {msg[c]}
  /\ Finish(c, "error") /\ Unlock(c)
  /\ UNCHANGED <<callVars, aioVars, place, wrapped>>

------------------------------------------------------------------------------
(* Context.send_msg.                                                       *)

(* nng_aio_alloc failed.                                                   *)
CtxAllocFails(c) ==
  /\ op[c] = "ctx_send" /\ pc[c] = "owning"
  /\ Finish(c, "error") /\ Unlock(c)
  /\ UNCHANGED <<callVars, aioVars, place, wrapped, mem_freed>>

CtxSetMsg(c) ==
  /\ op[c] = "ctx_send" /\ pc[c] = "given"
  /\ MovesTo(c, "aio") /\ Goto(c, "armed")
  /\ UNCHANGED <<callVars, aioVars, wrapped, mem_freed, lock>>

CtxSend(c) ==
  /\ pc[c] = "armed"
  /\ aio' = [aio EXCEPT ![c] = "pending"]
  /\ Goto(c, "waiting")
  /\ UNCHANGED <<callVars, result, done, freed_recv,
                 msgVars>>

(* nng_aio_wait has returned; the result decides what the call ends with.  *)
CtxResult(c) ==
  /\ pc[c] = "waiting" /\ aio[c] = "idle"
  /\ pc' = [pc EXCEPT ![c] = "finally"]
  /\ outcome' = [outcome EXCEPT ![c] = IF result[c] = "ok" THEN "ok" ELSE "error"]
  /\ UNCHANGED <<callVars, aioVars, msgVars>>

(* "if send_started: nng_aio_cancel; nng_aio_wait".                        *)
CtxCancel(c) ==
  /\ pc[c] = "finally" /\ aio[c] = "pending"
  /\ aio' = [aio EXCEPT ![c] = "cancelling"]
  /\ UNCHANGED <<pc, outcome, callVars, result, done, freed_recv,
                 msgVars>>

(* Mutation: the message is taken back without asking the aio.             *)
TakesBack_Always(c) == TRUE

(* nng_aio_get_msg: nng cleared the aio's message if it consumed it.       *)
TakesBack(c) == place[msg[c]] = "aio"

CtxTakeBack(c) ==
  /\ pc[c] = "finally" /\ aio[c] = "idle"
  /\ IF TakesBack(c)
     THEN /\ place' = [place EXCEPT ![msg[c]] = IF @ = "aio" THEN "object" ELSE @]
          /\ Goto(c, "taken_back")
     ELSE UNCHANGED place /\ Goto(c, "handed_over")
  /\ UNCHANGED <<callVars, aioVars, wrapped, mem_freed, lock>>

CtxReturns(c) ==
  /\ pc[c] \in {"taken_back", "handed_over"}
  /\ mem_freed' = IF pc[c] = "taken_back" THEN mem_freed \ {msg[c]} ELSE mem_freed
  /\ Finish(c, outcome[c]) /\ Unlock(c)
  /\ UNCHANGED <<callVars, aioVars, place, wrapped>>

------------------------------------------------------------------------------
(* asend_msg of a Socket or a Context: with the lock, up to the await.     *)

Asend(c) ==
  /\ op[c] = "asend" /\ pc[c] = "locking" /\ lock[msg[c]] = NoCall
  /\ EnsureCanSend(c)
  /\ lock' = [lock EXCEPT ![msg[c]] = c]
  /\ MovesTo(c, "aio")
  /\ mem_freed' = mem_freed \cup {msg[c]}
  /\ aio' = [aio EXCEPT ![c] = "pending"]
  /\ Goto(c, "awaiting")
  /\ UNCHANGED <<callVars, result, done, freed_recv, wrapped>>

(* The helper cannot be made, or _prepare_aio raises: nothing was done.    *)
AsendFails(c) ==
  /\ op[c] = "asend" /\ pc[c] = "locking" /\ lock[msg[c]] = NoCall
  /\ EnsureCanSend(c)
  /\ Finish(c, "error")
  /\ UNCHANGED <<callVars, aioVars, msgVars>>

CancelTask(c) ==
  /\ pc[c] = "awaiting" /\ c \notin cancelled /\ Runs(c)
  /\ cancelled' = cancelled \cup {c}
  /\ aio' = [aio EXCEPT ![c] = IF @ = "pending" THEN "cancelling" ELSE @]
  /\ UNCHANGED <<pc, outcome, op, msg, interrupts, result, done, freed_recv,
                 msgVars>>

(* Mutation: what is left in the aio is not freed.                         *)
FreeLeftover_Never(c) == UNCHANGED place

FreeLeftover(c) ==
  place' = [place EXCEPT ![msg[c]] = IF @ = "aio" THEN "freed" ELSE @]

(* The loop resumes the task when the aio is over.                         *)
AsendReturns(c) ==
  /\ pc[c] = "awaiting" /\ aio[c] = "idle" /\ Runs(c)
  /\ LET o == IF c \in cancelled THEN "cancelled"
              ELSE IF result[c] = "ok" THEN "ok" ELSE "error"
     IN /\ IF o = "ok" THEN UNCHANGED place ELSE FreeLeftover(c)
        /\ Finish(c, o)
  /\ Unlock(c)
  /\ UNCHANGED <<callVars, aioVars, wrapped, mem_freed>>

------------------------------------------------------------------------------
(* The sliced receive on a thread.                                         *)

(* recv_msg of a Socket or a Context, or recv_into, which a thread calls.  *)
Receive(c) ==
  /\ c \in ThreadCall /\ pc[c] = "new"
  /\ \E o \in {"recv", "recv_into"} : op' = [op EXCEPT ![c] = o]

(* A queued message is taken at once: with block=False, or on the first    *)
(* try or after the yield.                                                 *)
RecvQueued(c) ==
  /\ Receive(c)
  /\ \E m \in Message :
       /\ place[m] = "peer"
       /\ place' = [place EXCEPT ![m] = "object"]
       /\ msg' = [msg EXCEPT ![c] = m]
  /\ Goto(c, "wrapping")
  /\ UNCHANGED <<cancelled, interrupts, aioVars, wrapped, mem_freed, lock>>

(* nng has no message and the call is not to wait, or nng refuses it, or   *)
(* the struct of the receive cannot be made.                               *)
RecvRaises(c) ==
  /\ Receive(c)
  /\ Finish(c, "error")
  /\ UNCHANGED <<msg, cancelled, interrupts, aioVars, msgVars>>

(* NNG_EAGAIN twice, or no message taken first: the aio is started.        *)
RecvStart(c) ==
  /\ Receive(c)
  /\ aio' = [aio EXCEPT ![c] = "pending"]
  /\ Goto(c, "started")
  /\ UNCHANGED <<msg, cancelled, interrupts, result, done, freed_recv, msgVars>>

RecvWaits(c) ==
  /\ pc[c] = "started"
  /\ Goto(c, "slicing")
  /\ UNCHANGED <<callVars, aioVars, msgVars>>

(* pynng_sync_recv_wait returns 1; a slice that ends before changes        *)
(* nothing.                                                                *)
RecvDone(c) ==
  /\ pc[c] = "slicing" /\ c \in done
  /\ IF result[c] = "ok" THEN Goto(c, "taking")
     ELSE /\ pc' = [pc EXCEPT ![c] = "freeing"]
          /\ outcome' = [outcome EXCEPT ![c] = "error"]
  /\ UNCHANGED <<callVars, aioVars, msgVars>>

(* nng_aio_get_msg.                                                        *)
RecvTake(c) ==
  /\ pc[c] = "taking"
  /\ MovesTo(c, "object")
  /\ pc' = [pc EXCEPT ![c] = "freeing"]
  /\ outcome' = [outcome EXCEPT ![c] = "ok"]
  /\ UNCHANGED <<callVars, aioVars, wrapped, mem_freed, lock>>

(* nng_aio_cancel after an interrupt, and the stop in nng_aio_free.        *)
RecvCancel(c) ==
  /\ pc[c] \in {"aborting", "freeing"} /\ aio[c] = "pending"
  /\ aio' = [aio EXCEPT ![c] = "cancelling"]
  /\ UNCHANGED <<pc, outcome, callVars, result, done, freed_recv, msgVars>>

(* nng_aio_wait has returned; the message may have come before the cancel. *)
RecvAborted(c) ==
  /\ pc[c] = "aborting" /\ aio[c] = "idle"
  /\ IF result[c] = "ok" THEN MovesTo(c, "freed") ELSE UNCHANGED place
  /\ Goto(c, "freeing")
  /\ UNCHANGED <<callVars, aioVars, wrapped, mem_freed, lock>>

(* Mutation: the condition variable and the mutex are freed first.         *)
AioReturned_Ignored(c) == TRUE

(* "nng_aio_free() waits for a running callback to return".                *)
AioReturned(c) == aio[c] = "idle"

RecvFree(c) ==
  /\ pc[c] = "freeing" /\ AioReturned(c)
  /\ freed_recv' = freed_recv \cup {c}
  /\ Goto(c, IF outcome[c] = "ok" THEN "wrapping" ELSE "ended")
  /\ UNCHANGED <<callVars, aio, result, done, msgVars>>

(* The Message is made.                                                    *)
Wrap(c) ==
  /\ pc[c] = "wrapping"
  /\ wrapped' = wrapped \cup {msg[c]}
  /\ Goto(c, "wrapped")
  /\ UNCHANGED <<callVars, aioVars, place, mem_freed, lock>>

(* It finds its pipe (see PipeEvents) and is returned.                     *)
RecvReturns(c) ==
  /\ pc[c] = "wrapped" /\ op[c] = "recv"
  /\ Finish(c, "ok")
  /\ UNCHANGED <<callVars, aioVars, msgVars>>

(* recv_into copies the body under the lock and drops the Message.         *)
CopyInto(c) ==
  /\ pc[c] = "wrapped" /\ op[c] = "recv_into"
  /\ lock[msg[c]] = NoCall
  /\ Finish(c, "ok")
  /\ UNCHANGED <<callVars, aioVars, msgVars>>

------------------------------------------------------------------------------
(* A KeyboardInterrupt.                                                    *)

HoldsLock(c) == msg[c] # NoMessage /\ lock[msg[c]] = c

(* The exception leaves the call.                                          *)
LeavesCall(c) ==
  /\ Finish(c, "interrupted")
  /\ lock' = IF HoldsLock(c) THEN [lock EXCEPT ![msg[c]] = NoCall] ELSE lock

(* It is caught by a try, whose cleanup comes next.                        *)
RunsCleanup(c, label) ==
  /\ pc' = [pc EXCEPT ![c] = label]
  /\ outcome' = [outcome EXCEPT ![c] = "interrupted"]
  /\ UNCHANGED lock

Interrupt(c) ==
  /\ c \in ThreadCall
  /\ interrupts < MaxInterrupts
  /\ interrupts' = interrupts + 1
  /\ \/ /\ pc[c] \in {"locking", "owning", "given", "sent", "refused",
                      "finally", "taken_back", "handed_over"}
        /\ LeavesCall(c)
     \/ /\ op[c] = "ctx_send" /\ pc[c] \in {"given", "armed", "waiting"}
        /\ RunsCleanup(c, "finally")
     \/ pc[c] = "slicing" /\ RunsCleanup(c, "aborting")
     \/ pc[c] \in {"started", "taking", "aborting"} /\ RunsCleanup(c, "freeing")
     \/ pc[c] \in {"freeing", "wrapping", "wrapped"} /\ LeavesCall(c)
  /\ UNCHANGED <<op, msg, cancelled, aioVars, place, wrapped, mem_freed>>

------------------------------------------------------------------------------
(* nng's threads, and the finalizer.                                       *)

NngSends(c) ==
  /\ ~Receives(c) /\ aio[c] \in {"pending", "cancelling"}
  /\ \/ MovesTo(c, "nng") /\ result' = [result EXCEPT ![c] = "ok"]
     \/ UNCHANGED place /\ result' = [result EXCEPT ![c] = "failed"]
  /\ aio' = [aio EXCEPT ![c] = "idle"]
  /\ UNCHANGED <<pc, outcome, callVars, done, freed_recv, wrapped,
                 mem_freed, lock>>

NngReceives(c) ==
  /\ Receives(c) /\ aio[c] \in {"pending", "cancelling"}
  /\ \/ \E m \in Message :
          /\ place[m] = "peer"
          /\ place' = [place EXCEPT ![m] = "aio"]
          /\ msg' = [msg EXCEPT ![c] = m]
          /\ result' = [result EXCEPT ![c] = "ok"]
     \/ UNCHANGED <<place, msg>> /\ result' = [result EXCEPT ![c] = "failed"]
  /\ aio' = [aio EXCEPT ![c] = "callback"]
  /\ UNCHANGED <<pc, outcome, op, cancelled, interrupts, done, freed_recv,
                 wrapped, mem_freed, lock>>

(* _pynng_sync_recv_complete.                                              *)
CallbackSetsDone(c) ==
  /\ aio[c] = "callback"
  /\ done' = done \cup {c}
  /\ aio' = [aio EXCEPT ![c] = "unlocking"]
  /\ UNCHANGED <<pc, outcome, callVars, result, freed_recv, msgVars>>

CallbackReturns(c) ==
  /\ aio[c] = "unlocking"
  /\ aio' = [aio EXCEPT ![c] = "idle"]
  /\ UNCHANGED <<pc, outcome, callVars, result, done, freed_recv, msgVars>>

(* Message.__del__, once no call refers to the Message.                    *)
Finalize(m) ==
  /\ m \in wrapped
  /\ \A c \in Call : msg[c] = m => pc[c] = "ended"
  /\ wrapped' = wrapped \ {m}
  /\ mem_freed' = mem_freed \cup {m}
  /\ place' = IF m \in mem_freed THEN place ELSE [place EXCEPT ![m] = "freed"]
  /\ UNCHANGED <<pc, outcome, callVars, aioVars, lock>>

------------------------------------------------------------------------------
(* The specification.                                                      *)

Enter(c) == \/ LockRefused(c) \/ Read(c) \/ LockForSend(c) \/ GiveUp(c)
            \/ Asend(c) \/ AsendFails(c)

Sending(c) == \/ NngSendmsg(c) \/ SendReturns(c) \/ SendRaises(c)
              \/ CtxAllocFails(c) \/ CtxSetMsg(c) \/ CtxSend(c) \/ CtxResult(c)
              \/ CtxCancel(c) \/ CtxTakeBack(c) \/ CtxReturns(c)
              \/ AsendReturns(c)

Receiving(c) == \/ RecvWaits(c) \/ RecvDone(c) \/ RecvTake(c) \/ RecvCancel(c)
                \/ RecvAborted(c) \/ RecvFree(c) \/ Wrap(c)
                \/ RecvReturns(c) \/ CopyInto(c)

Nng(c) == \/ NngSends(c) \/ NngReceives(c)
          \/ CallbackSetsDone(c) \/ CallbackReturns(c)

Next ==
  \/ \E c \in Call : \/ Start(c) \/ RecvQueued(c) \/ RecvRaises(c) \/ RecvStart(c)
                     \/ Enter(c) \/ Sending(c) \/ Receiving(c) \/ Nng(c)
                     \/ CancelTask(c) \/ Interrupt(c)
  \/ \E m \in Message : Finalize(m)

(* No call is under way.                                                   *)
Finished ==
  /\ \A c \in Call : pc[c] \in {"new", "ended"}
  /\ UNCHANGED vars

Spec == Init /\ [][Next \/ Finished]_vars

(* Calls go on and nng ends every operation: its messages find a peer.     *)
Fairness ==
  \A c \in Call : /\ WF_vars(Enter(c)) /\ WF_vars(Sending(c))
                  /\ WF_vars(Receiving(c)) /\ WF_vars(Nng(c))

FairSpec == Spec /\ Fairness

------------------------------------------------------------------------------
(* Properties.                                                             *)

Labels == {"new", "locking", "owning", "given", "sent", "refused", "armed",
           "waiting", "finally", "taken_back", "handed_over", "awaiting",
           "started", "slicing", "taking", "aborting", "freeing", "wrapping",
           "wrapped", "ended"}
Locked == {"owning", "given", "sent", "refused", "armed", "waiting",
           "finally", "taken_back", "handed_over", "awaiting"}

(* Every variable stays in its range, and the lock of a message is with    *)
(* the one call that is between its acquire and its release.               *)
TypeOK ==
  /\ pc \in [Call -> Labels]
  /\ op \in [Call -> {"none", "send", "ctx_send", "asend", "read", "recv",
                       "recv_into"}]
  /\ msg \in [Call -> Message \cup {NoMessage}]
  /\ outcome \in [Call -> {"none", "ok", "error", "state_error", "cancelled",
                           "interrupted"}]
  /\ cancelled \subseteq TaskCall /\ interrupts \in 0..MaxInterrupts
  /\ aio \in [Call -> {"idle", "pending", "cancelling", "callback",
                       "unlocking"}]
  /\ result \in [Call -> {"none", "ok", "failed"}]
  /\ done \subseteq Call /\ freed_recv \subseteq Call
  /\ place \in [Message -> {"peer", "object", "aio", "nng", "freed"}]
  /\ mem_freed \subseteq Message /\ wrapped \subseteq Message
  /\ lock \in [Message -> Call \cup {NoCall}]
  /\ \A c \in Call : pc[c] \in Locked <=> HoldsLock(c)

(* "an exception at any point (such as KeyboardInterrupt) can at worst     *)
(* leak the msg, never free it twice": a Message nobody is sending that    *)
(* holds itself for the owner of its nng_msg is the owner.                 *)
NeverFreedTwice ==
  \A m \in wrapped \ mem_freed : lock[m] = NoCall => place[m] = "object"

(* Only a KeyboardInterrupt leaks: otherwise a message that was given up   *)
(* is with nng or freed once the calls that know it have ended.            *)
NoLeak ==
  \A m \in Message :
    place[m] = "aio" \/ (place[m] = "object" /\ m \notin wrapped \ mem_freed) =>
      \E c \in Call : msg[c] = m /\ (pc[c] # "ended" \/ outcome[c] = "interrupted")

(* nng accepts a message once, however many calls send it and however they *)
(* are interrupted or cancelled.                                           *)
SentOnce ==
  \A m \in Message :
    Cardinality({c \in Call : msg[c] = m /\ ~Receives(c)
                                /\ result[c] = "ok"}) <= 1

(* A send_msg that raises what nng answered, such as TryAgain or Timeout,  *)
(* leaves the caller a message that can be sent again.                     *)
RefusedSendKeepsMessage ==
  [][\A c \in ThreadCall :
       pc[c] # "ended" /\ pc'[c] = "ended" /\ outcome'[c] = "error"
         /\ op[c] \in {"send", "ctx_send"}
       => msg[c] \notin mem_freed' /\ place'[msg[c]] = "object"]_vars

(* The mutex and the condition variable of a receive are not freed while   *)
(* the completion callback may use them.                                   *)
SyncRecvOutlivesCallback == \A c \in freed_recv : aio[c] = "idle"

(* "Attempted to send the same message more than once.", says the          *)
(* MessageStateError of a second send: a call that finds the message taken *)
(* is answered.  It is not when it is a coroutine of the loop that the     *)
(* first asend_msg waits on.                                               *)
SecondSendAnswered ==
  \A c \in Call : (pc[c] = "locking") ~> (pc[c] # "locking")
=============================================================================
