----------------------- MODULE MessageOwnershipProofs -----------------------
(***************************************************************************)
(* Theorems about MessageOwnership for any number of threads, tasks,       *)
(* messages and interrupts: no nng_msg is freed twice, none is sent twice, *)
(* none is lost but by an interrupt, a refused send keeps its message, and *)
(* the receive on a thread outlives its completion callback.               *)
(*                                                                         *)
(* They follow from one inductive invariant, Inv, which says how far each  *)
(* call has come with its message.  A step is one call's, and it moves at  *)
(* most that call's message: SenderMoves and ReceiverMoves show that the   *)
(* other calls do not notice.                                              *)
(***************************************************************************)
EXTENDS MessageOwnership, FiniteSetTheorems, TLAPS

------------------------------------------------------------------------------
(* The inductive invariant.                                                *)

Sends(c) == op[c] \in {"send", "ctx_send", "asend", "read"}

(* The call has handed the message to nng, or nng has already taken it.    *)
Spent(c) == Sends(c) /\ (result[c] = "ok" \/ aio[c] # "idle")

(* TypeOK in two parts: the ranges, and who holds a lock.                  *)
Ranges ==
  /\ pc \in [Call -> Labels]
  /\ op \in [Call -> {"none", "send", "ctx_send", "asend", "read", "recv",
                       "recv_into"}]
  /\ msg \in [Call -> Message \cup {NoMessage}]
  /\ outcome \in [Call -> {"none", "ok", "error", "state_error", "cancelled",
                           "interrupted"}]
  /\ cancelled \subseteq TaskCall /\ interrupts \in 0..MaxInterrupts
  /\ aio \in [Call -> {"idle", "pending", "cancelling", "callback",
                       "unlocking"}]
  /\ result \in [Call -> {"none", "ok", "failed"}]
  /\ done \subseteq Call /\ freed_recv \subseteq Call
  /\ place \in [Message -> {"peer", "object", "aio", "nng", "freed"}]
  /\ mem_freed \subseteq Message /\ wrapped \subseteq Message
  /\ lock \in [Message -> Call \cup {NoCall}]

Holders == \A c \in Call : pc[c] \in Locked <=> HoldsLock(c)

(* Which steps an operation has, and who makes it.                         *)
CallOp(c) ==
  /\ op[c] = "none" <=> pc[c] = "new"
  /\ op[c] = "read" => pc[c] \in {"locking", "ended"}
  /\ op[c] = "send" =>
       pc[c] \in {"locking", "owning", "given", "sent", "refused", "ended"}
  /\ op[c] = "ctx_send" =>
       pc[c] \in {"locking", "owning", "given", "armed", "waiting", "finally",
                  "taken_back", "handed_over", "ended"}
  /\ op[c] = "asend" => c \in TaskCall /\ pc[c] \in {"locking", "awaiting", "ended"}
  /\ Receives(c) =>
       pc[c] \in {"started", "slicing", "taking", "aborting", "freeing",
                  "wrapping", "wrapped", "ended"}

(* The lock is with a call that uses the message.                          *)
LockOK == \A m \in Message : lock[m] # NoCall => msg[lock[m]] = m

(* How far a sender has come (p), with its aio (a), its result (r), what   *)
(* it is to end with (o), who has the nng_msg (w), whether the Message has *)
(* given it up (f).                                                        *)
SendPhase(p, a, r, o, w, f) ==
  /\ a \in {"idle", "pending", "cancelling"}
  /\ a # "idle" => r = "none" /\ w = "aio" /\ f
  /\ r = "ok" => w = "nng" /\ f
  /\ p \in {"locking", "owning", "given", "armed"} => a = "idle" /\ r = "none"
  /\ p = "owning" => w = "object" /\ ~f
  /\ p \in Locked \ {"owning"} => f
  /\ p = "given" => w = "object"
  /\ p = "sent" => a = "idle" /\ r = "ok"
  /\ p = "refused" => a = "idle" /\ r = "failed" /\ w = "object"
  /\ p = "armed" => w = "aio"
  /\ p \in {"waiting", "awaiting"} =>
       /\ a = "idle" => r # "none"
       /\ r # "ok" => w = "aio"
  /\ p = "finally" =>
       /\ o \in {"ok", "error", "interrupted"}
       /\ a # "idle" => o = "interrupted"
       /\ o = "ok" => r = "ok"
       /\ o = "error" => w = "aio"
       /\ r # "ok" => w \in {"aio", "object"}
       /\ w = "object" => o = "interrupted"
  /\ p = "taken_back" =>
       a = "idle" /\ r # "ok" /\ w = "object" /\ o \in {"error", "interrupted"}
  /\ p = "handed_over" =>
       /\ a = "idle" /\ o \in {"ok", "interrupted"}
       /\ r = "ok" \/ (w = "object" /\ o = "interrupted")
  /\ p = "ended" /\ a # "idle" => o = "interrupted"

(* A message that is sent is in the users' hands, or was.                  *)
SenderOK(c) ==
  /\ msg[c] \in Message
  /\ SendPhase(pc[c], aio[c], result[c], outcome[c], place[msg[c]],
               msg[c] \in mem_freed)
  /\ pc[c] # "ended" => msg[c] \in wrapped
  /\ msg[c] \in wrapped \cup mem_freed
  /\ pc[c] = "ended" /\ aio[c] # "idle" => lock[msg[c]] = NoCall
  /\ \A d \in Call : Receives(d) /\ msg[d] = msg[c] =>
       op[d] = "recv" /\ pc[d] = "ended" /\ outcome[d] = "ok"

(* The same of a receiver; the message it has, if it has one, is nobody    *)
(* else's until the call returns it.                                       *)
ReceivePhase(p, a, r, o, m) ==
  /\ a \in {"pending", "cancelling"} => r = "none"
  /\ a \in {"callback", "unlocking"} => r # "none"
  /\ a # "idle" => p \notin {"wrapping", "wrapped"}
  /\ a # "idle" /\ p = "ended" => o = "interrupted"
  /\ r = "ok" => m \in Message
  /\ r # "ok" /\ m \in Message =>
       a = "idle" /\ r = "none" /\ p \in {"wrapping", "wrapped", "ended"}
  /\ p \in {"started", "slicing", "aborting"} /\ a = "idle" => r # "none"
  /\ p = "aborting" => o = "interrupted"
  /\ p = "taking" => r = "ok" /\ a \in {"unlocking", "idle"}
  /\ p = "freeing" => 
       /\ o \in {"ok", "error", "interrupted"}
       /\ o = "ok" => r = "ok" /\ a \in {"unlocking", "idle"}
       /\ o = "error" => r = "failed" 
  /\ p \in {"wrapping", "wrapped"} => m \in Message
  /\ p = "ended" => o \in {"ok", "error", "interrupted"}
  /\ p = "ended" /\ o = "error" => m = NoMessage
  /\ p = "ended" /\ o = "ok" => m \in Message

(* Where its message is.                                                   *)
Brings(c, m) ==
  /\ place[m] # "peer"
  /\ pc[c] \in {"started", "slicing", "taking", "aborting"} => place[m] = "aio"
  /\ pc[c] \in {"freeing", "wrapping"} /\ outcome[c] = "ok" => place[m] = "object"
  /\ pc[c] \in {"wrapping", "wrapped"} => place[m] = "object"
  /\ pc[c] \notin {"wrapped", "ended"} => m \notin wrapped \cup mem_freed
  /\ pc[c] = "wrapped" => m \in wrapped \ mem_freed
  /\ pc[c] = "ended" => outcome[c] = "interrupted" \/ m \in wrapped \cup mem_freed
  /\ m \in wrapped \cup mem_freed => aio[c] = "idle"
  /\ ~(op[c] = "recv" /\ pc[c] = "ended" /\ outcome[c] = "ok") =>
       lock[m] = NoCall /\ (m \in mem_freed => m \notin wrapped)

ReceiverOK(c) ==
  /\ ReceivePhase(pc[c], aio[c], result[c], outcome[c], msg[c])
  /\ msg[c] \in Message => Brings(c, msg[c])
  /\ \A d \in Call : Receives(d) /\ msg[d] = msg[c] /\ msg[c] \in Message => d = c

(* What is true of a call.                                                 *)
CallOK(c) ==
  /\ CallOp(c)
  /\ op[c] = "none" => msg[c] = NoMessage /\ aio[c] = "idle" /\ result[c] = "none"
  /\ Sends(c) => SenderOK(c)
  /\ Receives(c) => ReceiverOK(c)
  /\ c \in done => Receives(c) /\ aio[c] \in {"unlocking", "idle"} /\ result[c] # "none"
  /\ c \in freed_recv =>
       Receives(c) /\ aio[c] = "idle" /\ pc[c] \in {"wrapping", "wrapped", "ended"}

(* nng gets a message from one call.                                       *)
SpentOnce == \A c, d \in Call : Spent(c) /\ Spent(d) /\ msg[c] = msg[d] => c = d

(* A message is nowhere that nobody knows of.                              *)
Lost(m) == place[m] = "aio" \/ (place[m] = "object" /\ m \notin wrapped \ mem_freed)

Witness(m) ==
  \/ lock[m] # NoCall
  \/ \E c \in Call : msg[c] = m /\ Receives(c) /\ pc[c] # "ended"
  \/ \E c \in Call : msg[c] = m /\ pc[c] = "ended" /\ outcome[c] = "interrupted"

MessageOK(m) ==
  /\ place[m] = "peer" => /\ m \notin wrapped \cup mem_freed /\ lock[m] = NoCall
                          /\ \A c \in Call : msg[c] # m
  /\ m \in wrapped \ mem_freed /\ lock[m] = NoCall => place[m] = "object"
  /\ Lost(m) => Witness(m)

Inv ==
  /\ Ranges /\ Holders /\ LockOK /\ SpentOnce
  /\ \A c \in Call : CallOK(c)
  /\ \A m \in Message : MessageOK(m)

(* What the invariant says at once.                                        *)
LEMMA InvType == Inv => TypeOK
BY DEF Inv, Ranges, Holders, TypeOK

(* Nothing has happened.                                                   *)
LEMMA InitInv == Init => Inv
<1> SUFFICES ASSUME Init PROVE Inv
  OBVIOUS
<1> USE DEF Init
<1>1. Ranges
  BY IncomingAssumption, InterruptAssumption DEF Ranges, Labels
<1>2. Holders /\ LockOK /\ SpentOnce
  BY NobodyAssumption DEF Holders, Locked, HoldsLock, LockOK, SpentOnce, Spent,
     Sends
<1>3. ASSUME NEW c \in Call PROVE CallOK(c)
  BY DEF CallOK, CallOp, Sends, Receives
<1>4. ASSUME NEW m \in Message PROVE MessageOK(m)
  BY NobodyAssumption DEF MessageOK, Lost
<1>5. QED
  BY <1>1, <1>2, <1>3, <1>4 DEF Inv

------------------------------------------------------------------------------
(* Every step keeps the ranges.                                            *)

(* A call that sends has a message, and one that wraps a message too.      *)
LEMMA HasMessage ==
  ASSUME Ranges, NEW c \in Call, CallOK(c),
         pc[c] \in Locked \cup {"locking", "taking", "wrapping", "wrapped"}
  PROVE  msg[c] \in Message
<1>1. Sends(c) \/ Receives(c)
  BY DEF CallOK, CallOp, Locked, Sends, Receives, Ranges
<1>2. CASE Sends(c)
  BY <1>2 DEF CallOK, SenderOK
<1>3. CASE Receives(c)
  BY <1>3 DEF CallOK, CallOp, ReceiverOK, ReceivePhase, Locked
<1>4. QED
  BY <1>1, <1>2, <1>3

(* A call that begins, and what every sender does first.                   *)
LEMMA EnterRanges ==
  ASSUME Ranges, NEW c \in Call, CallOK(c), Start(c) \/ Enter(c) PROVE Ranges'
<1>0. pc[c] \in {"locking", "owning"} => msg[c] \in Message
  BY HasMessage DEF Locked
<1> USE DEF Ranges, Labels, callVars, aioVars, msgVars, Goto, Finish
<1>1. CASE Start(c)
  BY <1>1 DEF Start, Operations
<1>2. CASE LockRefused(c) \/ Read(c) \/ AsendFails(c)
  BY <1>2 DEF LockRefused, Read, AsendFails
<1>3. CASE LockForSend(c) \/ GiveUp(c)
  BY <1>0, <1>3 DEF LockForSend, GiveUp
<1>4. CASE Asend(c)
  BY <1>0, <1>4 DEF Asend, MovesTo
<1>5. QED
  BY <1>1, <1>2, <1>3, <1>4 DEF Enter

(* The rest of a send.                                                     *)
LEMMA SendingRanges ==
  ASSUME Ranges, NEW c \in Call, CallOK(c), Sending(c) PROVE Ranges'
<1> USE DEF Ranges, Labels, callVars, aioVars, msgVars, Goto, Finish, MovesTo, Unlock
<1>1. CASE NngSendmsg(c)
  BY <1>1 DEF NngSendmsg
<1>2. CASE SendReturns(c) \/ SendRaises(c) \/ CtxAllocFails(c)
  BY <1>2 DEF SendReturns, SendRaises, CtxAllocFails
<1>3. CASE CtxSetMsg(c) \/ CtxSend(c) \/ CtxResult(c) \/ CtxCancel(c)
  BY <1>3 DEF CtxSetMsg, CtxSend, CtxResult, CtxCancel
<1>4. CASE CtxTakeBack(c)
  BY <1>4 DEF CtxTakeBack
<1>5. CASE CtxReturns(c)
  BY <1>5 DEF CtxReturns
<1>6. CASE AsendReturns(c)
  <2>1. /\ place' = place \/ FreeLeftover(c)
        /\ Unlock(c) /\ UNCHANGED <<callVars, aioVars, wrapped, mem_freed>>
    BY <1>6 DEF AsendReturns
  <2>2. place' \in [Message -> {"peer", "object", "aio", "nng", "freed"}]
    BY <2>1 DEF FreeLeftover
  <2>3. PICK o \in {"cancelled", "ok", "error"} :
          /\ pc' = [pc EXCEPT ![c] = "ended"]
          /\ outcome' = [outcome EXCEPT ![c] = o]
    BY <1>6 DEF AsendReturns
  <2>4. /\ pc' \in [Call -> Labels]
        /\ outcome' \in [Call -> {"none", "ok", "error", "state_error", "cancelled",
                                  "interrupted"}]
    BY <2>3
  <2>5. lock' \in [Message -> Call \cup {NoCall}]
    BY <2>1
  <2>6. QED
    BY <2>1, <2>2, <2>4, <2>5
<1>7. QED
  BY <1>1, <1>2, <1>3, <1>4, <1>5, <1>6 DEF Sending

(* A receive.                                                              *)
LEMMA ReceivingRanges ==
  ASSUME Ranges, NEW c \in Call, CallOK(c),
         \/ RecvQueued(c) \/ RecvRaises(c) \/ RecvStart(c) \/ Receiving(c)
  PROVE  Ranges'
<1> USE DEF Ranges, Labels, callVars, aioVars, msgVars, Goto, Finish, MovesTo
<1>1. CASE RecvQueued(c) \/ RecvRaises(c) \/ RecvStart(c)
  BY <1>1 DEF RecvQueued, RecvRaises, RecvStart, Receive
<1>2. CASE RecvWaits(c) \/ RecvDone(c) \/ RecvCancel(c)
  BY <1>2 DEF RecvWaits, RecvDone, RecvCancel
<1>3. CASE RecvTake(c) \/ RecvAborted(c)
  BY <1>3 DEF RecvTake, RecvAborted
<1>4. CASE RecvFree(c)
  BY <1>4 DEF RecvFree
<1>5. CASE Wrap(c)
  <2>1. msg[c] \in Message
    BY <1>5, HasMessage DEF Wrap
  <2>2. QED
    BY <1>5, <2>1 DEF Wrap
<1>6. CASE RecvReturns(c) \/ CopyInto(c)
  BY <1>6 DEF RecvReturns, CopyInto
<1>7. QED
  BY <1>1, <1>2, <1>3, <1>4, <1>5, <1>6 DEF Receiving

(* What happens to a call: a cancel, an interrupt, nng, and the finalizer. *)
LEMMA OtherRanges ==
  ASSUME Ranges, NEW c \in Call, CallOK(c),
         \/ CancelTask(c) \/ Interrupt(c) \/ Nng(c)
         \/ \E m \in Message : Finalize(m)
  PROVE  Ranges'
<1> USE InterruptAssumption
    DEF Ranges, Labels, callVars, aioVars, msgVars, Goto, Finish, MovesTo
<1>1. CASE CancelTask(c)
  <2>1. c \in TaskCall
    BY <1>1 DEF CancelTask, CallOK, CallOp, Receives
  <2>2. QED
    BY <1>1, <2>1 DEF CancelTask
<1>2. CASE Interrupt(c)
  <2>1. /\ interrupts' = interrupts + 1 /\ interrupts < MaxInterrupts
        /\ UNCHANGED <<op, msg, cancelled, aioVars, place, wrapped, mem_freed>>
    BY <1>2 DEF Interrupt
  <2>2. /\ \E l \in Labels : pc' = [pc EXCEPT ![c] = l]
        /\ outcome' = [outcome EXCEPT ![c] = "interrupted"]
        /\ lock' = lock \/ lock' = [lock EXCEPT ![msg[c]] = NoCall]
    BY <1>2 DEF Interrupt, LeavesCall, RunsCleanup
  <2>3. QED
    BY <2>1, <2>2
<1>3. CASE NngSends(c)
  BY <1>3 DEF NngSends
<1>4. CASE NngReceives(c)
  BY <1>4 DEF NngReceives
<1>5. CASE CallbackSetsDone(c) \/ CallbackReturns(c)
  BY <1>5 DEF CallbackSetsDone, CallbackReturns
<1>6. CASE \E m \in Message : Finalize(m)
  BY <1>6 DEF Finalize
<1>7. QED
  BY <1>1, <1>2, <1>3, <1>4, <1>5, <1>6 DEF Nng

------------------------------------------------------------------------------
(* A call of a sender moves its message, and no other call notices.        *)

(* Only call c goes on, and only message m moves.                          *)
OnlyCall(c) ==
  /\ op' = op /\ msg' = msg /\ done' = done /\ freed_recv' = freed_recv
  /\ wrapped' = wrapped
  /\ \A d \in Call \ {c} : pc'[d] = pc[d] /\ outcome'[d] = outcome[d]
                           /\ aio'[d] = aio[d] /\ result'[d] = result[d]

OnlyMessage(m) ==
  \A n \in Message \ {m} : place'[n] = place[n] /\ lock'[n] = lock[n]
                           /\ (n \in mem_freed' <=> n \in mem_freed)

(* Why it may: it has the lock, or it finds the message not given up, or   *)
(* nng is at work on its aio, or it changes nothing.                       *)
Entitled(c, m) ==
  \/ lock[m] = c
  \/ lock[m] = NoCall /\ m \notin mem_freed
  \/ aio[c] # "idle"
  \/ UNCHANGED <<place, mem_freed, lock>> /\ (Spent(c)' => Spent(c))

(* The lock is passed between the call and nobody.                         *)
LockMove(c, m) ==
  /\ lock'[m] = lock[m] \/ (lock[m] \in {c, NoCall} /\ lock'[m] \in {c, NoCall})
  /\ pc'[c] \in Locked <=> lock'[m] = c
  /\ pc'[c] = "ended" /\ aio'[c] # "idle" => lock'[m] = NoCall
  /\ pc[c] = "ended" => pc'[c] = "ended"

(* What becomes of the message.                                            *)
MessageMove(c, m) ==
  /\ place'[m] # "peer"
  /\ m \in wrapped \ mem_freed' /\ lock'[m] = NoCall => place'[m] = "object"
  /\ m \in mem_freed => m \in mem_freed' \/ m \in wrapped
  /\ Lost(m)' => \/ lock'[m] # NoCall
                 \/ pc'[c] = "ended" /\ outcome'[c] = "interrupted"
                 \/ Lost(m) /\ lock[m] = NoCall /\ pc[c] # "ended"

(* Two calls never both have nng at a message that they agree on.          *)
LEMMA Alone ==
  ASSUME Inv, NEW c \in Call, NEW d \in Call, c # d, Sends(c), Sends(d),
         msg[c] = msg[d],
         \/ lock[msg[c]] = c
         \/ lock[msg[c]] = NoCall /\ msg[c] \notin mem_freed
         \/ aio[c] # "idle"
  PROVE  ~Spent(d) /\ pc[d] \in {"locking", "ended"}
<1> DEFINE m == msg[c]
<1>1. /\ SenderOK(c) /\ SenderOK(d) /\ m \in Message
      /\ (pc[c] \in Locked <=> HoldsLock(c)) /\ (pc[d] \in Locked <=> HoldsLock(d))
  BY DEF Inv, CallOK, SenderOK, Holders
<1>2. /\ pc[c] \in {"locking", "ended"} \/ lock[m] = c
      /\ pc[d] \in {"locking", "ended"} \/ lock[m] = d
  BY <1>1 DEF Inv, CallOK, CallOp, Sends, Locked, HoldsLock
<1>3. Spent(d) => m \in mem_freed /\ ~Spent(c)
  BY <1>1 DEF SenderOK, SendPhase, Spent, Inv, SpentOnce
<1>4. ASSUME lock[m] = c PROVE ~Spent(d) /\ lock[m] # d
  <2>1. pc[c] \in Locked /\ lock[m] # d
    BY <1>1, <1>4, NobodyAssumption DEF HoldsLock, Call
  <2>2. pc[d] \in {"locking", "ended"}
    BY <1>2, <2>1
  <2>3. SUFFICES ASSUME Spent(d) PROVE FALSE
    BY <2>1
  <2>4. m \in mem_freed /\ aio[c] = "idle" /\ result[c] # "ok"
    BY <1>3, <2>3 DEF Spent
  <2>5. result[d] = "ok"
    BY <1>1, <1>4, <2>2, <2>3, NobodyAssumption DEF SenderOK, SendPhase, Spent,
       Call
  <2>6. place[m] = "nng"
    BY <1>1, <2>5 DEF SenderOK, SendPhase
  <2>7. place[m] # "nng"
    BY <1>1, <2>1, <2>4 DEF SenderOK, SendPhase, Locked
  <2>8. QED
    BY <2>6, <2>7
<1>5. ASSUME lock[m] = NoCall, m \notin mem_freed PROVE ~Spent(d) /\ lock[m] # d
  BY <1>3, <1>5, NobodyAssumption DEF Call
<1>6. ASSUME lock[m] # c, aio[c] # "idle" PROVE ~Spent(d) /\ lock[m] # d
  <2>1. pc[c] = "ended"
    BY <1>1, <1>2, <1>6 DEF SenderOK, SendPhase
  <2>2. lock[m] = NoCall
    BY <1>1, <1>6, <2>1 DEF SenderOK
  <2>3. Spent(c)
    BY <1>6 DEF Spent
  <2>4. QED
    BY <1>3, <2>2, <2>3, NobodyAssumption DEF Call
<1>7. QED
  BY <1>2, <1>4, <1>5, <1>6

(* A sender goes on with its message and the invariant holds.              *)
LEMMA SenderMoves ==
  ASSUME Inv, Ranges', NEW c \in Call, Sends(c), OnlyCall(c), OnlyMessage(msg[c]),
         Entitled(c, msg[c]), LockMove(c, msg[c]), MessageMove(c, msg[c]),
         CallOp(c)',
         SendPhase(pc[c], aio[c], result[c], outcome[c], place[msg[c]],
                   msg[c] \in mem_freed)'
  PROVE  Inv'
<1> DEFINE m == msg[c]
<1>1. /\ SenderOK(c) /\ m \in Message
      /\ \A d \in Call : Receives(d) /\ msg[d] = m =>
           op[d] = "recv" /\ pc[d] = "ended" /\ outcome[d] = "ok"
  BY DEF Inv, CallOK, SenderOK
<1>2. /\ op' = op /\ msg' = msg /\ done' = done /\ freed_recv' = freed_recv
      /\ wrapped' = wrapped
      /\ \A d \in Call \ {c} : pc'[d] = pc[d] /\ outcome'[d] = outcome[d]
                               /\ aio'[d] = aio[d] /\ result'[d] = result[d]
      /\ \A d : Sends(d)' = Sends(d) /\ Receives(d)' = Receives(d)
  BY DEF OnlyCall, Sends, Receives
<1>3. \A n \in Message : n # m =>
        /\ place'[n] = place[n] /\ lock'[n] = lock[n]
        /\ n \in mem_freed' <=> n \in mem_freed
  BY DEF OnlyMessage
<1>4. \A d \in Call : d # c /\ Sends(d) /\ msg[d] = m =>
        \/ UNCHANGED <<place, mem_freed, lock>> /\ (Spent(c)' => Spent(c))
        \/ ~Spent(d) /\ pc[d] \in {"locking", "ended"}
  BY Alone DEF Entitled
<1>5. m \in wrapped \cup mem_freed => m \in wrapped' \cup mem_freed'
  BY <1>2 DEF MessageMove
<1>6. Holders'
  <2> SUFFICES ASSUME NEW d \in Call PROVE pc'[d] \in Locked <=> HoldsLock(d)'
    BY DEF Holders
  <2>1. CASE d = c
    BY <1>1, <1>2, <2>1, NobodyAssumption DEF LockMove, HoldsLock
  <2>2. CASE d # c
    <3>1. pc'[d] = pc[d] /\ (pc[d] \in Locked <=> HoldsLock(d))
      BY <1>2, <2>2 DEF Inv, Holders
    <3>2. msg[d] \in Message => (lock'[msg[d]] = d <=> lock[msg[d]] = d)
      BY <1>1, <1>3, <2>2, NobodyAssumption DEF LockMove, Call
    <3>3. QED
      BY <1>2, <3>1, <3>2 DEF HoldsLock, Inv, Ranges
  <2>3. QED
    BY <2>1, <2>2
<1>7. LockOK'
  <2> SUFFICES ASSUME NEW n \in Message, lock'[n] # NoCall PROVE msg'[lock'[n]] = n
    BY DEF LockOK
  <2>1. CASE lock'[n] = lock[n]
    BY <1>2, <2>1 DEF Inv, LockOK
  <2>2. CASE lock'[n] # lock[n]
    BY <1>2, <1>3, <2>2 DEF LockMove
  <2>3. QED
    BY <2>1, <2>2
<1>8. \A d \in Call \ {c} : Spent(d)' = Spent(d)
  BY <1>2 DEF Spent
<1>9. \A d \in Call : d # c /\ Spent(c)' /\ Spent(d) => msg[d] # m
  BY <1>4 DEF Inv, SpentOnce, Spent
<1>10. SpentOnce'
  <2> SUFFICES ASSUME NEW d \in Call, NEW e \in Call, Spent(d)', Spent(e)',
                      msg[d] = msg[e], d # e
               PROVE  FALSE
    BY <1>2 DEF SpentOnce
  <2>1. CASE d = c
    BY <1>8, <1>9, <2>1
  <2>2. CASE e = c
    BY <1>8, <1>9, <2>2
  <2>3. CASE d # c /\ e # c
    BY <1>8, <2>3 DEF Inv, SpentOnce
  <2>4. QED
    BY <2>1, <2>2, <2>3
<1>11. CallOK(c)'
  <2>1. SenderOK(c)'
    <3>1. pc'[c] # "ended" => msg'[c] \in wrapped'
      BY <1>1, <1>2 DEF SenderOK, LockMove
    <3>2. pc'[c] = "ended" /\ aio'[c] # "idle" => lock'[msg'[c]] = NoCall
      BY <1>2 DEF LockMove
    <3>3. msg'[c] \in wrapped' \cup mem_freed'
      BY <1>1, <1>2, <1>5 DEF SenderOK
    <3>4. \A d \in Call : Receives(d)' /\ msg'[d] = msg'[c] =>
            op'[d] = "recv" /\ pc'[d] = "ended" /\ outcome'[d] = "ok"
      <4>1. \A d \in Call : Receives(d) => d # c
        BY DEF Sends, Receives
      <4>2. QED
        BY <1>1, <1>2, <4>1
    <3>5. QED
      BY <1>1, <1>2, <3>1, <3>2, <3>3, <3>4 DEF SenderOK
  <2>2. ~Receives(c) /\ c \notin done /\ c \notin freed_recv /\ op[c] # "none"
    BY DEF Inv, CallOK, Sends, Receives
  <2>3. QED
    BY <1>2, <2>1, <2>2 DEF CallOK
<1>12. ASSUME NEW d \in Call, d # c PROVE CallOK(d)'
  <2>1. CallOp(d)'
    BY <1>2, <1>12 DEF Inv, CallOK, CallOp
  <2>2. ASSUME Sends(d) PROVE SenderOK(d)'
    <3>1. SenderOK(d) /\ msg[d] \in Message
      BY <2>2 DEF Inv, CallOK, SenderOK
    <3>2. SendPhase(pc[d], aio[d], result[d], outcome[d], place[msg[d]],
                    msg[d] \in mem_freed)'
      <4>1. CASE msg[d] # m \/ UNCHANGED <<place, mem_freed, lock>>
        <5>1. place'[msg[d]] = place[msg[d]] /\ (msg[d] \in mem_freed' <=> msg[d] \in mem_freed)
          BY <1>3, <3>1, <4>1
        <5>2. QED
          BY <1>2, <1>12, <3>1, <5>1 DEF SenderOK, SendPhase
      <4>2. CASE ~Spent(d) /\ pc[d] \in {"locking", "ended"}
        BY <1>2, <1>12, <2>2, <3>1, <4>2 DEF SenderOK, SendPhase, Spent, Locked
      <4>3. QED
        BY <1>4, <1>12, <2>2, <4>1, <4>2
    <3>3. msg[d] \in wrapped' \cup mem_freed'
      BY <1>2, <1>3, <1>5, <3>1 DEF SenderOK
    <3>4. pc[d] = "ended" /\ aio[d] # "idle" => lock'[msg[d]] = NoCall
      <4>1. CASE msg[d] # m \/ UNCHANGED <<place, mem_freed, lock>>
        BY <1>3, <3>1, <4>1 DEF SenderOK
      <4>2. CASE ~Spent(d)
        BY <2>2, <4>2 DEF Spent
      <4>3. QED
        BY <1>4, <1>12, <2>2, <4>1, <4>2
    <3>5. \A x \in Call : Receives(x)' /\ msg'[x] = msg'[d] =>
            op'[x] = "recv" /\ pc'[x] = "ended" /\ outcome'[x] = "ok"
      <4>1. \A x \in Call : Receives(x) => x # c
        BY DEF Sends, Receives
      <4>2. QED
        BY <1>2, <3>1, <4>1 DEF SenderOK
    <3>6. QED
      BY <1>2, <1>12, <3>1, <3>2, <3>3, <3>4, <3>5 DEF SenderOK
  <2>3. ASSUME Receives(d) PROVE ReceiverOK(d)'
    <3>1. ReceiverOK(d)
      BY <2>3 DEF Inv, CallOK
    <3>2. ASSUME msg[d] \in Message PROVE Brings(d, msg[d])'
      <4>1. Brings(d, msg[d])
        BY <3>1, <3>2 DEF ReceiverOK
      <4>2. CASE msg[d] # m
        BY <1>2, <1>3, <1>12, <3>2, <4>1, <4>2 DEF Brings
      <4>3. CASE msg[d] = m
        BY <1>1, <1>2, <1>5, <1>12, <2>3, <4>1, <4>3 DEF Brings, MessageMove
      <4>4. QED
        BY <4>2, <4>3
    <3>3. QED
      BY <1>2, <1>12, <3>1, <3>2 DEF ReceiverOK
  <2>4. /\ op[d] = "none" => msg[d] = NoMessage /\ aio[d] = "idle" /\ result[d] = "none"
        /\ d \in done => Receives(d) /\ aio[d] \in {"unlocking", "idle"} /\ result[d] # "none"
        /\ d \in freed_recv => Receives(d) /\ aio[d] = "idle"
                               /\ pc[d] \in {"wrapping", "wrapped", "ended"}
    BY DEF Inv, CallOK
  <2>5. QED
    BY <1>2, <1>12, <2>1, <2>2, <2>3, <2>4 DEF CallOK
<1>13. ASSUME NEW n \in Message, n # m PROVE MessageOK(n)'
  <2>1. MessageOK(n)
    BY DEF Inv
  <2>2. Witness(n) => Witness(n)'
    BY <1>2, <1>3, <1>13 DEF Witness
  <2>3. Lost(n)' => Lost(n)
    BY <1>2, <1>3, <1>13 DEF Lost
  <2>4. QED
    BY <1>2, <1>3, <1>13, <2>1, <2>2, <2>3 DEF MessageOK
<1>14. ASSUME NEW n \in Message, n = m PROVE MessageOK(n)'
  <2>1. /\ place'[n] # "peer"
        /\ n \in wrapped' \ mem_freed' /\ lock'[n] = NoCall => place'[n] = "object"
    BY <1>2, <1>14 DEF MessageMove
  <2>2. ASSUME Lost(n)' PROVE Witness(n)'
    <3>1. CASE lock'[n] # NoCall
      BY <3>1 DEF Witness
    <3>2. CASE pc'[c] = "ended" /\ outcome'[c] = "interrupted"
      <4>1. msg'[c] = n
        BY <1>2, <1>14
      <4>2. QED
        BY <3>2, <4>1 DEF Witness
    <3>3. CASE Lost(n) /\ lock[n] = NoCall /\ pc[c] # "ended"
      <4>1. Witness(n)
        BY <3>3 DEF Inv, MessageOK
      <4>2. PICK d \in Call : msg[d] = n /\ pc[d] = "ended" /\ outcome[d] = "interrupted"
        BY <1>1, <1>14, <3>3, <4>1 DEF Witness
      <4>3. QED
        BY <1>2, <3>3, <4>2 DEF Witness
    <3>4. \/ lock'[n] # NoCall
          \/ pc'[c] = "ended" /\ outcome'[c] = "interrupted"
          \/ Lost(n) /\ lock[n] = NoCall /\ pc[c] # "ended"
      <4>1. /\ MessageMove(c, n)
        BY <1>14
      <4>2. QED
        BY <2>2, <4>1 DEF MessageMove
    <3>5. QED
      BY <3>1, <3>2, <3>3, <3>4
  <2>3. QED
    BY <2>1, <2>2 DEF MessageOK
<1>15. QED
  BY <1>1, <1>2, <1>6, <1>7, <1>10, <1>11, <1>12, <1>13, <1>14 DEF Inv

------------------------------------------------------------------------------
(* A receiver goes on, alone or with a message that nobody else has.       *)

OnlyReceiver(c) ==
  /\ lock' = lock /\ mem_freed' = mem_freed
  /\ \A d \in Call \ {c} :
       /\ pc'[d] = pc[d] /\ op'[d] = op[d] /\ msg'[d] = msg[d]
       /\ outcome'[d] = outcome[d] /\ aio'[d] = aio[d] /\ result'[d] = result[d]
       /\ d \in done' => d \in done
       /\ d \in freed_recv' => d \in freed_recv

(* It keeps its message, or takes one from the peer.                       *)
Takes(c) ==
  \/ msg'[c] = msg[c]
  \/ msg[c] = NoMessage /\ msg'[c] \in Message /\ place[msg'[c]] = "peer"

OnlyItsMessage(c) ==
  \A n \in Message : n # msg'[c] =>
    place'[n] = place[n] /\ (n \in wrapped' <=> n \in wrapped)

(* What is over is over.                                                   *)
Registered(c) ==
  /\ c \in done => aio[c] \in {"unlocking", "idle"} /\ result[c] # "none"
  /\ c \in freed_recv =>
       aio[c] = "idle" /\ pc[c] \in {"wrapping", "wrapped", "ended"}

(* What is true of the call and of its message afterwards.                 *)
Received(c) ==
  /\ CallOp(c) /\ Receives(c)
  /\ ReceivePhase(pc[c], aio[c], result[c], outcome[c], msg[c])
  /\ Registered(c)
  /\ msg[c] \in Message =>
       /\ Brings(c, msg[c])
       /\ msg[c] \in wrapped \ mem_freed /\ lock[msg[c]] = NoCall =>
            place[msg[c]] = "object"
       /\ Lost(msg[c]) => pc[c] # "ended" \/ outcome[c] = "interrupted"

(* A receiver goes on with its message and the invariant holds.            *)
LEMMA ReceiverMoves ==
  ASSUME Inv, Ranges', NEW c \in Call, OnlyReceiver(c), Takes(c), OnlyItsMessage(c),
         \/ op[c] = "none"
         \/ Receives(c) /\ ~(pc[c] = "ended" /\ outcome[c] = "ok"),
         Received(c)'
  PROVE  Inv'
<1>1. /\ lock' = lock /\ mem_freed' = mem_freed
      /\ \A d \in Call : d # c =>
           /\ pc'[d] = pc[d] /\ op'[d] = op[d] /\ msg'[d] = msg[d]
           /\ outcome'[d] = outcome[d] /\ aio'[d] = aio[d] /\ result'[d] = result[d]
           /\ d \in done' => d \in done
           /\ d \in freed_recv' => d \in freed_recv
           /\ Sends(d)' = Sends(d) /\ Receives(d)' = Receives(d)
           /\ Spent(d)' = Spent(d)
  BY DEF OnlyReceiver, Sends, Receives, Spent
<1>2. \A d \in Call : d # c /\ msg[d] \in Message => msg[d] # msg'[c]
  <2> SUFFICES ASSUME NEW d \in Call, d # c, msg[d] \in Message, msg[d] = msg'[c]
               PROVE  FALSE
    OBVIOUS
  <2>1. msg'[c] = msg[c]
    BY DEF Takes, Inv, MessageOK
  <2>2. op[c] # "none" /\ op[d] # "none"
    BY <2>1, NobodyAssumption DEF Inv, CallOK
  <2>3. Receives(c) /\ ReceiverOK(c) /\ ~(pc[c] = "ended" /\ outcome[c] = "ok")
    BY <2>2 DEF Inv, CallOK
  <2>4. CASE Sends(d)
    BY <2>1, <2>3, <2>4 DEF Inv, CallOK, SenderOK
  <2>5. CASE Receives(d)
    BY <2>1, <2>3, <2>5 DEF ReceiverOK
  <2>6. QED
    BY <2>2, <2>4, <2>5 DEF Inv, Ranges, Sends, Receives
<1>3. \A n \in Message : n # msg'[c] =>
        place'[n] = place[n] /\ (n \in wrapped' <=> n \in wrapped)
  BY DEF OnlyItsMessage
<1>4. /\ Receives(c)' /\ ~Sends(c)' /\ pc'[c] \notin Locked /\ ~Spent(c)'
      /\ pc[c] \notin Locked /\ op'[c] # "none"
  BY DEF Received, Receives, Sends, Spent, CallOp, Locked, Inv, CallOK
<1>5. Holders'
  <2> SUFFICES ASSUME NEW d \in Call PROVE pc'[d] \in Locked <=> HoldsLock(d)'
    BY DEF Holders
  <2>1. CASE d = c
    <3>1. msg[c] \in Message => lock[msg[c]] # c
      BY <1>4, NobodyAssumption DEF Inv, Holders, HoldsLock
    <3>2. msg'[c] \in Message => lock[msg'[c]] # c
      BY <3>1, NobodyAssumption DEF Takes, Inv, MessageOK, Call
    <3>3. QED
      BY <1>1, <1>4, <2>1, <3>2 DEF HoldsLock, Ranges
  <2>2. CASE d # c
    BY <1>1, <2>2 DEF Inv, Holders, HoldsLock
  <2>3. QED
    BY <2>1, <2>2
<1>6. LockOK'
  <2> SUFFICES ASSUME NEW n \in Message, lock[n] # NoCall PROVE msg'[lock[n]] = n
    BY <1>1 DEF LockOK
  <2>1. lock[n] \in Call /\ msg[lock[n]] = n
    BY DEF Inv, LockOK, Ranges
  <2>2. pc[lock[n]] \in Locked
    BY <2>1, NobodyAssumption DEF Inv, Holders, HoldsLock
  <2>3. QED
    BY <1>1, <1>4, <2>1, <2>2
<1>7. SpentOnce'
  <2> SUFFICES ASSUME NEW d \in Call, NEW e \in Call, Spent(d)', Spent(e)', msg'[d] = msg'[e]
               PROVE  d = e
    BY DEF SpentOnce
  <2>1. d # c /\ e # c
    BY <1>4
  <2>2. QED
    BY <1>1, <2>1 DEF Inv, SpentOnce
<1>8. CallOK(c)'
  <2>1. \A d \in Call : Receives(d)' /\ msg'[d] = msg'[c] /\ msg'[c] \in Message => d = c
    BY <1>1, <1>2
  <2>2. QED
    BY <1>4, <2>1 DEF CallOK, ReceiverOK, Received, Registered
<1>9. ASSUME NEW d \in Call, d # c PROVE CallOK(d)'
  <2>1. CallOp(d)'
    BY <1>1, <1>9 DEF Inv, CallOK, CallOp
  <2>2. msg[d] \in Message =>
          /\ place'[msg[d]] = place[msg[d]] /\ msg[d] # msg'[c]
          /\ msg[d] \in wrapped' <=> msg[d] \in wrapped
    BY <1>2, <1>3, <1>9
  <2>3. ASSUME Sends(d) PROVE SenderOK(d)'
    <3>1. SenderOK(d) /\ msg[d] \in Message
      BY <2>3 DEF Inv, CallOK, SenderOK
    <3>2. SendPhase(pc[d], aio[d], result[d], outcome[d], place[msg[d]],
                    msg[d] \in mem_freed)'
      BY <1>1, <1>9, <2>2, <3>1 DEF SenderOK
    <3>3. \A x \in Call : Receives(x)' /\ msg'[x] = msg'[d] =>
            op'[x] = "recv" /\ pc'[x] = "ended" /\ outcome'[x] = "ok"
      BY <1>1, <1>9, <2>2, <3>1 DEF SenderOK
    <3>4. QED
      BY <1>1, <1>9, <2>2, <3>1, <3>2, <3>3 DEF SenderOK
  <2>4. ASSUME Receives(d) PROVE ReceiverOK(d)'
    <3>1. ReceiverOK(d)
      BY <2>4 DEF Inv, CallOK
    <3>2. msg[d] \in Message => Brings(d, msg[d])'
      BY <1>1, <1>9, <2>2, <3>1 DEF ReceiverOK, Brings
    <3>3. \A x \in Call : Receives(x)' /\ msg'[x] = msg'[d] /\ msg'[d] \in Message => x = d
      BY <1>1, <1>9, <2>2, <3>1 DEF ReceiverOK
    <3>4. QED
      BY <1>1, <1>9, <3>1, <3>2, <3>3 DEF ReceiverOK
  <2>5. /\ op[d] = "none" => msg[d] = NoMessage /\ aio[d] = "idle" /\ result[d] = "none"
        /\ d \in done => Receives(d) /\ aio[d] \in {"unlocking", "idle"} /\ result[d] # "none"
        /\ d \in freed_recv => Receives(d) /\ aio[d] = "idle"
                               /\ pc[d] \in {"wrapping", "wrapped", "ended"}
    BY DEF Inv, CallOK
  <2>6. QED
    BY <1>1, <1>9, <2>1, <2>3, <2>4, <2>5 DEF CallOK
<1>10. ASSUME NEW n \in Message, n # msg'[c] PROVE MessageOK(n)'
  <2>1. MessageOK(n)
    BY DEF Inv
  <2>2. \A d \in Call : msg[d] = n => d # c
    BY <1>10, NobodyAssumption DEF Takes
  <2>3. Witness(n) => Witness(n)'
    BY <1>1, <2>2 DEF Witness
  <2>4. Lost(n)' => Lost(n)
    BY <1>1, <1>3, <1>10 DEF Lost
  <2>5. \A d \in Call : msg'[d] = n => msg[d] = n
    BY <1>1, <1>10
  <2>6. QED
    BY <1>1, <1>3, <1>10, <2>1, <2>3, <2>4, <2>5 DEF MessageOK
<1>11. ASSUME NEW n \in Message, n = msg'[c] PROVE MessageOK(n)'
  <2>1. Lost(n)' => Witness(n)'
    BY <1>4, <1>11 DEF Received, Witness
  <2>2. /\ place'[n] # "peer"
        /\ n \in wrapped' \ mem_freed' /\ lock'[n] = NoCall => place'[n] = "object"
    BY <1>11 DEF Received, Brings
  <2>3. QED
    BY <2>1, <2>2 DEF MessageOK
<1>12. QED
  BY <1>5, <1>6, <1>7, <1>8, <1>9, <1>10, <1>11 DEF Inv

------------------------------------------------------------------------------
(* The steps of a sender.                                                  *)

(* The call is a sender where only senders are, and has its message.       *)
LEMMA IsSender ==
  ASSUME Inv, NEW c \in Call,
         Sends(c) \/ pc[c] \in Locked \cup {"locking"}
  PROVE  /\ Sends(c) /\ SenderOK(c) /\ msg[c] \in Message /\ CallOp(c)
         /\ pc[c] \in Locked <=> lock[msg[c]] = c
<1>1. Sends(c)
  BY DEF Inv, CallOK, CallOp, Locked, Sends, Receives, Ranges
<1>2. SenderOK(c) /\ CallOp(c)
  BY <1>1 DEF Inv, CallOK
<1>3. msg[c] \in Message /\ msg[c] # NoMessage
  BY <1>2, NobodyAssumption DEF SenderOK
<1>4. QED
  BY <1>1, <1>2, <1>3 DEF Inv, Holders, HoldsLock

(* A call that ends before it has done anything.                           *)
LEMMA SenderQuits ==
  ASSUME Inv, Ranges', NEW c \in Call,
         LockRefused(c) \/ Read(c) \/ AsendFails(c)
  PROVE  Inv'
<1>1. PICK o \in {"state_error", "ok", "error"} :
        /\ pc[c] = "locking" /\ Finish(c, o)
        /\ UNCHANGED <<callVars, aioVars, msgVars>>
  BY DEF LockRefused, Read, AsendFails
<1>2. /\ Sends(c) /\ SenderOK(c) /\ msg[c] \in Message /\ CallOp(c)
      /\ pc[c] \in Locked <=> lock[msg[c]] = c
  BY <1>1, IsSender
<1>3. /\ pc' = [pc EXCEPT ![c] = "ended"] /\ outcome' = [outcome EXCEPT ![c] = o]
      /\ UNCHANGED <<op, msg, aio, result, done, freed_recv, place, wrapped,
                     mem_freed, lock>>
  BY <1>1 DEF Finish, callVars, aioVars, msgVars
<1>4. OnlyCall(c) /\ OnlyMessage(msg[c])
  BY <1>3 DEF OnlyCall, OnlyMessage, Inv, Ranges
<1>5. /\ CallOp(c)'
      /\ SendPhase(pc[c], aio[c], result[c], outcome[c], place[msg[c]],
                   msg[c] \in mem_freed)'
  BY <1>1, <1>2, <1>3 DEF CallOp, SenderOK, SendPhase, Sends, Receives, Inv,
     Ranges, Locked
<1>6. Entitled(c, msg[c])
  BY <1>3 DEF Entitled, Spent, Sends
<1>7. LockMove(c, msg[c])
  BY <1>1, <1>2, <1>3 DEF LockMove, SenderOK, SendPhase, Inv, Ranges, Locked
<1>8. MessageMove(c, msg[c])
  BY <1>1, <1>2, <1>3 DEF MessageMove, Inv, MessageOK, Lost
<1>9. QED
  BY <1>2, <1>4, <1>5, <1>6, <1>7, <1>8, SenderMoves

(* The other steps of a sender.                                            *)
LEMMA SenderStep ==
  ASSUME Inv, Ranges', NEW c \in Call,
         Enter(c) \/ Sending(c) \/ CancelTask(c)
  PROVE  Inv'
<1> DEFINE m == msg[c]
           Kept == OnlyCall(c) /\ OnlyMessage(m)
           Phase == CallOp(c) /\ SendPhase(pc[c], aio[c], result[c], outcome[c],
                                          place[m], m \in mem_freed)
           Moved == LockMove(c, m) /\ MessageMove(c, m)
<1>0. ASSUME pc[c] \in Locked \cup {"locking"}, Kept, Phase', Entitled(c, m), Moved
      PROVE  Inv'
  <2>1. Sends(c)
    BY <1>0, IsSender
  <2>2. QED
    BY <1>0, <2>1, SenderMoves
<1>1. pc[c] \in Locked \cup {"locking"} =>
        /\ Sends(c) /\ SenderOK(c) /\ m \in Message /\ CallOp(c)
        /\ pc[c] \in Locked <=> lock[m] = c
  BY IsSender
<1>2. pc[c] \in Locked \cup {"locking"} =>
        /\ MessageOK(m) /\ place[m] # "peer"
  BY <1>1 DEF Inv, MessageOK
<1>2a. c # NoCall
  BY NobodyAssumption DEF Call
<1> USE <1>2a DEF callVars, aioVars, msgVars, Goto, Finish, MovesTo, Unlock
<1>3. CASE LockForSend(c)
  <2>1. pc[c] \in Locked \cup {"locking"}
    BY <1>3 DEF LockForSend, Locked
  <2>2. /\ Sends(c) /\ SenderOK(c) /\ m \in Message /\ CallOp(c)
        /\ pc[c] \in Locked <=> lock[m] = c
        /\ MessageOK(m) /\ place[m] # "peer"
    BY <1>1, <1>2, <2>1
  <2>3. Kept
    BY <1>3, <2>2 DEF LockForSend, EnsureCanSend, MessageOK, OnlyCall,
       OnlyMessage, Inv, Ranges
  <2>4. Phase'
    BY <1>3, <2>2 DEF LockForSend, EnsureCanSend, MessageOK, CallOp, SenderOK,
       SendPhase, Sends, Receives, Inv, Ranges, Locked
  <2>5. Entitled(c, m)
    BY <1>3, <2>2 DEF LockForSend, EnsureCanSend, MessageOK, Entitled, Locked
  <2>6. LockMove(c, m)
    BY <1>3, <2>2 DEF LockForSend, EnsureCanSend, MessageOK, LockMove,
       SenderOK, SendPhase, Inv, Ranges, Locked
  <2>7. MessageMove(c, m)
    BY <1>3, <2>2 DEF LockForSend, EnsureCanSend, MessageOK, MessageMove,
       SenderOK, SendPhase, Lost, Inv, Ranges, Locked
  <2>8. QED
    BY <1>0, <2>1, <2>3, <2>4, <2>5, <2>6, <2>7
<1>4. CASE GiveUp(c)
  <2>1. pc[c] \in Locked \cup {"locking"}
    BY <1>4 DEF GiveUp, Locked
  <2>2. /\ Sends(c) /\ SenderOK(c) /\ m \in Message /\ CallOp(c)
        /\ pc[c] \in Locked <=> lock[m] = c
        /\ MessageOK(m) /\ place[m] # "peer"
    BY <1>1, <1>2, <2>1
  <2>3. Kept
    BY <1>4, <2>2 DEF GiveUp, OnlyCall, OnlyMessage, Inv, Ranges
  <2>4. Phase'
    BY <1>4, <2>2 DEF GiveUp, CallOp, SenderOK, SendPhase, Sends, Receives,
       Inv, Ranges, Locked
  <2>5. Entitled(c, m)
    BY <1>4, <2>2 DEF GiveUp, Entitled, Locked
  <2>6. LockMove(c, m)
    BY <1>4, <2>2 DEF GiveUp, LockMove, SenderOK, SendPhase, Inv, Ranges, Locked
  <2>7. MessageMove(c, m)
    BY <1>4, <2>2 DEF GiveUp, MessageMove, SenderOK, SendPhase, Lost, Inv,
       Ranges, Locked
  <2>8. QED
    BY <1>0, <2>1, <2>3, <2>4, <2>5, <2>6, <2>7
<1>5. CASE NngSendmsg(c)
  <2>1. pc[c] \in Locked \cup {"locking"}
    BY <1>5 DEF NngSendmsg, Locked
  <2>2. /\ Sends(c) /\ SenderOK(c) /\ m \in Message /\ CallOp(c)
        /\ pc[c] \in Locked <=> lock[m] = c
        /\ MessageOK(m) /\ place[m] # "peer"
    BY <1>1, <1>2, <2>1
  <2>3. Kept
    BY <1>5, <2>2 DEF NngSendmsg, OnlyCall, OnlyMessage, Inv, Ranges
  <2>4. Phase'
    BY <1>5, <2>2 DEF NngSendmsg, CallOp, SenderOK, SendPhase, Sends, Receives,
       Inv, Ranges, Locked
  <2>5. Entitled(c, m)
    BY <1>5, <2>2 DEF NngSendmsg, Entitled, Locked
  <2>6. LockMove(c, m)
    BY <1>5, <2>2 DEF NngSendmsg, LockMove, SenderOK, SendPhase, Inv, Ranges,
       Locked
  <2>7. MessageMove(c, m)
    BY <1>5, <2>2 DEF NngSendmsg, MessageMove, SenderOK, SendPhase, Lost, Inv,
       Ranges, Locked
  <2>8. QED
    BY <1>0, <2>1, <2>3, <2>4, <2>5, <2>6, <2>7
<1>6. CASE SendReturns(c)
  <2>1. pc[c] \in Locked \cup {"locking"}
    BY <1>6 DEF SendReturns, Locked
  <2>2. /\ Sends(c) /\ SenderOK(c) /\ m \in Message /\ CallOp(c)
        /\ pc[c] \in Locked <=> lock[m] = c
        /\ MessageOK(m) /\ place[m] # "peer"
    BY <1>1, <1>2, <2>1
  <2>3. Kept
    BY <1>6, <2>2 DEF SendReturns, OnlyCall, OnlyMessage, Inv, Ranges
  <2>4. Phase'
    BY <1>6, <2>2 DEF SendReturns, CallOp, SenderOK, SendPhase, Sends,
       Receives, Inv, Ranges, Locked
  <2>5. Entitled(c, m)
    BY <1>6, <2>2 DEF SendReturns, Entitled, Locked
  <2>6. LockMove(c, m)
    BY <1>6, <2>2 DEF SendReturns, LockMove, SenderOK, SendPhase, Inv, Ranges,
       Locked
  <2>7. MessageMove(c, m)
    BY <1>6, <2>2 DEF SendReturns, MessageMove, SenderOK, SendPhase, Lost, Inv,
       Ranges, Locked
  <2>8. QED
    BY <1>0, <2>1, <2>3, <2>4, <2>5, <2>6, <2>7
<1>7. CASE SendRaises(c)
  <2>1. pc[c] \in Locked \cup {"locking"}
    BY <1>7 DEF SendRaises, Locked
  <2>2. /\ Sends(c) /\ SenderOK(c) /\ m \in Message /\ CallOp(c)
        /\ pc[c] \in Locked <=> lock[m] = c
        /\ MessageOK(m) /\ place[m] # "peer"
    BY <1>1, <1>2, <2>1
  <2>3. Kept
    BY <1>7, <2>2 DEF SendRaises, OnlyCall, OnlyMessage, Inv, Ranges
  <2>4. Phase'
    BY <1>7, <2>2 DEF SendRaises, CallOp, SenderOK, SendPhase, Sends, Receives,
       Inv, Ranges, Locked
  <2>5. Entitled(c, m)
    BY <1>7, <2>2 DEF SendRaises, Entitled, Locked
  <2>6. LockMove(c, m)
    BY <1>7, <2>2 DEF SendRaises, LockMove, SenderOK, SendPhase, Inv, Ranges,
       Locked
  <2>7. MessageMove(c, m)
    BY <1>7, <2>2 DEF SendRaises, MessageMove, SenderOK, SendPhase, Lost, Inv,
       Ranges, Locked
  <2>8. QED
    BY <1>0, <2>1, <2>3, <2>4, <2>5, <2>6, <2>7
<1>8. CASE CtxAllocFails(c)
  <2>1. pc[c] \in Locked \cup {"locking"}
    BY <1>8 DEF CtxAllocFails, Locked
  <2>2. /\ Sends(c) /\ SenderOK(c) /\ m \in Message /\ CallOp(c)
        /\ pc[c] \in Locked <=> lock[m] = c
        /\ MessageOK(m) /\ place[m] # "peer"
    BY <1>1, <1>2, <2>1
  <2>3. Kept
    BY <1>8, <2>2 DEF CtxAllocFails, OnlyCall, OnlyMessage, Inv, Ranges
  <2>4. Phase'
    BY <1>8, <2>2 DEF CtxAllocFails, CallOp, SenderOK, SendPhase, Sends,
       Receives, Inv, Ranges, Locked
  <2>5. Entitled(c, m)
    BY <1>8, <2>2 DEF CtxAllocFails, Entitled, Locked
  <2>6. LockMove(c, m)
    BY <1>8, <2>2 DEF CtxAllocFails, LockMove, SenderOK, SendPhase, Inv,
       Ranges, Locked
  <2>7. MessageMove(c, m)
    BY <1>8, <2>2 DEF CtxAllocFails, MessageMove, SenderOK, SendPhase, Lost,
       Inv, Ranges, Locked
  <2>8. QED
    BY <1>0, <2>1, <2>3, <2>4, <2>5, <2>6, <2>7
<1>9. CASE CtxSetMsg(c)
  <2>1. pc[c] \in Locked \cup {"locking"}
    BY <1>9 DEF CtxSetMsg, Locked
  <2>2. /\ Sends(c) /\ SenderOK(c) /\ m \in Message /\ CallOp(c)
        /\ pc[c] \in Locked <=> lock[m] = c
        /\ MessageOK(m) /\ place[m] # "peer"
    BY <1>1, <1>2, <2>1
  <2>3. Kept
    BY <1>9, <2>2 DEF CtxSetMsg, OnlyCall, OnlyMessage, Inv, Ranges
  <2>4. Phase'
    BY <1>9, <2>2 DEF CtxSetMsg, CallOp, SenderOK, SendPhase, Sends, Receives,
       Inv, Ranges, Locked
  <2>5. Entitled(c, m)
    BY <1>9, <2>2 DEF CtxSetMsg, Entitled, Locked
  <2>6. LockMove(c, m)
    BY <1>9, <2>2 DEF CtxSetMsg, LockMove, SenderOK, SendPhase, Inv, Ranges,
       Locked
  <2>7. MessageMove(c, m)
    BY <1>9, <2>2 DEF CtxSetMsg, MessageMove, SenderOK, SendPhase, Lost, Inv,
       Ranges, Locked
  <2>8. QED
    BY <1>0, <2>1, <2>3, <2>4, <2>5, <2>6, <2>7
<1>10. CASE CtxSend(c)
  <2>1. pc[c] \in Locked \cup {"locking"}
    BY <1>10 DEF CtxSend, Locked
  <2>2. /\ Sends(c) /\ SenderOK(c) /\ m \in Message /\ CallOp(c)
        /\ pc[c] \in Locked <=> lock[m] = c
        /\ MessageOK(m) /\ place[m] # "peer"
    BY <1>1, <1>2, <2>1
  <2>3. Kept
    BY <1>10, <2>2 DEF CtxSend, OnlyCall, OnlyMessage, Inv, Ranges
  <2>4. Phase'
    BY <1>10, <2>2 DEF CtxSend, CallOp, SenderOK, SendPhase, Sends, Receives,
       Inv, Ranges, Locked
  <2>5. Entitled(c, m)
    BY <1>10, <2>2 DEF CtxSend, Entitled, Locked
  <2>6. LockMove(c, m)
    BY <1>10, <2>2 DEF CtxSend, LockMove, SenderOK, SendPhase, Inv, Ranges,
       Locked
  <2>7. MessageMove(c, m)
    BY <1>10, <2>2 DEF CtxSend, MessageMove, SenderOK, SendPhase, Lost, Inv,
       Ranges, Locked
  <2>8. QED
    BY <1>0, <2>1, <2>3, <2>4, <2>5, <2>6, <2>7
<1>11. CASE CtxResult(c)
  <2>1. pc[c] \in Locked \cup {"locking"}
    BY <1>11 DEF CtxResult, Locked
  <2>2. /\ Sends(c) /\ SenderOK(c) /\ m \in Message /\ CallOp(c)
        /\ pc[c] \in Locked <=> lock[m] = c
        /\ MessageOK(m) /\ place[m] # "peer"
    BY <1>1, <1>2, <2>1
  <2>3. Kept
    BY <1>11, <2>2 DEF CtxResult, OnlyCall, OnlyMessage, Inv, Ranges
  <2>4. Phase'
    BY <1>11, <2>2 DEF CtxResult, CallOp, SenderOK, SendPhase, Sends, Receives,
       Inv, Ranges, Locked
  <2>5. Entitled(c, m)
    BY <1>11, <2>2 DEF CtxResult, Entitled, Locked
  <2>6. LockMove(c, m)
    BY <1>11, <2>2 DEF CtxResult, LockMove, SenderOK, SendPhase, Inv, Ranges,
       Locked
  <2>7. MessageMove(c, m)
    BY <1>11, <2>2 DEF CtxResult, MessageMove, SenderOK, SendPhase, Lost, Inv,
       Ranges, Locked
  <2>8. QED
    BY <1>0, <2>1, <2>3, <2>4, <2>5, <2>6, <2>7
<1>12. CASE CtxCancel(c)
  <2>1. pc[c] \in Locked \cup {"locking"}
    BY <1>12 DEF CtxCancel, Locked
  <2>2. /\ Sends(c) /\ SenderOK(c) /\ m \in Message /\ CallOp(c)
        /\ pc[c] \in Locked <=> lock[m] = c
        /\ MessageOK(m) /\ place[m] # "peer"
    BY <1>1, <1>2, <2>1
  <2>3. Kept
    BY <1>12, <2>2 DEF CtxCancel, OnlyCall, OnlyMessage, Inv, Ranges
  <2>4. Phase'
    BY <1>12, <2>2 DEF CtxCancel, CallOp, SenderOK, SendPhase, Sends, Receives,
       Inv, Ranges, Locked
  <2>5. Entitled(c, m)
    BY <1>12, <2>2 DEF CtxCancel, Entitled, Locked
  <2>6. LockMove(c, m)
    BY <1>12, <2>2 DEF CtxCancel, LockMove, SenderOK, SendPhase, Inv, Ranges,
       Locked
  <2>7. MessageMove(c, m)
    BY <1>12, <2>2 DEF CtxCancel, MessageMove, SenderOK, SendPhase, Lost, Inv,
       Ranges, Locked
  <2>8. QED
    BY <1>0, <2>1, <2>3, <2>4, <2>5, <2>6, <2>7
<1>13. CASE CtxTakeBack(c)
  <2>1. pc[c] \in Locked \cup {"locking"}
    BY <1>13 DEF CtxTakeBack, Locked
  <2>2. /\ Sends(c) /\ SenderOK(c) /\ m \in Message /\ CallOp(c)
        /\ pc[c] \in Locked <=> lock[m] = c
        /\ MessageOK(m) /\ place[m] # "peer"
    BY <1>1, <1>2, <2>1
  <2>3. Kept
    BY <1>13, <2>2 DEF CtxTakeBack, TakesBack, OnlyCall, OnlyMessage, Inv,
       Ranges
  <2>4. Phase'
    BY <1>13, <2>2 DEF CtxTakeBack, TakesBack, CallOp, SenderOK, SendPhase,
       Sends, Receives, Inv, Ranges, Locked
  <2>5. Entitled(c, m)
    BY <1>13, <2>2 DEF CtxTakeBack, TakesBack, Entitled, Locked
  <2>6. LockMove(c, m)
    BY <1>13, <2>2 DEF CtxTakeBack, TakesBack, LockMove, SenderOK, SendPhase,
       Inv, Ranges, Locked
  <2>7. MessageMove(c, m)
    BY <1>13, <2>2 DEF CtxTakeBack, TakesBack, MessageMove, SenderOK,
       SendPhase, Lost, Inv, Ranges, Locked
  <2>8. QED
    BY <1>0, <2>1, <2>3, <2>4, <2>5, <2>6, <2>7
<1>14. CASE CtxReturns(c)
  <2>1. pc[c] \in Locked \cup {"locking"}
    BY <1>14 DEF CtxReturns, Locked
  <2>2. /\ Sends(c) /\ SenderOK(c) /\ m \in Message /\ CallOp(c)
        /\ pc[c] \in Locked <=> lock[m] = c
        /\ MessageOK(m) /\ place[m] # "peer"
    BY <1>1, <1>2, <2>1
  <2>3. Kept
    BY <1>14, <2>2 DEF CtxReturns, OnlyCall, OnlyMessage, Inv, Ranges
  <2>4. Phase'
    BY <1>14, <2>2 DEF CtxReturns, CallOp, SenderOK, SendPhase, Sends,
       Receives, Inv, Ranges, Locked
  <2>5. Entitled(c, m)
    BY <1>14, <2>2 DEF CtxReturns, Entitled, Locked
  <2>6. LockMove(c, m)
    BY <1>14, <2>2 DEF CtxReturns, LockMove, SenderOK, SendPhase, Inv, Ranges,
       Locked
  <2>7. MessageMove(c, m)
    BY <1>14, <2>2 DEF CtxReturns, MessageMove, SenderOK, SendPhase, Lost, Inv,
       Ranges, Locked
  <2>8. QED
    BY <1>0, <2>1, <2>3, <2>4, <2>5, <2>6, <2>7
<1>15. CASE Asend(c)
  <2>1. pc[c] \in Locked \cup {"locking"}
    BY <1>15 DEF Asend, Locked
  <2>2. /\ Sends(c) /\ SenderOK(c) /\ m \in Message /\ CallOp(c)
        /\ pc[c] \in Locked <=> lock[m] = c
        /\ MessageOK(m) /\ place[m] # "peer"
    BY <1>1, <1>2, <2>1
  <2>3. Kept
    BY <1>15, <2>2 DEF Asend, EnsureCanSend, OnlyCall, OnlyMessage, Inv, Ranges
  <2>4. Phase'
    BY <1>15, <2>2 DEF Asend, EnsureCanSend, CallOp, SenderOK, SendPhase,
       Sends, Receives, Inv, Ranges, Locked
  <2>5. Entitled(c, m)
    BY <1>15, <2>2 DEF Asend, EnsureCanSend, Entitled, Locked
  <2>6. LockMove(c, m)
    BY <1>15, <2>2 DEF Asend, EnsureCanSend, LockMove, SenderOK, SendPhase,
       Inv, Ranges, Locked
  <2>7. MessageMove(c, m)
    BY <1>15, <2>2 DEF Asend, EnsureCanSend, MessageMove, SenderOK, SendPhase,
       Lost, Inv, Ranges, Locked
  <2>8. QED
    BY <1>0, <2>1, <2>3, <2>4, <2>5, <2>6, <2>7
<1>16. CASE CancelTask(c)
  <2>1. pc[c] \in Locked \cup {"locking"}
    BY <1>16 DEF CancelTask, Locked
  <2>2. /\ Sends(c) /\ SenderOK(c) /\ m \in Message /\ CallOp(c)
        /\ pc[c] \in Locked <=> lock[m] = c
        /\ MessageOK(m) /\ place[m] # "peer"
    BY <1>1, <1>2, <2>1
  <2>3. Kept
    BY <1>16, <2>2 DEF CancelTask, OnlyCall, OnlyMessage, Inv, Ranges
  <2>4. Phase'
    BY <1>16, <2>2 DEF CancelTask, CallOp, SenderOK, SendPhase, Sends,
       Receives, Inv, Ranges, Locked
  <2>5. Entitled(c, m)
    BY <1>16, <2>2 DEF CancelTask, Entitled, Locked
  <2>6. LockMove(c, m)
    BY <1>16, <2>2 DEF CancelTask, LockMove, SenderOK, SendPhase, Inv, Ranges,
       Locked
  <2>7. MessageMove(c, m)
    BY <1>16, <2>2 DEF CancelTask, MessageMove, SenderOK, SendPhase, Lost, Inv,
       Ranges, Locked
  <2>8. QED
    BY <1>0, <2>1, <2>3, <2>4, <2>5, <2>6, <2>7
<1>17. CASE AsendReturns(c)
  <2>1. pc[c] \in Locked \cup {"locking"}
    BY <1>17 DEF AsendReturns, Locked
  <2>2. /\ Sends(c) /\ SenderOK(c) /\ m \in Message /\ CallOp(c)
        /\ pc[c] \in Locked <=> lock[m] = c
        /\ MessageOK(m) /\ place[m] # "peer"
    BY <1>1, <1>2, <2>1
  <2>3. Kept
    BY <1>17, <2>2 DEF AsendReturns, FreeLeftover, OnlyCall, OnlyMessage, Inv,
       Ranges
  <2>4. Phase'
    BY <1>17, <2>2 DEF AsendReturns, FreeLeftover, CallOp, SenderOK, SendPhase,
       Sends, Receives, Inv, Ranges, Locked
  <2>5. Entitled(c, m)
    BY <1>17, <2>2 DEF AsendReturns, FreeLeftover, Entitled, Locked
  <2>6. LockMove(c, m)
    BY <1>17, <2>2 DEF AsendReturns, FreeLeftover, LockMove, SenderOK,
       SendPhase, Inv, Ranges, Locked
  <2>7. MessageMove(c, m)
    BY <1>17, <2>2 DEF AsendReturns, FreeLeftover, MessageMove, SenderOK,
       SendPhase, Lost, Inv, Ranges, Locked
  <2>8. QED
    BY <1>0, <2>1, <2>3, <2>4, <2>5, <2>6, <2>7
<1>18. QED
  BY <1>3, <1>4, <1>5, <1>6, <1>7, <1>8, <1>9, <1>10, <1>11, <1>12, <1>13,
     <1>14, <1>15, <1>16, <1>17, SenderQuits DEF Enter, Sending

------------------------------------------------------------------------------
(* The steps of a receiver, those of nng among them.                       *)

(* The call is a receiver where only receivers are.                        *)
LEMMA IsReceiver ==
  ASSUME Inv, NEW c \in Call,
         \/ Receives(c) \/ aio[c] \in {"callback", "unlocking"}
         \/ pc[c] \in {"started", "slicing", "taking", "aborting", "freeing",
                       "wrapping", "wrapped"}
  PROVE  Receives(c) /\ ReceiverOK(c) /\ CallOp(c)
<1>1. Receives(c)
  <2>1. CASE aio[c] \in {"callback", "unlocking"}
    BY <2>1 DEF Inv, CallOK, SenderOK, SendPhase, Sends, Receives, Ranges
  <2>2. QED
    BY <2>1 DEF Inv, CallOK, CallOp, Sends, Receives, Ranges
<1>2. QED
  BY <1>1 DEF Inv, CallOK

(* One step of a receiver, or of nng for it.                               *)
LEMMA ReceiverStep ==
  ASSUME Inv, Ranges', NEW c \in Call,
         \/ RecvQueued(c) \/ RecvRaises(c) \/ RecvStart(c) \/ Receiving(c)
         \/ NngReceives(c) \/ CallbackSetsDone(c) \/ CallbackReturns(c)
  PROVE  Inv'
<1> DEFINE Before == \/ op[c] = "none"
                     \/ Receives(c) /\ ~(pc[c] = "ended" /\ outcome[c] = "ok")
           Moves == OnlyReceiver(c) /\ Takes(c) /\ OnlyItsMessage(c)
           Known == /\ CallOp(c)
                    /\ c \notin done \/ Receives(c)
                    /\ Registered(c)
                    /\ op[c] = "none" => /\ pc[c] = "new" /\ msg[c] = NoMessage
                                         /\ aio[c] = "idle" /\ result[c] = "none"
                                         /\ c \notin done /\ c \notin freed_recv
                    /\ op[c] # "none" => Receives(c) /\ ReceiverOK(c) /\ pc[c] # "new"
<1>1. Before /\ Moves /\ Received(c)' => Inv'
  BY ReceiverMoves
<1>2. op[c] = "none" \/ Receives(c) => Known
  BY DEF Inv, CallOK, CallOp, Receives, Registered
<1>3. \A m \in Message : MessageOK(m)
  BY DEF Inv
<1>4. msg[c] \in Message \cup {NoMessage} /\ NoMessage \notin Message
  BY NobodyAssumption DEF Inv, Ranges
<1> USE DEF callVars, aioVars, msgVars, Goto, Finish, MovesTo
<1>5. CASE RecvQueued(c)
  <2>1. Before /\ Known
    BY <1>2, <1>5 DEF RecvQueued, Receive, Inv, CallOK, CallOp
  <2>2. Moves
    BY <1>3, <1>4, <1>5, <2>1 DEF RecvQueued, Receive, OnlyReceiver, Takes,
       OnlyItsMessage,
         ReceiverOK, ReceivePhase, Inv, Ranges
  <2>3. CallOp(c)' /\ Receives(c)'
    BY <1>5, <2>1 DEF RecvQueued, Receive, CallOp, Receives, Inv, Ranges
  <2>4. /\ ReceivePhase(pc[c], aio[c], result[c], outcome[c], msg[c])'
        /\ Registered(c)'
    BY <1>4, <1>5, <2>1 DEF Registered, RecvQueued, Receive, ReceiverOK,
       ReceivePhase, Inv,
       Ranges
  <2>5. ASSUME msg'[c] \in Message PROVE Brings(c, msg[c])'
    BY <1>3, <1>4, <1>5, <2>1, <2>3, <2>5 DEF RecvQueued, Receive, MessageOK,
       ReceiverOK, ReceivePhase,
         Brings, CallOp, Receives, Inv, Ranges
  <2>6. ASSUME msg'[c] \in Message
        PROVE  /\ msg'[c] \in wrapped' \ mem_freed' /\ lock'[msg'[c]] = NoCall =>
                    place'[msg'[c]] = "object"
               /\ Lost(msg[c])' => pc'[c] # "ended" \/ outcome'[c] = "interrupted"
    BY <1>3, <1>4, <1>5, <2>1, <2>3, <2>5, <2>6 DEF RecvQueued, Receive,
       MessageOK, ReceiverOK, ReceivePhase,
         Brings, Lost, Inv, Ranges
  <2>7. QED
    BY <1>1, <2>1, <2>2, <2>3, <2>4, <2>5, <2>6 DEF Received
<1>6. CASE RecvRaises(c)
  <2>1. Before /\ Known
    BY <1>2, <1>6 DEF RecvRaises, Receive, Inv, CallOK, CallOp
  <2>2. Moves
    BY <1>3, <1>4, <1>6, <2>1 DEF RecvRaises, Receive, OnlyReceiver, Takes,
       OnlyItsMessage,
         ReceiverOK, ReceivePhase, Inv, Ranges
  <2>3. CallOp(c)' /\ Receives(c)'
    BY <1>6, <2>1 DEF RecvRaises, Receive, CallOp, Receives, Inv, Ranges
  <2>4. /\ ReceivePhase(pc[c], aio[c], result[c], outcome[c], msg[c])'
        /\ Registered(c)'
    BY <1>4, <1>6, <2>1 DEF Registered, RecvRaises, Receive, ReceiverOK,
       ReceivePhase, Inv,
       Ranges
  <2>5. ASSUME msg'[c] \in Message PROVE Brings(c, msg[c])'
    BY <1>3, <1>4, <1>6, <2>1, <2>3, <2>5 DEF RecvRaises, Receive, MessageOK,
       ReceiverOK, ReceivePhase,
         Brings, CallOp, Receives, Inv, Ranges
  <2>6. ASSUME msg'[c] \in Message
        PROVE  /\ msg'[c] \in wrapped' \ mem_freed' /\ lock'[msg'[c]] = NoCall =>
                    place'[msg'[c]] = "object"
               /\ Lost(msg[c])' => pc'[c] # "ended" \/ outcome'[c] = "interrupted"
    BY <1>3, <1>4, <1>6, <2>1, <2>3, <2>5, <2>6 DEF RecvRaises, Receive,
       MessageOK, ReceiverOK, ReceivePhase,
         Brings, Lost, Inv, Ranges
  <2>7. QED
    BY <1>1, <2>1, <2>2, <2>3, <2>4, <2>5, <2>6 DEF Received
<1>7. CASE RecvStart(c)
  <2>1. Before /\ Known
    BY <1>2, <1>7 DEF RecvStart, Receive, Inv, CallOK, CallOp
  <2>2. Moves
    BY <1>3, <1>4, <1>7, <2>1 DEF RecvStart, Receive, OnlyReceiver, Takes,
       OnlyItsMessage,
         ReceiverOK, ReceivePhase, Inv, Ranges
  <2>3. CallOp(c)' /\ Receives(c)'
    BY <1>7, <2>1 DEF RecvStart, Receive, CallOp, Receives, Inv, Ranges
  <2>4. /\ ReceivePhase(pc[c], aio[c], result[c], outcome[c], msg[c])'
        /\ Registered(c)'
    BY <1>4, <1>7, <2>1 DEF Registered, RecvStart, Receive, ReceiverOK,
       ReceivePhase, Inv,
       Ranges
  <2>5. ASSUME msg'[c] \in Message PROVE Brings(c, msg[c])'
    BY <1>3, <1>4, <1>7, <2>1, <2>3, <2>5 DEF RecvStart, Receive, MessageOK,
       ReceiverOK, ReceivePhase,
         Brings, CallOp, Receives, Inv, Ranges
  <2>6. ASSUME msg'[c] \in Message
        PROVE  /\ msg'[c] \in wrapped' \ mem_freed' /\ lock'[msg'[c]] = NoCall =>
                    place'[msg'[c]] = "object"
               /\ Lost(msg[c])' => pc'[c] # "ended" \/ outcome'[c] = "interrupted"
    BY <1>3, <1>4, <1>7, <2>1, <2>3, <2>5, <2>6 DEF RecvStart, Receive,
       MessageOK, ReceiverOK, ReceivePhase,
         Brings, Lost, Inv, Ranges
  <2>7. QED
    BY <1>1, <2>1, <2>2, <2>3, <2>4, <2>5, <2>6 DEF Received
<1>8. CASE RecvWaits(c)
  <2>1. Before /\ Known
    <3>1. Receives(c) /\ ReceiverOK(c)
      BY <1>8, IsReceiver DEF RecvWaits
    <3>2. QED
      BY <1>2, <1>8, <3>1 DEF RecvWaits, ReceiverOK, ReceivePhase
  <2>2. Moves
    BY <1>3, <1>4, <1>8, <2>1 DEF RecvWaits, OnlyReceiver, Takes,
       OnlyItsMessage,
         ReceiverOK, ReceivePhase, Inv, Ranges
  <2>3. CallOp(c)' /\ Receives(c)'
    BY <1>8, <2>1 DEF RecvWaits, CallOp, Receives, Inv, Ranges
  <2>4. /\ ReceivePhase(pc[c], aio[c], result[c], outcome[c], msg[c])'
        /\ Registered(c)'
    BY <1>4, <1>8, <2>1 DEF Registered, RecvWaits, ReceiverOK, ReceivePhase,
       Inv, Ranges
  <2>5. ASSUME msg'[c] \in Message PROVE Brings(c, msg[c])'
    BY <1>3, <1>4, <1>8, <2>1, <2>3, <2>5 DEF RecvWaits, MessageOK, ReceiverOK,
       ReceivePhase,
         Brings, CallOp, Receives, Inv, Ranges
  <2>6. ASSUME msg'[c] \in Message
        PROVE  /\ msg'[c] \in wrapped' \ mem_freed' /\ lock'[msg'[c]] = NoCall =>
                    place'[msg'[c]] = "object"
               /\ Lost(msg[c])' => pc'[c] # "ended" \/ outcome'[c] = "interrupted"
    BY <1>3, <1>4, <1>8, <2>1, <2>3, <2>5, <2>6 DEF RecvWaits, MessageOK,
       ReceiverOK, ReceivePhase,
         Brings, Lost, Inv, Ranges
  <2>7. QED
    BY <1>1, <2>1, <2>2, <2>3, <2>4, <2>5, <2>6 DEF Received
<1>9. CASE RecvDone(c)
  <2>1. Before /\ Known
    <3>1. Receives(c) /\ ReceiverOK(c)
      BY <1>9, IsReceiver DEF RecvDone
    <3>2. QED
      BY <1>2, <1>9, <3>1 DEF RecvDone, ReceiverOK, ReceivePhase
  <2>2. Moves
    BY <1>3, <1>4, <1>9, <2>1 DEF RecvDone, OnlyReceiver, Takes, OnlyItsMessage,
         ReceiverOK, ReceivePhase, Inv, Ranges
  <2>3. CallOp(c)' /\ Receives(c)'
    BY <1>9, <2>1 DEF RecvDone, CallOp, Receives, Inv, Ranges
  <2>4. /\ ReceivePhase(pc[c], aio[c], result[c], outcome[c], msg[c])'
        /\ Registered(c)'
    BY <1>4, <1>9, <2>1 DEF Registered, RecvDone, ReceiverOK, ReceivePhase,
       Inv, Ranges
  <2>5. ASSUME msg'[c] \in Message PROVE Brings(c, msg[c])'
    BY <1>3, <1>4, <1>9, <2>1, <2>3, <2>5 DEF RecvDone, MessageOK, ReceiverOK,
       ReceivePhase,
         Brings, CallOp, Receives, Inv, Ranges
  <2>6. ASSUME msg'[c] \in Message
        PROVE  /\ msg'[c] \in wrapped' \ mem_freed' /\ lock'[msg'[c]] = NoCall =>
                    place'[msg'[c]] = "object"
               /\ Lost(msg[c])' => pc'[c] # "ended" \/ outcome'[c] = "interrupted"
    BY <1>3, <1>4, <1>9, <2>1, <2>3, <2>5, <2>6 DEF RecvDone, MessageOK,
       ReceiverOK, ReceivePhase,
         Brings, Lost, Inv, Ranges
  <2>7. QED
    BY <1>1, <2>1, <2>2, <2>3, <2>4, <2>5, <2>6 DEF Received
<1>10. CASE RecvTake(c)
  <2>1. Before /\ Known
    <3>1. Receives(c) /\ ReceiverOK(c)
      BY <1>10, IsReceiver DEF RecvTake
    <3>2. QED
      BY <1>2, <1>10, <3>1 DEF RecvTake, ReceiverOK, ReceivePhase
  <2>2. Moves
    BY <1>3, <1>4, <1>10, <2>1 DEF RecvTake, OnlyReceiver, Takes,
       OnlyItsMessage,
         ReceiverOK, ReceivePhase, Inv, Ranges
  <2>3. CallOp(c)' /\ Receives(c)'
    BY <1>10, <2>1 DEF RecvTake, CallOp, Receives, Inv, Ranges
  <2>4. /\ ReceivePhase(pc[c], aio[c], result[c], outcome[c], msg[c])'
        /\ Registered(c)'
    BY <1>4, <1>10, <2>1 DEF Registered, RecvTake, ReceiverOK, ReceivePhase,
       Inv, Ranges
  <2>5. ASSUME msg'[c] \in Message PROVE Brings(c, msg[c])'
    BY <1>3, <1>4, <1>10, <2>1, <2>3, <2>5 DEF RecvTake, MessageOK, ReceiverOK,
       ReceivePhase,
         Brings, CallOp, Receives, Inv, Ranges
  <2>6. ASSUME msg'[c] \in Message
        PROVE  /\ msg'[c] \in wrapped' \ mem_freed' /\ lock'[msg'[c]] = NoCall =>
                    place'[msg'[c]] = "object"
               /\ Lost(msg[c])' => pc'[c] # "ended" \/ outcome'[c] = "interrupted"
    BY <1>3, <1>4, <1>10, <2>1, <2>3, <2>5, <2>6 DEF RecvTake, MessageOK,
       ReceiverOK, ReceivePhase,
         Brings, Lost, Inv, Ranges
  <2>7. QED
    BY <1>1, <2>1, <2>2, <2>3, <2>4, <2>5, <2>6 DEF Received
<1>11. CASE RecvCancel(c)
  <2>1. Before /\ Known
    <3>1. Receives(c) /\ ReceiverOK(c)
      BY <1>11, IsReceiver DEF RecvCancel
    <3>2. QED
      BY <1>2, <1>11, <3>1 DEF RecvCancel, ReceiverOK, ReceivePhase
  <2>2. Moves
    BY <1>3, <1>4, <1>11, <2>1 DEF RecvCancel, OnlyReceiver, Takes,
       OnlyItsMessage,
         ReceiverOK, ReceivePhase, Inv, Ranges
  <2>3. CallOp(c)' /\ Receives(c)'
    BY <1>11, <2>1 DEF RecvCancel, CallOp, Receives, Inv, Ranges
  <2>4. /\ ReceivePhase(pc[c], aio[c], result[c], outcome[c], msg[c])'
        /\ Registered(c)'
    BY <1>4, <1>11, <2>1 DEF Registered, RecvCancel, ReceiverOK, ReceivePhase,
       Inv, Ranges
  <2>5. ASSUME msg'[c] \in Message PROVE Brings(c, msg[c])'
    BY <1>3, <1>4, <1>11, <2>1, <2>3, <2>5 DEF RecvCancel, MessageOK,
       ReceiverOK, ReceivePhase,
         Brings, CallOp, Receives, Inv, Ranges
  <2>6. ASSUME msg'[c] \in Message
        PROVE  /\ msg'[c] \in wrapped' \ mem_freed' /\ lock'[msg'[c]] = NoCall =>
                    place'[msg'[c]] = "object"
               /\ Lost(msg[c])' => pc'[c] # "ended" \/ outcome'[c] = "interrupted"
    BY <1>3, <1>4, <1>11, <2>1, <2>3, <2>5, <2>6 DEF RecvCancel, MessageOK,
       ReceiverOK, ReceivePhase,
         Brings, Lost, Inv, Ranges
  <2>7. QED
    BY <1>1, <2>1, <2>2, <2>3, <2>4, <2>5, <2>6 DEF Received
<1>12. CASE RecvAborted(c)
  <2>1. Before /\ Known
    <3>1. Receives(c) /\ ReceiverOK(c)
      BY <1>12, IsReceiver DEF RecvAborted
    <3>2. QED
      BY <1>2, <1>12, <3>1 DEF RecvAborted, ReceiverOK, ReceivePhase
  <2>2. Moves
    BY <1>3, <1>4, <1>12, <2>1 DEF RecvAborted, OnlyReceiver, Takes,
       OnlyItsMessage,
         ReceiverOK, ReceivePhase, Inv, Ranges
  <2>3. CallOp(c)' /\ Receives(c)'
    BY <1>12, <2>1 DEF RecvAborted, CallOp, Receives, Inv, Ranges
  <2>4. /\ ReceivePhase(pc[c], aio[c], result[c], outcome[c], msg[c])'
        /\ Registered(c)'
    BY <1>4, <1>12, <2>1 DEF Registered, RecvAborted, ReceiverOK, ReceivePhase,
       Inv, Ranges
  <2>5. ASSUME msg'[c] \in Message PROVE Brings(c, msg[c])'
    BY <1>3, <1>4, <1>12, <2>1, <2>3, <2>5 DEF RecvAborted, MessageOK,
       ReceiverOK, ReceivePhase,
         Brings, CallOp, Receives, Inv, Ranges
  <2>6. ASSUME msg'[c] \in Message
        PROVE  /\ msg'[c] \in wrapped' \ mem_freed' /\ lock'[msg'[c]] = NoCall =>
                    place'[msg'[c]] = "object"
               /\ Lost(msg[c])' => pc'[c] # "ended" \/ outcome'[c] = "interrupted"
    BY <1>3, <1>4, <1>12, <2>1, <2>3, <2>5, <2>6 DEF RecvAborted, MessageOK,
       ReceiverOK, ReceivePhase,
         Brings, Lost, Inv, Ranges
  <2>7. QED
    BY <1>1, <2>1, <2>2, <2>3, <2>4, <2>5, <2>6 DEF Received
<1>13. CASE RecvFree(c)
  <2>1. Before /\ Known
    <3>1. Receives(c) /\ ReceiverOK(c)
      BY <1>13, IsReceiver DEF RecvFree, AioReturned
    <3>2. QED
      BY <1>2, <1>13, <3>1 DEF RecvFree, AioReturned, ReceiverOK, ReceivePhase
  <2>2. Moves
    BY <1>3, <1>4, <1>13, <2>1 DEF RecvFree, AioReturned, OnlyReceiver, Takes,
       OnlyItsMessage,
         ReceiverOK, ReceivePhase, Inv, Ranges
  <2>3. CallOp(c)' /\ Receives(c)'
    BY <1>13, <2>1 DEF RecvFree, AioReturned, CallOp, Receives, Inv, Ranges
  <2>4. /\ ReceivePhase(pc[c], aio[c], result[c], outcome[c], msg[c])'
        /\ Registered(c)'
    BY <1>4, <1>13, <2>1 DEF Registered, RecvFree, AioReturned, ReceiverOK,
       ReceivePhase,
       Inv, Ranges
  <2>5. ASSUME msg'[c] \in Message PROVE Brings(c, msg[c])'
    BY <1>3, <1>4, <1>13, <2>1, <2>3, <2>5 DEF RecvFree, AioReturned,
       MessageOK, ReceiverOK, ReceivePhase,
         Brings, CallOp, Receives, Inv, Ranges
  <2>6. ASSUME msg'[c] \in Message
        PROVE  /\ msg'[c] \in wrapped' \ mem_freed' /\ lock'[msg'[c]] = NoCall =>
                    place'[msg'[c]] = "object"
               /\ Lost(msg[c])' => pc'[c] # "ended" \/ outcome'[c] = "interrupted"
    BY <1>3, <1>4, <1>13, <2>1, <2>3, <2>5, <2>6 DEF RecvFree, AioReturned,
       MessageOK, ReceiverOK, ReceivePhase,
         Brings, Lost, Inv, Ranges
  <2>7. QED
    BY <1>1, <2>1, <2>2, <2>3, <2>4, <2>5, <2>6 DEF Received
<1>14. CASE Wrap(c)
  <2>1. Before /\ Known
    <3>1. Receives(c) /\ ReceiverOK(c)
      BY <1>14, IsReceiver DEF Wrap
    <3>2. QED
      BY <1>2, <1>14, <3>1 DEF Wrap, ReceiverOK, ReceivePhase
  <2>2. Moves
    BY <1>3, <1>4, <1>14, <2>1 DEF Wrap, OnlyReceiver, Takes, OnlyItsMessage,
         ReceiverOK, ReceivePhase, Inv, Ranges
  <2>3. CallOp(c)' /\ Receives(c)'
    BY <1>14, <2>1 DEF Wrap, CallOp, Receives, Inv, Ranges
  <2>4. /\ ReceivePhase(pc[c], aio[c], result[c], outcome[c], msg[c])'
        /\ Registered(c)'
    BY <1>4, <1>14, <2>1 DEF Registered, Wrap, ReceiverOK, ReceivePhase, Inv,
       Ranges
  <2>5. ASSUME msg'[c] \in Message PROVE Brings(c, msg[c])'
    BY <1>3, <1>4, <1>14, <2>1, <2>3, <2>5 DEF Wrap, MessageOK, ReceiverOK,
       ReceivePhase,
         Brings, CallOp, Receives, Inv, Ranges
  <2>6. ASSUME msg'[c] \in Message
        PROVE  /\ msg'[c] \in wrapped' \ mem_freed' /\ lock'[msg'[c]] = NoCall =>
                    place'[msg'[c]] = "object"
               /\ Lost(msg[c])' => pc'[c] # "ended" \/ outcome'[c] = "interrupted"
    BY <1>3, <1>4, <1>14, <2>1, <2>3, <2>5, <2>6 DEF Wrap, MessageOK,
       ReceiverOK, ReceivePhase,
         Brings, Lost, Inv, Ranges
  <2>7. QED
    BY <1>1, <2>1, <2>2, <2>3, <2>4, <2>5, <2>6 DEF Received
<1>15. CASE RecvReturns(c)
  <2>1. Before /\ Known
    <3>1. Receives(c) /\ ReceiverOK(c)
      BY <1>15, IsReceiver DEF RecvReturns
    <3>2. QED
      BY <1>2, <1>15, <3>1 DEF RecvReturns, ReceiverOK, ReceivePhase
  <2>2. Moves
    BY <1>3, <1>4, <1>15, <2>1 DEF RecvReturns, OnlyReceiver, Takes,
       OnlyItsMessage,
         ReceiverOK, ReceivePhase, Inv, Ranges
  <2>3. CallOp(c)' /\ Receives(c)'
    BY <1>15, <2>1 DEF RecvReturns, CallOp, Receives, Inv, Ranges
  <2>4. /\ ReceivePhase(pc[c], aio[c], result[c], outcome[c], msg[c])'
        /\ Registered(c)'
    BY <1>4, <1>15, <2>1 DEF Registered, RecvReturns, ReceiverOK, ReceivePhase,
       Inv, Ranges
  <2>5. ASSUME msg'[c] \in Message PROVE Brings(c, msg[c])'
    BY <1>3, <1>4, <1>15, <2>1, <2>3, <2>5 DEF RecvReturns, MessageOK,
       ReceiverOK, ReceivePhase,
         Brings, CallOp, Receives, Inv, Ranges
  <2>6. ASSUME msg'[c] \in Message
        PROVE  /\ msg'[c] \in wrapped' \ mem_freed' /\ lock'[msg'[c]] = NoCall =>
                    place'[msg'[c]] = "object"
               /\ Lost(msg[c])' => pc'[c] # "ended" \/ outcome'[c] = "interrupted"
    BY <1>3, <1>4, <1>15, <2>1, <2>3, <2>5, <2>6 DEF RecvReturns, MessageOK,
       ReceiverOK, ReceivePhase,
         Brings, Lost, Inv, Ranges
  <2>7. QED
    BY <1>1, <2>1, <2>2, <2>3, <2>4, <2>5, <2>6 DEF Received
<1>16. CASE CopyInto(c)
  <2>1. Before /\ Known
    <3>1. Receives(c) /\ ReceiverOK(c)
      BY <1>16, IsReceiver DEF CopyInto
    <3>2. QED
      BY <1>2, <1>16, <3>1 DEF CopyInto, ReceiverOK, ReceivePhase
  <2>2. Moves
    BY <1>3, <1>4, <1>16, <2>1 DEF CopyInto, OnlyReceiver, Takes,
       OnlyItsMessage,
         ReceiverOK, ReceivePhase, Inv, Ranges
  <2>3. CallOp(c)' /\ Receives(c)'
    BY <1>16, <2>1 DEF CopyInto, CallOp, Receives, Inv, Ranges
  <2>4. /\ ReceivePhase(pc[c], aio[c], result[c], outcome[c], msg[c])'
        /\ Registered(c)'
    BY <1>4, <1>16, <2>1 DEF Registered, CopyInto, ReceiverOK, ReceivePhase,
       Inv, Ranges
  <2>5. ASSUME msg'[c] \in Message PROVE Brings(c, msg[c])'
    BY <1>3, <1>4, <1>16, <2>1, <2>3, <2>5 DEF CopyInto, MessageOK, ReceiverOK,
       ReceivePhase,
         Brings, CallOp, Receives, Inv, Ranges
  <2>6. ASSUME msg'[c] \in Message
        PROVE  /\ msg'[c] \in wrapped' \ mem_freed' /\ lock'[msg'[c]] = NoCall =>
                    place'[msg'[c]] = "object"
               /\ Lost(msg[c])' => pc'[c] # "ended" \/ outcome'[c] = "interrupted"
    BY <1>3, <1>4, <1>16, <2>1, <2>3, <2>5, <2>6 DEF CopyInto, MessageOK,
       ReceiverOK, ReceivePhase,
         Brings, Lost, Inv, Ranges
  <2>7. QED
    BY <1>1, <2>1, <2>2, <2>3, <2>4, <2>5, <2>6 DEF Received
<1>17. CASE NngReceives(c)
  <2>1. Before /\ Known
    <3>1. Receives(c) /\ ReceiverOK(c)
      BY <1>17, IsReceiver DEF NngReceives
    <3>2. QED
      BY <1>2, <1>17, <3>1 DEF NngReceives, ReceiverOK, ReceivePhase
  <2>2. Moves
    BY <1>3, <1>4, <1>17, <2>1 DEF NngReceives, OnlyReceiver, Takes,
       OnlyItsMessage,
         ReceiverOK, ReceivePhase, Inv, Ranges
  <2>3. CallOp(c)' /\ Receives(c)'
    BY <1>17, <2>1 DEF NngReceives, CallOp, Receives, Inv, Ranges
  <2>4. /\ ReceivePhase(pc[c], aio[c], result[c], outcome[c], msg[c])'
        /\ Registered(c)'
    BY <1>4, <1>17, <2>1 DEF Registered, NngReceives, ReceiverOK, ReceivePhase,
       Inv, Ranges
  <2>5. ASSUME msg'[c] \in Message PROVE Brings(c, msg[c])'
    BY <1>3, <1>4, <1>17, <2>1, <2>3, <2>5 DEF NngReceives, MessageOK,
       ReceiverOK, ReceivePhase,
         Brings, CallOp, Receives, Inv, Ranges
  <2>6. ASSUME msg'[c] \in Message
        PROVE  /\ msg'[c] \in wrapped' \ mem_freed' /\ lock'[msg'[c]] = NoCall =>
                    place'[msg'[c]] = "object"
               /\ Lost(msg[c])' => pc'[c] # "ended" \/ outcome'[c] = "interrupted"
    BY <1>3, <1>4, <1>17, <2>1, <2>3, <2>5, <2>6 DEF NngReceives, MessageOK,
       ReceiverOK, ReceivePhase,
         Brings, Lost, Inv, Ranges
  <2>7. QED
    BY <1>1, <2>1, <2>2, <2>3, <2>4, <2>5, <2>6 DEF Received
<1>18. CASE CallbackSetsDone(c)
  <2>1. Before /\ Known
    <3>1. Receives(c) /\ ReceiverOK(c)
      BY <1>18, IsReceiver DEF CallbackSetsDone
    <3>2. QED
      BY <1>2, <1>18, <3>1 DEF CallbackSetsDone, ReceiverOK, ReceivePhase
  <2>2. Moves
    BY <1>3, <1>4, <1>18, <2>1 DEF CallbackSetsDone, OnlyReceiver, Takes,
       OnlyItsMessage,
         ReceiverOK, ReceivePhase, Inv, Ranges
  <2>3. CallOp(c)' /\ Receives(c)'
    BY <1>18, <2>1 DEF CallbackSetsDone, CallOp, Receives, Inv, Ranges
  <2>4. /\ ReceivePhase(pc[c], aio[c], result[c], outcome[c], msg[c])'
        /\ Registered(c)'
    BY <1>4, <1>18, <2>1 DEF Registered, CallbackSetsDone, ReceiverOK,
       ReceivePhase, Inv,
       Ranges
  <2>5. ASSUME msg'[c] \in Message PROVE Brings(c, msg[c])'
    BY <1>3, <1>4, <1>18, <2>1, <2>3, <2>5 DEF CallbackSetsDone, MessageOK,
       ReceiverOK, ReceivePhase,
         Brings, CallOp, Receives, Inv, Ranges
  <2>6. ASSUME msg'[c] \in Message
        PROVE  /\ msg'[c] \in wrapped' \ mem_freed' /\ lock'[msg'[c]] = NoCall =>
                    place'[msg'[c]] = "object"
               /\ Lost(msg[c])' => pc'[c] # "ended" \/ outcome'[c] = "interrupted"
    BY <1>3, <1>4, <1>18, <2>1, <2>3, <2>5, <2>6 DEF CallbackSetsDone,
       MessageOK, ReceiverOK, ReceivePhase,
         Brings, Lost, Inv, Ranges
  <2>7. QED
    BY <1>1, <2>1, <2>2, <2>3, <2>4, <2>5, <2>6 DEF Received
<1>19. CASE CallbackReturns(c)
  <2>1. Before /\ Known
    <3>1. Receives(c) /\ ReceiverOK(c)
      BY <1>19, IsReceiver DEF CallbackReturns
    <3>2. QED
      BY <1>2, <1>19, <3>1 DEF CallbackReturns, ReceiverOK, ReceivePhase
  <2>2. Moves
    BY <1>3, <1>4, <1>19, <2>1 DEF CallbackReturns, OnlyReceiver, Takes,
       OnlyItsMessage,
         ReceiverOK, ReceivePhase, Inv, Ranges
  <2>3. CallOp(c)' /\ Receives(c)'
    BY <1>19, <2>1 DEF CallbackReturns, CallOp, Receives, Inv, Ranges
  <2>4. /\ ReceivePhase(pc[c], aio[c], result[c], outcome[c], msg[c])'
        /\ Registered(c)'
    BY <1>4, <1>19, <2>1 DEF Registered, CallbackReturns, ReceiverOK,
       ReceivePhase, Inv,
       Ranges
  <2>5. ASSUME msg'[c] \in Message PROVE Brings(c, msg[c])'
    BY <1>3, <1>4, <1>19, <2>1, <2>3, <2>5 DEF CallbackReturns, MessageOK,
       ReceiverOK, ReceivePhase,
         Brings, CallOp, Receives, Inv, Ranges
  <2>6. ASSUME msg'[c] \in Message
        PROVE  /\ msg'[c] \in wrapped' \ mem_freed' /\ lock'[msg'[c]] = NoCall =>
                    place'[msg'[c]] = "object"
               /\ Lost(msg[c])' => pc'[c] # "ended" \/ outcome'[c] = "interrupted"
    BY <1>3, <1>4, <1>19, <2>1, <2>3, <2>5, <2>6 DEF CallbackReturns,
       MessageOK, ReceiverOK, ReceivePhase,
         Brings, Lost, Inv, Ranges
  <2>7. QED
    BY <1>1, <2>1, <2>2, <2>3, <2>4, <2>5, <2>6 DEF Received
<1>20. QED
  BY <1>5, <1>6, <1>7, <1>8, <1>9, <1>10, <1>11, <1>12, <1>13, <1>14, <1>15,
     <1>16, <1>17, <1>18, <1>19 DEF Receiving

------------------------------------------------------------------------------
(* An interrupt, nng's sends, a call that begins, and the finalizer.       *)

(* A KeyboardInterrupt leaves the call or sends it to its cleanup.         *)
LEMMA InterruptStep ==
  ASSUME Inv, Ranges', NEW c \in Call, Interrupt(c) PROVE Inv'
<1> USE DEF aioVars, Goto, Finish
<1>1. /\ UNCHANGED <<op, msg, aio, result, done, freed_recv, place, wrapped, mem_freed>>
      /\ outcome' = [outcome EXCEPT ![c] = "interrupted"]
  BY DEF Interrupt, LeavesCall, RunsCleanup
<1>2. c # NoCall
  BY NobodyAssumption DEF Call
<1>3. ASSUME pc[c] \in Locked \cup {"locking"} PROVE Inv'
  <2>1. /\ Sends(c) /\ SenderOK(c) /\ msg[c] \in Message /\ CallOp(c)
        /\ pc[c] \in Locked <=> lock[msg[c]] = c
    BY <1>3, IsSender
  <2>2. \/ /\ pc[c] # "awaiting" /\ pc' = [pc EXCEPT ![c] = "ended"]
           /\ lock' = IF lock[msg[c]] = c THEN [lock EXCEPT ![msg[c]] = NoCall] ELSE lock
        \/ /\ op[c] = "ctx_send" /\ pc[c] \in {"given", "armed", "waiting"}
           /\ pc' = [pc EXCEPT ![c] = "finally"] /\ lock' = lock
    <3>1. pc[c] \notin {"slicing", "started", "taking", "aborting", "freeing",
                        "wrapping", "wrapped"}
      BY <1>3 DEF Locked
    <3>2. msg[c] # NoMessage
      BY <2>1, NobodyAssumption
    <3>3. QED
      BY <1>3, <3>1, <3>2 DEF Interrupt, LeavesCall, RunsCleanup, HoldsLock,
         Locked
  <2>3. OnlyCall(c) /\ OnlyMessage(msg[c])
    BY <1>1, <2>1, <2>2 DEF OnlyCall, OnlyMessage, Inv, Ranges
  <2>4. /\ CallOp(c)'
        /\ SendPhase(pc[c], aio[c], result[c], outcome[c], place[msg[c]],
                     msg[c] \in mem_freed)'
    BY <1>1, <1>3, <2>1, <2>2
       DEF CallOp, SenderOK, SendPhase, Sends, Receives, Inv, Ranges, Locked
  <2>5. Entitled(c, msg[c])
    BY <1>1, <1>3, <2>1, <2>2 DEF Entitled, Spent, Sends, Locked
  <2>6. LockMove(c, msg[c])
    BY <1>1, <1>2, <1>3, <2>1, <2>2 DEF LockMove, SenderOK, SendPhase, Inv,
       Ranges, Locked
  <2>7. MessageMove(c, msg[c])
    <3>1. MessageOK(msg[c]) /\ place[msg[c]] # "peer"
      BY <2>1 DEF Inv, MessageOK
    <3>2. \/ pc'[c] = "ended" /\ outcome'[c] = "interrupted"
          \/ lock'[msg[c]] # NoCall
      BY <1>1, <1>2, <2>1, <2>2 DEF Inv, Ranges, Locked
    <3>3. msg[c] \in wrapped \ mem_freed /\ lock'[msg[c]] = NoCall => place[msg[c]] = "object"
      BY <1>2, <1>3, <2>1, <2>2, <3>1 DEF MessageOK, SenderOK, SendPhase, Locked
    <3>4. QED
      BY <1>1, <3>1, <3>2, <3>3 DEF MessageMove
  <2>8. QED
    BY <2>1, <2>3, <2>4, <2>5, <2>6, <2>7, SenderMoves
<1>4. ASSUME pc[c] \notin Locked \cup {"locking"} PROVE Inv'
  <2>1. \/ pc[c] = "slicing" /\ pc' = [pc EXCEPT ![c] = "aborting"]
        \/ pc[c] \in {"started", "taking", "aborting"} /\ pc' = [pc EXCEPT ![c] = "freeing"]
        \/ pc[c] \in {"freeing", "wrapping", "wrapped"} /\ pc' = [pc EXCEPT ![c] = "ended"]
    BY <1>4 DEF Interrupt, LeavesCall, RunsCleanup, Locked
  <2>2. Receives(c) /\ ReceiverOK(c) /\ CallOp(c) /\ CallOK(c)
    BY <2>1, IsReceiver DEF Inv
  <2>3. lock' = lock
    <3>1. ~HoldsLock(c)
      BY <1>4 DEF Inv, Holders
    <3>2. QED
      BY <3>1 DEF Interrupt, LeavesCall, RunsCleanup
  <2>4. OnlyReceiver(c) /\ Takes(c) /\ OnlyItsMessage(c)
    BY <1>1, <2>1, <2>3 DEF OnlyReceiver, Takes, OnlyItsMessage, Inv, Ranges
  <2>5. /\ CallOp(c)' /\ Receives(c)'
        /\ ReceivePhase(pc[c], aio[c], result[c], outcome[c], msg[c])'
    BY <1>1, <2>1, <2>2 DEF CallOp, Receives, ReceiverOK, ReceivePhase, Inv,
       Ranges
  <2>6. Registered(c)'
    BY <1>1, <2>1, <2>2 DEF Registered, CallOK, Inv, Ranges
  <2>7. ASSUME msg'[c] \in Message PROVE Brings(c, msg[c])'
    BY <1>1, <2>1, <2>2, <2>3, <2>7
       DEF ReceiverOK, ReceivePhase, Brings, Receives, Inv, Ranges
  <2>8. ASSUME msg'[c] \in Message
        PROVE  /\ msg'[c] \in wrapped' \ mem_freed' /\ lock'[msg'[c]] = NoCall =>
                    place'[msg'[c]] = "object"
               /\ Lost(msg[c])' => pc'[c] # "ended" \/ outcome'[c] = "interrupted"
    BY <1>1, <2>1, <2>3, <2>8 DEF Inv, Ranges, MessageOK
  <2>9. Received(c)'
    BY <2>5, <2>6, <2>7, <2>8 DEF Received
  <2>10. Receives(c) /\ ~(pc[c] = "ended" /\ outcome[c] = "ok")
    BY <2>1, <2>2
  <2>11. QED
    BY <2>4, <2>9, <2>10, ReceiverMoves
<1>5. QED
  BY <1>3, <1>4

(* nng ends a send, whether the call still waits or has been interrupted.  *)
LEMMA NngSendsStep ==
  ASSUME Inv, Ranges', NEW c \in Call, NngSends(c) PROVE Inv'
<1> USE DEF callVars, MovesTo
<1>1. Sends(c)
  BY DEF NngSends, Inv, CallOK, Sends, Receives, Ranges
<1>2. /\ SenderOK(c) /\ msg[c] \in Message /\ CallOp(c) /\ MessageOK(msg[c])
      /\ pc[c] \in Locked <=> lock[msg[c]] = c
  BY <1>1, IsSender DEF Inv
<1>3. /\ c # NoCall /\ aio[c] \in {"pending", "cancelling"}
      /\ place[msg[c]] = "aio" /\ msg[c] \in mem_freed
  BY <1>2, NobodyAssumption DEF NngSends, SenderOK, SendPhase, Call
<1>4. pc[c] \in {"waiting", "finally", "awaiting", "ended"}
  BY <1>1, <1>2, <1>3 DEF SenderOK, SendPhase, CallOp, Sends
<1>5. OnlyCall(c) /\ OnlyMessage(msg[c])
  BY <1>1, <1>2 DEF NngSends, OnlyCall, OnlyMessage, Inv, Ranges
<1>6. /\ CallOp(c)'
      /\ SendPhase(pc[c], aio[c], result[c], outcome[c], place[msg[c]],
                   msg[c] \in mem_freed)'
  BY <1>1, <1>2, <1>3, <1>4
     DEF NngSends, CallOp, SenderOK, SendPhase, Sends, Receives, Inv, Ranges, Locked
<1>7. Entitled(c, msg[c])
  BY <1>3 DEF Entitled
<1>8. LockMove(c, msg[c])
  BY <1>2, <1>3, <1>4 DEF NngSends, LockMove, SenderOK, Inv, Ranges, Locked
<1>9. MessageMove(c, msg[c])
  <2>1. /\ place'[msg[c]] \in {"nng", "aio"} /\ mem_freed' = mem_freed /\ lock' = lock
        /\ pc' = pc /\ outcome' = outcome
    BY <1>2, <1>3 DEF NngSends, Inv, Ranges
  <2>2. \/ lock[msg[c]] # NoCall
        \/ pc[c] = "ended" /\ outcome[c] = "interrupted"
    BY <1>2, <1>3, <1>4 DEF SenderOK, SendPhase, Locked
  <2>3. QED
    BY <1>3, <2>1, <2>2 DEF MessageMove
<1>10. QED
  BY <1>1, <1>5, <1>6, <1>7, <1>8, <1>9, SenderMoves

(* A call begins with a message that a user holds.                         *)
LEMMA StartStep ==
  ASSUME Inv, Ranges', NEW c \in Call, Start(c) PROVE Inv'
<1>1. PICK o \in {"asend", "read", "send", "ctx_send"}, m \in Message :
        /\ o \in Operations(c) /\ Held(m)
        /\ op' = [op EXCEPT ![c] = o] /\ msg' = [msg EXCEPT ![c] = m]
  BY DEF Start, Operations
<1>2. /\ pc[c] = "new" /\ pc' = [pc EXCEPT ![c] = "locking"]
      /\ UNCHANGED <<outcome, aio, result, done, freed_recv, place, wrapped,
                     mem_freed, lock>>
  BY DEF Start, Goto, aioVars, msgVars
<1>3. /\ op[c] = "none" /\ msg[c] = NoMessage /\ aio[c] = "idle" /\ result[c] = "none"
      /\ c \notin done /\ c \notin freed_recv
  BY <1>2 DEF Inv, CallOK, CallOp, Receives
<1>4. /\ m \in wrapped /\ m # NoMessage
      /\ \A d \in Call : Receives(d) /\ msg[d] = m =>
           op[d] = "recv" /\ pc[d] = "ended" /\ outcome[d] = "ok"
  BY <1>1, NobodyAssumption DEF Held
<1>5. \A d \in Call : d # c =>
        /\ pc'[d] = pc[d] /\ op'[d] = op[d] /\ msg'[d] = msg[d]
        /\ Sends(d)' = Sends(d) /\ Receives(d)' = Receives(d) /\ Spent(d)' = Spent(d)
  BY <1>1, <1>2 DEF Inv, Ranges, Sends, Receives, Spent
<1>6. /\ pc'[c] = "locking" /\ op'[c] = o /\ msg'[c] = m
      /\ Sends(c)' /\ ~Receives(c)' /\ ~Spent(c)' /\ ~Receives(c)
  BY <1>1, <1>2, <1>3 DEF Inv, Ranges, Sends, Receives, Spent
<1>7. \A n \in Message : lock[n] # c
  BY <1>3, NobodyAssumption DEF Inv, LockOK, Call
<1>8. Holders' /\ LockOK' /\ SpentOnce'
  <2>1. Holders'
    <3> SUFFICES ASSUME NEW d \in Call PROVE pc'[d] \in Locked <=> HoldsLock(d)'
      BY DEF Holders
    <3>1. CASE d = c
      BY <1>2, <1>4, <1>6, <1>7, <3>1 DEF HoldsLock, Locked
    <3>2. CASE d # c
      BY <1>2, <1>5, <3>2 DEF Inv, Holders, HoldsLock
    <3>3. QED
      BY <3>1, <3>2
  <2>2. LockOK'
    <3> SUFFICES ASSUME NEW n \in Message, lock[n] # NoCall PROVE msg'[lock[n]] = n
      BY <1>2 DEF LockOK
    <3>1. lock[n] \in Call /\ lock[n] # c /\ msg[lock[n]] = n
      BY <1>7 DEF Inv, LockOK, Ranges
    <3>2. QED
      BY <1>5, <3>1
  <2>3. SpentOnce'
    <3> SUFFICES ASSUME NEW d \in Call, NEW e \in Call, Spent(d)', Spent(e)',
                        msg'[d] = msg'[e]
                 PROVE  d = e
      BY DEF SpentOnce
    <3>1. d # c /\ e # c
      BY <1>6
    <3>2. QED
      BY <1>5, <3>1 DEF Inv, SpentOnce
  <2>4. QED
    BY <2>1, <2>2, <2>3
<1>9. CallOK(c)'
  <2>1. CallOp(c)'
    BY <1>1, <1>6 DEF CallOp, Operations, Receives
  <2>2. SenderOK(c)'
    <3>1. SendPhase(pc[c], aio[c], result[c], outcome[c], place[msg[c]],
                    msg[c] \in mem_freed)'
      BY <1>2, <1>3, <1>6 DEF SendPhase, Locked
    <3>2. \A d \in Call : Receives(d)' /\ msg'[d] = m =>
            op'[d] = "recv" /\ pc'[d] = "ended" /\ outcome'[d] = "ok"
      BY <1>2, <1>4, <1>5, <1>6
    <3>3. QED
      BY <1>2, <1>4, <1>6, <3>1, <3>2 DEF SenderOK
  <2>3. QED
    BY <1>2, <1>3, <1>6, <2>1, <2>2 DEF CallOK, Sends
<1>10. ASSUME NEW d \in Call, d # c PROVE CallOK(d)'
  <2>1. CallOp(d)'
    BY <1>5, <1>10 DEF Inv, CallOK, CallOp
  <2>2. ASSUME Sends(d) PROVE SenderOK(d)'
    <3>1. SenderOK(d)
      BY <2>2 DEF Inv, CallOK
    <3>2. \A x \in Call : Receives(x)' /\ msg'[x] = msg'[d] =>
            op'[x] = "recv" /\ pc'[x] = "ended" /\ outcome'[x] = "ok"
      BY <1>2, <1>5, <1>6, <1>10, <3>1 DEF SenderOK
    <3>3. QED
      BY <1>2, <1>5, <1>10, <3>1, <3>2 DEF SenderOK
  <2>3. ASSUME Receives(d) PROVE ReceiverOK(d)'
    <3>1. ReceiverOK(d)
      BY <2>3 DEF Inv, CallOK
    <3>2. msg[d] \in Message => Brings(d, msg[d])'
      BY <1>2, <1>5, <1>10, <3>1 DEF ReceiverOK, Brings
    <3>3. \A x \in Call : Receives(x)' /\ msg'[x] = msg'[d] /\ msg'[d] \in Message => x = d
      BY <1>5, <1>6, <1>10, <3>1 DEF ReceiverOK
    <3>4. QED
      BY <1>2, <1>5, <1>10, <3>1, <3>2, <3>3 DEF ReceiverOK
  <2>4. QED
    BY <1>2, <1>5, <1>10, <2>1, <2>2, <2>3 DEF Inv, CallOK
<1>11. ASSUME NEW n \in Message PROVE MessageOK(n)'
  <2>1. MessageOK(n)
    BY DEF Inv
  <2>2. Witness(n) => Witness(n)'
    BY <1>2, <1>3, <1>5, NobodyAssumption DEF Witness
  <2>3. Lost(n)' => Lost(n)
    BY <1>2 DEF Lost
  <2>4. place[n] = "peer" => \A d \in Call : msg'[d] # n
    BY <1>4, <1>5, <1>6, <2>1 DEF MessageOK
  <2>5. QED
    BY <1>2, <2>1, <2>2, <2>3, <2>4 DEF MessageOK
<1>12. QED
  BY <1>8, <1>9, <1>10, <1>11 DEF Inv

(* The Message is collected: no call that uses it is under way.            *)
LEMMA FinalizeStep ==
  ASSUME Inv, Ranges', NEW m \in Message, Finalize(m) PROVE Inv'
<1>1. /\ m \in wrapped /\ \A c \in Call : msg[c] = m => pc[c] = "ended"
      /\ wrapped' = wrapped \ {m} /\ mem_freed' = mem_freed \cup {m}
      /\ place' = IF m \in mem_freed THEN place ELSE [place EXCEPT ![m] = "freed"]
      /\ UNCHANGED <<pc, outcome, op, msg, aio, result, done, freed_recv, lock>>
  BY DEF Finalize, callVars, aioVars
<1>2. lock[m] = NoCall
  <2>1. lock[m] # NoCall => /\ lock[m] \in Call /\ msg[lock[m]] = m
                            /\ pc[lock[m]] \in Locked
    BY NobodyAssumption DEF Inv, Ranges, LockOK, Holders, HoldsLock
  <2>2. QED
    BY <1>1, <2>1 DEF Locked
<1>3. \A n \in Message : n # m =>
        /\ place'[n] = place[n]
        /\ n \in wrapped' <=> n \in wrapped
        /\ n \in mem_freed' <=> n \in mem_freed
  BY <1>1 DEF Inv, Ranges
<1>4. /\ m \in mem_freed' /\ m \notin wrapped' /\ place'[m] # "peer"
      /\ m \in mem_freed => place'[m] = place[m]
      /\ m \notin mem_freed => place'[m] = "freed"
  BY <1>1 DEF Inv, Ranges, MessageOK
<1>5. /\ Holders' /\ LockOK' /\ SpentOnce'
      /\ \A c \in Call : Sends(c)' = Sends(c) /\ Receives(c)' = Receives(c)
                         /\ CallOp(c)' = CallOp(c)
  BY <1>1 DEF Inv, Holders, HoldsLock, LockOK, SpentOnce, Spent, Sends,
     Receives, CallOp
<1>6. ASSUME NEW c \in Call PROVE CallOK(c)'
  <2>1. ASSUME Sends(c) PROVE SenderOK(c)'
    <3>1. SenderOK(c) /\ msg[c] \in Message
      BY <2>1 DEF Inv, CallOK, SenderOK
    <3>2. SendPhase(pc[c], aio[c], result[c], outcome[c], place[msg[c]],
                    msg[c] \in mem_freed)'
      <4>1. CASE msg[c] # m
        BY <1>1, <1>3, <3>1, <4>1 DEF SenderOK
      <4>2. CASE msg[c] = m
        BY <1>1, <1>4, <3>1, <4>2 DEF SenderOK, SendPhase, Locked
      <4>3. QED
        BY <4>1, <4>2
    <3>3. /\ pc[c] # "ended" => msg[c] \in wrapped'
          /\ msg[c] \in wrapped' \cup mem_freed'
      BY <1>1, <1>3, <1>4, <3>1 DEF SenderOK
    <3>4. \A d \in Call : Receives(d)' /\ msg'[d] = msg'[c] =>
            op'[d] = "recv" /\ pc'[d] = "ended" /\ outcome'[d] = "ok"
      BY <1>1, <1>5, <3>1 DEF SenderOK
    <3>5. QED
      BY <1>1, <3>1, <3>2, <3>3, <3>4 DEF SenderOK
  <2>2. ASSUME Receives(c) PROVE ReceiverOK(c)'
    <3>1. ReceiverOK(c)
      BY <2>2 DEF Inv, CallOK
    <3>2. ASSUME msg[c] \in Message PROVE Brings(c, msg[c])'
      <4>1. Brings(c, msg[c])
        BY <3>1, <3>2 DEF ReceiverOK
      <4>2. CASE msg[c] # m
        BY <1>1, <1>3, <3>2, <4>1, <4>2 DEF Brings
      <4>3. CASE msg[c] = m
        BY <1>1, <1>2, <1>4, <4>1, <4>3 DEF Brings
      <4>4. QED
        BY <4>2, <4>3
    <3>3. \A d \in Call : Receives(d)' /\ msg'[d] = msg'[c] /\ msg'[c] \in Message => d = c
      BY <1>1, <1>5, <3>1 DEF ReceiverOK
    <3>4. QED
      BY <1>1, <3>1, <3>2, <3>3 DEF ReceiverOK
  <2>3. QED
    BY <1>1, <1>5, <2>1, <2>2 DEF Inv, CallOK
<1>7. ASSUME NEW n \in Message PROVE MessageOK(n)'
  <2>1. MessageOK(n) /\ Witness(n)' = Witness(n)
    BY <1>1, <1>5 DEF Inv, Witness
  <2>2. CASE n # m
    BY <1>1, <1>3, <2>1, <2>2 DEF MessageOK, Lost
  <2>3. CASE n = m
    BY <1>1, <1>2, <1>4, <2>1, <2>3 DEF MessageOK, Lost
  <2>4. QED
    BY <2>2, <2>3
<1>8. QED
  BY <1>5, <1>6, <1>7 DEF Inv

------------------------------------------------------------------------------
(* The theorems.                                                           *)

(* Every step of the system preserves the invariant.                       *)
LEMMA InvStep == Inv /\ [Next \/ Finished]_vars => Inv'
<1> SUFFICES ASSUME Inv, [Next \/ Finished]_vars PROVE Inv'
  OBVIOUS
<1>1. ASSUME NEW c \in Call,
             \/ Start(c) \/ RecvQueued(c) \/ RecvRaises(c) \/ RecvStart(c)
             \/ Enter(c) \/ Sending(c) \/ Receiving(c) \/ Nng(c)
             \/ CancelTask(c) \/ Interrupt(c)
      PROVE  Inv'
  <2>1. Ranges /\ CallOK(c)
    BY DEF Inv
  <2>2. Ranges'
    BY <1>1, <2>1, EnterRanges, SendingRanges, ReceivingRanges, OtherRanges
  <2>3. QED
    BY <1>1, <2>2, StartStep, SenderStep, ReceiverStep, InterruptStep,
       NngSendsStep
       DEF Nng
<1>2. ASSUME NEW m \in Message, Finalize(m) PROVE Inv'
  <2>1. Ranges'
    BY <1>2 DEF Finalize, Inv, Ranges, callVars, aioVars
  <2>2. QED
    BY <1>2, <2>1, FinalizeStep
<1>3. CASE UNCHANGED vars
  <2>1. UNCHANGED <<pc, op, msg, outcome, cancelled, interrupts, aio, result, done,
                    place, wrapped, mem_freed, lock, freed_recv>>
    BY <1>3 DEF vars
  <2>2. Ranges' /\ Holders' /\ LockOK' /\ SpentOnce'
    BY <2>1 DEF Inv, Ranges, Holders, HoldsLock, LockOK, SpentOnce, Spent, Sends
  <2>3. ASSUME NEW c \in Call PROVE CallOK(c)'
    BY <2>1 DEF Inv, CallOK, CallOp, Sends, Receives, SenderOK, ReceiverOK,
       Brings
  <2>4. ASSUME NEW m \in Message PROVE MessageOK(m)'
    BY <2>1 DEF Inv, MessageOK, Lost, Witness, Receives
  <2>5. QED
    BY <2>2, <2>3, <2>4 DEF Inv
<1>4. QED
  BY <1>1, <1>2, <1>3 DEF Next, Finished

(* The invariant holds in every state.                                     *)
LEMMA InvAlways == Spec => []Inv
BY InitInv, InvStep, PTL DEF Spec

(* Types, and the lock of a message is with the call between its acquire   *)
(* and its release, whatever interrupts it.                                *)
THEOREM TypeCorrect == Spec => []TypeOK
BY InvAlways, InvType, PTL

(* A Message that is not being sent and is not given up has its nng_msg,   *)
(* so that __del__ and the next send are right to use it.                  *)
THEOREM NothingFreedTwice == Spec => []NeverFreedTwice
<1>1. Inv => NeverFreedTwice
  <2> SUFFICES ASSUME Inv, NEW m \in wrapped \ mem_freed, lock[m] = NoCall
               PROVE  place[m] = "object"
    BY DEF NeverFreedTwice
  <2>1. m \in Message
    BY DEF Inv, Ranges
  <2>2. MessageOK(m)
    BY <2>1 DEF Inv
  <2>3. QED
    BY <2>2 DEF MessageOK
<1>2. QED
  BY <1>1, InvAlways, PTL

(* Only an interrupt leaks: a message in an aio or given up and not with   *)
(* nng is one of a call that goes on, or that an interrupt has hit.        *)
THEOREM OnlyInterruptsLeak == Spec => []NoLeak
<1>1. Inv => NoLeak
  <2> SUFFICES ASSUME Inv, NEW m \in Message, Lost(m)
               PROVE  \E c \in Call :
                        msg[c] = m /\ (pc[c] # "ended" \/ outcome[c] = "interrupted")
    BY DEF NoLeak, Lost
  <2>1. Witness(m)
    BY DEF Inv, MessageOK
  <2>2. CASE lock[m] # NoCall
    <3>1. lock[m] \in Call /\ msg[lock[m]] = m
      BY <2>2 DEF Inv, Ranges, LockOK
    <3>2. pc[lock[m]] \in Locked
      BY <3>1, NobodyAssumption DEF Inv, Holders, HoldsLock
    <3>3. QED
      BY <3>1, <3>2 DEF Locked
  <2>3. QED
    BY <2>1, <2>2 DEF Witness
<1>2. QED
  BY <1>1, InvAlways, PTL

(* nng accepts a message from one send at most.                            *)
THEOREM NothingSentTwice == Spec => []SentOnce
<1>1. Inv => SentOnce
  <2> SUFFICES ASSUME Inv, NEW m \in Message
               PROVE  Cardinality({c \in Call : msg[c] = m /\ ~Receives(c)
                                                /\ result[c] = "ok"}) <= 1
    BY DEF SentOnce
  <2> DEFINE S == {c \in Call : msg[c] = m /\ ~Receives(c) /\ result[c] = "ok"}
  <2>1. \A c \in S : Spent(c)
    BY DEF Inv, CallOK, Ranges, Spent, Sends, Receives
  <2>2. \A c, d \in S : c = d
    BY <2>1 DEF Inv, SpentOnce
  <2>3. CASE S = {}
    BY <2>3, FS_EmptySet
  <2>4. CASE S # {}
    <3>1. PICK c \in S : S = {c}
      BY <2>2, <2>4
    <3>2. Cardinality({c}) = 1
      BY FS_Singleton
    <3>3. QED
      BY <3>1, <3>2
  <2>5. QED
    BY <2>3, <2>4
<1>2. QED
  BY <1>1, InvAlways, PTL

(* pynng_sync_recv_free gives up nothing that the completion callback of   *)
(* its aio may still use.                                                  *)
THEOREM CallbackHasItsMutex == Spec => []SyncRecvOutlivesCallback
<1>1. Inv => SyncRecvOutlivesCallback
  BY DEF Inv, CallOK, Ranges, SyncRecvOutlivesCallback
<1>2. QED
  BY <1>1, InvAlways, PTL

(* A step of a call leaves the other calls where they are.                 *)
LEMMA OneCall ==
  ASSUME Ranges, NEW c \in Call, NEW d \in Call \ {c},
         \/ Start(c) \/ RecvQueued(c) \/ RecvRaises(c) \/ RecvStart(c)
         \/ Enter(c) \/ Sending(c) \/ Receiving(c) \/ Nng(c)
         \/ CancelTask(c) \/ Interrupt(c)
  PROVE  pc'[d] = pc[d]
<1> USE DEF Ranges, Goto, Finish
<1>1. CASE Start(c) \/ RecvQueued(c) \/ RecvRaises(c) \/ RecvStart(c)
  BY <1>1 DEF Start, RecvQueued, RecvRaises, RecvStart
<1>2. CASE Enter(c)
  BY <1>2 DEF Enter, LockRefused, Read, LockForSend, GiveUp, Asend, AsendFails
<1>3. CASE Sending(c)
  BY <1>3 DEF Sending, NngSendmsg, SendReturns, SendRaises, CtxAllocFails,
     CtxSetMsg,
              CtxSend, CtxResult, CtxCancel, CtxTakeBack, CtxReturns, AsendReturns
<1>4. CASE Receiving(c)
  BY <1>4 DEF Receiving, RecvWaits, RecvDone, RecvTake, RecvCancel, RecvAborted,
              RecvFree, Wrap, RecvReturns, CopyInto
<1>5. CASE Nng(c) \/ CancelTask(c)
  BY <1>5 DEF Nng, NngSends, NngReceives, CallbackSetsDone, CallbackReturns,
     CancelTask
<1>6. CASE Interrupt(c)
  BY <1>6 DEF Interrupt, LeavesCall, RunsCleanup
<1>7. QED
  BY <1>1, <1>2, <1>3, <1>4, <1>5, <1>6

(* What a send that ends with nng's error does.                            *)
LEMMA EndsInError ==
  ASSUME Ranges, NEW c \in Call, CallOp(c),
         \/ Start(c) \/ RecvQueued(c) \/ RecvRaises(c) \/ RecvStart(c)
         \/ Enter(c) \/ Sending(c) \/ Receiving(c) \/ Nng(c)
         \/ CancelTask(c) \/ Interrupt(c),
         pc[c] # "ended", pc'[c] = "ended", outcome'[c] = "error",
         op[c] \in {"send", "ctx_send"}
  PROVE  SendRaises(c) \/ CtxAllocFails(c) \/ CtxReturns(c)
<1> USE DEF Ranges, Goto, Finish
<1>1. ~(Start(c) \/ RecvQueued(c) \/ RecvRaises(c) \/ RecvStart(c))
  BY DEF Start, RecvQueued, RecvRaises, RecvStart, Receive, CallOp
<1>2. ~Enter(c)
  BY DEF Enter, LockRefused, Read, LockForSend, GiveUp, Asend, AsendFails
<1>3. CASE Sending(c)
  <2>1. ~(NngSendmsg(c) \/ SendReturns(c) \/ CtxSetMsg(c) \/ CtxSend(c))
    BY DEF NngSendmsg, SendReturns, CtxSetMsg, CtxSend
  <2>2. ~(CtxResult(c) \/ CtxCancel(c) \/ CtxTakeBack(c) \/ AsendReturns(c))
    BY DEF CtxResult, CtxCancel, CtxTakeBack, AsendReturns, CallOp
  <2>3. QED
    BY <1>3, <2>1, <2>2 DEF Sending
<1>4. ~Receiving(c)
  BY DEF Receiving, RecvWaits, RecvDone, RecvTake, RecvCancel, RecvAborted,
         RecvFree, Wrap, RecvReturns, CopyInto, CallOp
<1>5. ~(Nng(c) \/ CancelTask(c) \/ Interrupt(c))
  BY DEF Nng, NngSends, NngReceives, CallbackSetsDone, CallbackReturns,
     CancelTask,
         Interrupt, LeavesCall, RunsCleanup
<1>6. QED
  BY <1>1, <1>2, <1>3, <1>4, <1>5

(* Each of them leaves the message with its owner.                         *)
LEMMA RefusedKeeps ==
  ASSUME Inv, NEW c \in Call, SendRaises(c) \/ CtxAllocFails(c) \/ CtxReturns(c),
         outcome'[c] = "error"
  PROVE  msg[c] \notin mem_freed' /\ place'[msg[c]] = "object"
<1>1. pc[c] \in {"refused", "owning", "taken_back", "handed_over"}
  BY DEF SendRaises, CtxAllocFails, CtxReturns
<1>2. SenderOK(c)
  BY <1>1, IsSender DEF Locked
<1>3. CASE SendRaises(c)
  BY <1>2, <1>3 DEF SendRaises, SenderOK, SendPhase
<1>4. CASE CtxAllocFails(c)
  BY <1>2, <1>4 DEF CtxAllocFails, SenderOK, SendPhase
<1>5. CASE CtxReturns(c)
  <2>1. outcome[c] = "error"
    BY <1>5 DEF CtxReturns, Finish, Inv, Ranges
  <2>2. QED
    BY <1>2, <1>5, <2>1 DEF CtxReturns, SenderOK, SendPhase
<1>6. QED
  BY <1>3, <1>4, <1>5

(* send_msg of a Socket or of a Context that raises what nng answered      *)
(* leaves its caller the message, whatever the other calls do.             *)
THEOREM RefusedKeepsMessage == Spec => RefusedSendKeepsMessage
<1> DEFINE Step == \A c \in ThreadCall :
             pc[c] # "ended" /\ pc'[c] = "ended" /\ outcome'[c] = "error"
               /\ op[c] \in {"send", "ctx_send"}
             => msg[c] \notin mem_freed' /\ place'[msg[c]] = "object"
<1>1. Inv /\ [Next \/ Finished]_vars => [Step]_vars
  <2> SUFFICES ASSUME Inv, Next \/ Finished, NEW c \in ThreadCall,
                      pc[c] # "ended", pc'[c] = "ended", outcome'[c] = "error",
                      op[c] \in {"send", "ctx_send"}
               PROVE  msg[c] \notin mem_freed' /\ place'[msg[c]] = "object"
    OBVIOUS
  <2>1. c \in Call /\ Ranges /\ CallOp(c)
    BY DEF Call, Inv, CallOK
  <2>2. pc' # pc
    OBVIOUS
  <2>3. PICK d \in Call :
          \/ Start(d) \/ RecvQueued(d) \/ RecvRaises(d) \/ RecvStart(d)
          \/ Enter(d) \/ Sending(d) \/ Receiving(d) \/ Nng(d)
          \/ CancelTask(d) \/ Interrupt(d)
    BY <2>2 DEF Next, Finalize, Finished, vars
  <2>4. d = c
    BY <2>1, <2>3, OneCall
  <2>5. SendRaises(c) \/ CtxAllocFails(c) \/ CtxReturns(c)
    BY <2>1, <2>3, <2>4, EndsInError
  <2>6. QED
    BY <2>1, <2>5, RefusedKeeps
<1>2. QED
  BY <1>1, InvAlways, PTL DEF Spec, RefusedSendKeepsMessage
=============================================================================
