--------------------------- MODULE Rep0ServiceProofs ---------------------------
(***************************************************************************)
(* That replies go to their requester, for any number of requests, workers *)
(* and iterations, as long as nobody replies after the with block.         *)
(***************************************************************************)
EXTENDS Rep0Service, TLAPS

(* No worker has begun before the service is entered.                      *)
NewOK == service = "new" => \A w \in Worker : worker[w] = "new"

(* A request that the user has not seen has neither a reply nor its event. *)
UntouchedOK ==
  \A r \in Req : request[r] \in {"sent", "arrived", "queued", "held"} =>
    r \notin replied /\ r \notin event

(* What a receive holds is what the context owes, and no other holds it.   *)
ArrivedOK ==
  \A w \in Worker : arrived[w] # Nothing =>
    /\ worker[w] = "receiving" /\ owed[w] = arrived[w]
    /\ request[arrived[w]] = "arrived"
    /\ \A v \in Worker : arrived[v] = arrived[w] => v = w

(* A request waits in the queue once.                                      *)
QueueOK ==
  /\ \A i \in 1..Len(queue) : queue[i] # Sentinel => request[queue[i]] = "queued"
  /\ \A i, j \in 1..Len(queue) : queue[i] = queue[j] /\ queue[i] # Sentinel => i = j

(* The worker of a request that awaits its reply does not receive, and its *)
(* context owes the reply to the requester.                                *)
OwedOK ==
  \A r \in Req : request[r] \in {"queued", "held"} =>
    /\ served_by[r] \in Worker
    /\ owed[served_by[r]] = r
    /\ \/ worker[served_by[r]] = "ended"
       \/ worker[served_by[r]] = "waiting" /\ serving[served_by[r]] = r

Inv == /\ TypeOK /\ NewOK /\ UntouchedOK /\ ArrivedOK /\ QueueOK /\ OwedOK
       /\ ReplyToRequester

------------------------------------------------------------------------------
(* Nothing was received yet.                                               *)
LEMMA InitInv == Init => Inv
<1> SUFFICES ASSUME Init PROVE Inv
  OBVIOUS
<1>1. socket \in SocketType
  <2>1. Lent \in SocketType
    BY DEF Lent, SocketType
  <2>2. Owned \in SocketType
    BY <2>1 DEF Owned, SocketType
  <2>3. QED
    BY <2>1, <2>2 DEF Init
<1>2. QED
  BY <1>1, NothingAssumption
  DEF Init, Inv, TypeOK, NewOK, UntouchedOK, ArrivedOK, QueueOK, OwedOK,
      ReplyToRequester

(* A step of a worker preserves the invariant.                             *)
LEMMA WorkerSteps == ASSUME Inv, NEW w \in Worker, Work(w) PROVE Inv'
<1> USE NothingAssumption
    DEF Inv, TypeOK, NewOK, UntouchedOK, ArrivedOK, QueueOK, OwedOK,
        ReplyToRequester, requestVars, nngVars
<1>1. CASE WorkerTakes(w)
  BY <1>1 DEF WorkerTakes, Move, Running
<1>2. CASE WorkerGoesOn(w)
  BY <1>2 DEF WorkerGoesOn, MayReceive
<1>3. CASE WorkerFindsClosed(w)
  BY <1>3 DEF WorkerFindsClosed
<1>4. CASE WorkerCancelled(w)
  <2>1. TypeOK'
    BY <1>4 DEF WorkerCancelled
  <2>2. NewOK'
    BY <1>4 DEF WorkerCancelled
  <2>3. UntouchedOK'
    BY <1>4 DEF WorkerCancelled
  <2>4. ArrivedOK'
    BY <1>4 DEF WorkerCancelled
  <2>5. QueueOK'
    BY <1>4 DEF WorkerCancelled
  <2>6. OwedOK'
    BY <1>4 DEF WorkerCancelled
  <2>7. ReplyToRequester'
    BY <1>4 DEF WorkerCancelled
  <2>8. QED
    BY <2>1, <2>2, <2>3, <2>4, <2>5, <2>6, <2>7
<1>5. QED
  BY <1>1, <1>2, <1>3, <1>4 DEF Work

(* Preparing and releasing a socket keeps to the fields of one.            *)
LEMMA ReleasedType == \A s \in SocketType : Released(s) \in SocketType
  BY DEF SocketType, Released

(* So does what _prepare_socket leaves, whole or partly done.              *)
LEMMA PreparedType ==
  ASSUME socket \in SocketType
  PROVE  Prepared \in SocketType /\ PartlyPrepared \subseteq SocketType
  BY ListensAssumption DEF SocketType, Prepared, PartlyPrepared

(* Entering and leaving the service and iterating preserve the invariant.  *)
LEMMA ServiceSteps ==
  ASSUME Inv,
         \/ Start \/ Exit \/ Stop \/ SocketClosed
         \/ \E W \in SUBSET Worker : StartFails(W)
         \/ \E c \in Consumer : Take(c) \/ EndOfChannel(c)
  PROVE  Inv'
<1> USE NothingAssumption
    DEF Inv, TypeOK, NewOK, UntouchedOK, ArrivedOK, QueueOK, OwedOK,
        ReplyToRequester, requestVars, nngVars, serviceVars
<1>1. CASE Start
  <2>1. socket' \in SocketType
    BY <1>1, PreparedType DEF Start
  <2>2. QED
    BY <1>1, <2>1 DEF Start
<1>2. CASE Exit
  BY <1>2 DEF Exit
<1>3. CASE Stop
  <2>1. socket' \in SocketType
    BY <1>3, ReleasedType DEF Stop
  <2>2. /\ service' = "stopped"
        /\ UNCHANGED <<backend, worker, serving, consumer, request, served_by,
                       replied, event, goes_to, context, arrived, owed>>
    BY <1>3 DEF Stop
  <2>3. queue' \in {queue, Append(queue, Sentinel)}
    BY <1>3 DEF Stop, EndIteration
  <2>4. TypeOK'
    BY <2>1, <2>2, <2>3
  <2>5. (NewOK /\ UntouchedOK /\ ArrivedOK)'
    BY <2>2
  <2>6. QueueOK'
    <3>1. CASE queue' = queue
      BY <2>2, <3>1
    <3>2. CASE queue' = Append(queue, Sentinel)
      <4>1. /\ Len(queue') = Len(queue) + 1
            /\ queue'[Len(queue) + 1] = Sentinel
            /\ \A i \in 1..Len(queue) : queue'[i] = queue[i]
        BY <3>2
      <4>2. \A i \in 1..Len(queue') : queue'[i] # Sentinel => i \in 1..Len(queue)
        BY <4>1
      <4>3. QED
        BY <2>2, <4>1, <4>2
    <3>3. QED
      BY <2>3, <3>1, <3>2
  <2>7. (OwedOK /\ ReplyToRequester)'
    BY <2>2
  <2>8. QED
    BY <2>4, <2>5, <2>6, <2>7
<1>4. CASE SocketClosed
  <2>1. /\ context' \in [Worker -> {"none", "open", "closed"}]
        /\ socket' \in SocketType
        /\ UNCHANGED <<backend, service, worker, serving, queue, consumer, request,
                       served_by, replied, event, goes_to, arrived, owed>>
    BY <1>4 DEF SocketClosed, SocketType
  <2>2. TypeOK'
    BY <2>1
  <2>3. (NewOK /\ UntouchedOK /\ ArrivedOK)'
    BY <2>1
  <2>4. (QueueOK /\ OwedOK /\ ReplyToRequester)'
    BY <2>1
  <2>5. QED
    BY <2>2, <2>3, <2>4
<1>5. CASE \E c \in Consumer : Take(c)
  <2> PICK c \in Consumer : Take(c)
    BY <1>5
  <2>1. TypeOK'
    <3>1. /\ Head(queue) = queue[1] /\ 1 \in 1..Len(queue)
          /\ Head(queue) \in Req \cup {Sentinel}
          /\ Tail(queue) \in Seq(Req \cup {Sentinel})
      BY DEF Take
    <3>2. CASE Head(queue) = Sentinel
      <4>1. /\ consumer' = [consumer EXCEPT ![c] = "ended"]
            /\ queue' = Tail(queue)
            /\ UNCHANGED <<backend, socket, service, worker, serving, request, served_by,
                           replied, event, goes_to, context, arrived, owed>>
        BY <3>2 DEF Take
      <4>2. QED
        BY <3>1, <4>1
    <3>3. CASE Head(queue) # Sentinel
      <4>1. request[Head(queue)] = "queued"
        BY <3>1, <3>3
      <4>2. /\ request' = [request EXCEPT ![Head(queue)] = "held"]
            /\ queue' = Tail(queue)
            /\ UNCHANGED <<backend, socket, service, worker, serving, consumer, served_by,
                           replied, event, goes_to, context, arrived, owed>>
        BY <3>3 DEF Take, Move
      <4>3. QED
        BY <3>1, <3>3, <4>1, <4>2
    <3>4. QED
      BY <3>2, <3>3
  <2>2. NewOK'
    BY DEF Take, Move
  <2>3. UntouchedOK'
    BY DEF Take, Move
  <2>4. ArrivedOK'
    BY DEF Take, Move
  <2>5. QueueOK'
    BY DEF Take, Move
  <2>6. OwedOK'
    BY DEF Take, Move
  <2>7. ReplyToRequester'
    BY DEF Take, Move
  <2>8. QED
    BY <2>1, <2>2, <2>3, <2>4, <2>5, <2>6, <2>7
(* No worker has begun, whatever call has failed.                          *)
<1>6. CASE \E W \in SUBSET Worker : StartFails(W)
  <2> PICK W \in SUBSET Worker : StartFails(W)
    BY <1>6
  <2>1. socket' \in SocketType
    BY ReleasedType, PreparedType DEF StartFails, StartFailed
  <2>2. /\ service' = "failed"
        /\ context' \in [Worker -> {"none", "open", "closed"}]
        /\ worker' \in [Worker -> {"new", "receiving", "waiting", "ended"}]
        /\ \A w \in Worker : worker'[w] \in {"new", "receiving"}
        /\ UNCHANGED <<backend, serving, queue, consumer, request, served_by,
                       replied, event, goes_to, arrived, owed>>
    BY DEF StartFails
  <2>3. \A w \in Worker : worker[w] = "new"
    BY DEF StartFails
  <2>4. (TypeOK /\ NewOK /\ UntouchedOK)'
    BY <2>1, <2>2
  <2>5. ArrivedOK'
    BY <2>2, <2>3
  <2>6. (QueueOK /\ OwedOK /\ ReplyToRequester)'
    BY <2>2, <2>3
  <2>7. QED
    BY <2>4, <2>5, <2>6
<1>7. CASE \E c \in Consumer : EndOfChannel(c)
  BY <1>7 DEF EndOfChannel
<1>8. QED
  BY <1>1, <1>2, <1>3, <1>4, <1>5, <1>6, <1>7

(* What becomes of a request preserves the invariant.                      *)
LEMMA RequestSteps ==
  ASSUME Inv, ~LateReply, NEW r \in Req,
         \/ Settle(r) \/ ReplyEnds(r)
         \/ \E w \in Worker : NngReceives(w, r)
  PROVE  Inv'
<1> USE NothingAssumption
    DEF Inv, TypeOK, NewOK, UntouchedOK, ArrivedOK, QueueOK, OwedOK,
        ReplyToRequester, nngVars, serviceVars, Move
(* The request is held, so what the context owes is the reply to it.       *)
<1>1. CASE Reply(r)
  <2>1. request[r] = "held" /\ owed[served_by[r]] = r /\ served_by[r] \in Worker
    BY <1>1 DEF Reply, MayReply
  <2>2. QED
    BY <1>1, <2>1 DEF Reply
<1>2. CASE ReplyRefused(r)
  BY <1>2 DEF ReplyRefused, MayReply
<1>3. CASE Leave(r)
  BY <1>3 DEF Leave
<1>4. CASE Drop(r)
  BY <1>4 DEF Drop
<1>5. CASE ReplySent(r)
  BY <1>5 DEF ReplySent
<1>6. CASE ReplyFails(r)
  BY <1>6 DEF ReplyFails, Unblocks
<1>8. CASE \E w \in Worker : NngReceives(w, r)
  BY <1>8 DEF NngReceives
<1>9. QED
  BY <1>1, <1>2, <1>3, <1>4, <1>5, <1>6, <1>8 DEF Settle, ReplyEnds

(* Nothing changes in a stuttering step.                                   *)
LEMMA StutterInv == Inv /\ UNCHANGED vars => Inv'
  BY DEF Inv, TypeOK, NewOK, UntouchedOK, ArrivedOK, QueueOK, OwedOK,
         ReplyToRequester, vars

(* "Send a response back to the requester": while replies are made in the  *)
(* with block, every one goes to whoever sent the request.                 *)
THEOREM RepliesReachRequester ==
  ASSUME ~LateReply PROVE Spec => []ReplyToRequester
<1>1. Inv /\ [Next]_vars => Inv'
  BY WorkerSteps, ServiceSteps, RequestSteps, StutterInv DEF Next
<1>2. Inv => ReplyToRequester
  BY DEF Inv
<1>3. QED
  BY InitInv, <1>1, <1>2, PTL DEF Spec

------------------------------------------------------------------------------
(* What _release_socket leaves behind.                                     *)
LEMMA ReleasedAsFound ==
  ASSUME NEW s \in SocketType
  PROVE  IF Released(s).own THEN ~Released(s).open
         ELSE Released(s).open => Released(s).ours = {} /\ ~Released(s).listens
  BY DEF Released, SocketType

(* "Close an owned socket, or undo what the service did to a borrowed      *)
(* one": however the service ended, or failed to start.                    *)
THEOREM SocketReturned == Spec => []SocketLeftAsFound
<1> DEFINE SInv == socket \in SocketType /\ SocketLeftAsFound
<1>1. Init => SInv
  <2>1. Lent \in SocketType
    BY DEF Lent, SocketType
  <2>2. Owned \in SocketType
    BY <2>1 DEF Owned, SocketType
  <2>3. QED
    BY <2>1, <2>2 DEF Init, SocketLeftAsFound
<1>2. SInv /\ [Next]_vars => SInv'
  <2> SUFFICES ASSUME SInv, [Next]_vars PROVE SInv'
    OBVIOUS
  <2>2. CASE Stop
    BY <2>2, ReleasedType, ReleasedAsFound DEF Stop, SocketLeftAsFound
  <2>3. CASE \E W \in SUBSET Worker : StartFails(W)
    <3>1. PICK s \in SocketType : socket' = Released(s)
      BY <2>3, PreparedType DEF StartFails, StartFailed
    <3>2. QED
      BY <3>1, ReleasedType, ReleasedAsFound DEF SocketLeftAsFound
  <2>4. CASE SocketClosed
    BY <2>4 DEF SocketClosed, SocketLeftAsFound, SocketType
  <2>5. CASE Start \/ Exit
    BY <2>5, PreparedType DEF Start, Exit, SocketLeftAsFound
  <2>6. CASE UNCHANGED <<socket, service>>
    BY <2>6 DEF SocketLeftAsFound
  <2>7. ASSUME NEW w \in Worker, Work(w) \/ \E r \in Req : NngReceives(w, r)
        PROVE  UNCHANGED <<socket, service>>
    BY <2>7 DEF Work, WorkerTakes, WorkerGoesOn, WorkerFindsClosed,
                WorkerCancelled, NngReceives, serviceVars
  <2>8. ASSUME NEW c \in Consumer, Take(c) \/ EndOfChannel(c)
        PROVE  UNCHANGED <<socket, service>>
    BY <2>8 DEF Take, EndOfChannel
  <2>9. ASSUME NEW r \in Req, Settle(r) \/ ReplyEnds(r)
        PROVE  UNCHANGED <<socket, service>>
    BY <2>9 DEF Settle, ReplyEnds, Reply, ReplyRefused, Leave, Drop, ReplySent,
                ReplyFails, serviceVars
  <2>10. QED
    BY <2>2, <2>3, <2>4, <2>5, <2>6, <2>7, <2>8, <2>9 DEF Next, vars
<1>3. QED
  BY <1>1, <1>2, PTL DEF Spec
=============================================================================
