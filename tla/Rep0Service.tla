------------------------------ MODULE Rep0Service ------------------------------
(***************************************************************************)
(* Rep0Service and Request (pynng/service.py) under asyncio and trio, on a *)
(* socket of the service's own or on a borrowed one.  Each worker receives *)
(* on a context of its own, puts a Request into a queue, and waits for the *)
(* Request's event before it receives again.  The user iterates over the   *)
(* service and replies to the requests, leaves their with blocks or drops  *)
(* them, in tasks of any kind.                                             *)
(*                                                                         *)
(* All of it runs on one event loop: a step is what runs between two       *)
(* awaits.  nng, the requesters and whoever lent the socket act at any     *)
(* time.  The queue is asyncio's, without a limit, or a channel of trio    *)
(* with room for two requests of each worker, which never has more than    *)
(* one in it.                                                              *)
(*                                                                         *)
(* nng is external: a context remembers the requester of the last request  *)
(* it received, a reply goes to that requester and is refused when there   *)
(* is none, and closing a context ends what waits on it.                   *)
(***************************************************************************)
EXTENDS Naturals, Sequences, FiniteSets

CONSTANTS
  Req,       \* requests, each of a requester of its own
  Worker,    \* workers, each with its context
  Consumer,  \* tasks that iterate over the service
  Nothing,
  Sentinel,  \* Rep0Service._sentinel
  Timeout,   \* the timeouts that the service is to set
  Listens,   \* whether it has an address to listen on with a borrowed socket
  LateReply  \* the user may reply after the with block, as a task does that
             \* was made in the block and starts when it is left

ASSUME NothingAssumption == Nothing \notin Req /\ Sentinel \notin Req
ASSUME ListensAssumption == Listens \in BOOLEAN
ASSUME LateReplyAssumption == LateReply \in BOOLEAN

VARIABLES
  backend,  \* what sniffio says: "asyncio" or "trio"
  socket,   \* whether the service owns it and it is open; the timeouts of
            \* the service that a borrowed one has, and whether it listens
            \* for the service
  service,  \* "new", "running", "joining" in __aexit__, "stopped", or "failed"
            \* to start
  worker,   \* "new", "receiving", "waiting" for the event, or "ended"
  serving,  \* the request each worker waits for
  queue,
  consumer,  \* "iterating" or "ended"
  \* requests
  request,   \* where each is
  served_by, \* Request.context, by its worker
  replied,   \* those whose _replied is set
  event,     \* those whose _replied_event is set
  goes_to,   \* the requester that gets the reply to each request
  \* nng
  context,  \* "none", "open" or "closed"
  arrived,  \* the request a receive has ended with, not yet taken
  owed      \* whose request the context received last and has not answered

serviceVars == <<backend, socket, service, worker, serving, queue, consumer>>
requestVars == <<request, served_by, replied, event, goes_to>>
nngVars == <<context, arrived, owed>>
vars == <<backend, socket, service, worker, serving, queue, consumer, request,
          served_by, replied, event, goes_to, context, arrived, owed>>

SocketType == [own : BOOLEAN, open : BOOLEAN, ours : SUBSET Timeout, listens : BOOLEAN]
Lent == [own |-> FALSE, open |-> TRUE, ours |-> {}, listens |-> FALSE]
Owned == [Lent EXCEPT !.own = TRUE]

Init ==
  /\ backend \in {"asyncio", "trio"}
  /\ socket \in {Lent, Owned}
  /\ service = "new"
  /\ worker = [w \in Worker |-> "new"]
  /\ serving = [w \in Worker |-> Nothing]
  /\ queue = <<>>
  /\ consumer = [c \in Consumer |-> "iterating"]
  /\ request = [r \in Req |-> "sent"]
  /\ served_by = [r \in Req |-> Nothing]
  /\ replied = {} /\ event = {}
  /\ goes_to = [r \in Req |-> Nothing]
  /\ context = [w \in Worker |-> "none"]
  /\ arrived = [w \in Worker |-> Nothing]
  /\ owed = [w \in Worker |-> Nothing]

Move(r, place) == request' = [request EXCEPT ![r] = place]
Running == service \in {"running", "failed"}

------------------------------------------------------------------------------
(* The service.                                                            *)

(* The opening of __aenter__: a borrowed socket gets the timeouts and the  *)
(* listener that were asked for; any of the calls may raise.               *)
Prepared ==
  IF socket.own THEN socket
  ELSE [socket EXCEPT !.ours = Timeout, !.listens = Listens]

PartlyPrepared ==
  IF socket.own \/ ~socket.open THEN {socket}
  ELSE {Prepared} \cup {[socket EXCEPT !.ours = o] : o \in SUBSET Timeout}

(* Mutation: the timeouts are restored only if the service has a listener. *)
Released_WithListener(s) ==
  IF s.own THEN [s EXCEPT !.open = FALSE]
  ELSE IF s.open /\ s.listens
       THEN [s EXCEPT !.ours = {}, !.listens = FALSE]
       ELSE s

(* _release_socket.  On a socket that its owner has closed setting the     *)
(* timeouts raises Closed, and the listener is closed already.             *)
Released(s) ==
  IF s.own THEN [s EXCEPT !.open = FALSE]
  ELSE IF s.open
       THEN [s EXCEPT !.ours = {}, !.listens = FALSE]
       ELSE s

(* __aenter__, to the end of _start_asyncio or _start_trio: there is no    *)
(* await that waits.                                                       *)
Start ==
  /\ service = "new" /\ socket.open
  /\ service' = "running"
  /\ socket' = Prepared
  /\ context' = [w \in Worker |-> "open"]
  /\ worker' = [w \in Worker |-> "receiving"]
  /\ UNCHANGED <<backend, serving, queue, consumer, requestVars, arrived, owed>>

(* Mutation: the socket is not released when new_context raises.           *)
StartFailed_Kept(s) == s

StartFailed(s) == Released(s)

(* __aenter__ raises: a call on the borrowed socket does, or new_context   *)
(* when the workers of W have been started.  Nothing ends those workers    *)
(* but the closing of an owned socket.                                     *)
StartFails(W) ==
  /\ service = "new" /\ W # Worker
  /\ socket.open \/ W = {}
  /\ service' = "failed"
  /\ \E s \in IF W = {} THEN PartlyPrepared ELSE {Prepared} :
       socket' = StartFailed(s)
  /\ context' = [w \in Worker |->
                   CASE w \notin W -> "none"
                     [] w \in W /\ socket'.open -> "open"
                     [] OTHER -> "closed"]
  /\ worker' = [w \in Worker |-> IF w \in W THEN "receiving" ELSE "new"]
  /\ UNCHANGED <<backend, serving, queue, consumer, requestVars, arrived, owed>>

(* A worker's arecv returns and the queue takes the request at once.       *)
WorkerTakes(w) ==
  /\ worker[w] = "receiving" /\ arrived[w] # Nothing /\ Running
  /\ worker' = [worker EXCEPT ![w] = "waiting"]
  /\ serving' = [serving EXCEPT ![w] = arrived[w]]
  /\ served_by' = [served_by EXCEPT ![arrived[w]] = w]
  /\ queue' = Append(queue, arrived[w])
  /\ Move(arrived[w], "queued")
  /\ arrived' = [arrived EXCEPT ![w] = Nothing]
  /\ UNCHANGED <<backend, socket, service, consumer, replied, event, goes_to, context, owed>>

(* Mutation: the worker does not wait for the reply.                       *)
MayReceive_Always(w) == TRUE

(* replied_event.wait() returns.                                           *)
MayReceive(w) == serving[w] \in event

WorkerGoesOn(w) ==
  /\ worker[w] = "waiting" /\ Running
  /\ MayReceive(w)
  /\ worker' = [worker EXCEPT ![w] = "receiving"]
  /\ serving' = [serving EXCEPT ![w] = Nothing]
  /\ UNCHANGED <<backend, socket, service, queue, consumer, requestVars, nngVars>>

(* arecv raises Closed; a Timeout makes the worker receive again.          *)
WorkerFindsClosed(w) ==
  /\ worker[w] = "receiving" /\ context[w] = "closed" /\ arrived[w] = Nothing
  /\ worker' = [worker EXCEPT ![w] = "ended"]
  /\ UNCHANGED <<backend, socket, service, serving, queue, consumer, requestVars, nngVars>>

(* __aexit__, up to the first task it waits for.  Under trio it has closed *)
(* the send channel by then.                                               *)
Exit ==
  /\ service = "running"
  /\ service' = "joining"
  /\ context' = [w \in Worker |-> "closed"]
  /\ UNCHANGED <<backend, socket, worker, serving, queue, consumer, requestVars,
                 arrived, owed>>

(* Mutation: a worker is not cancelled, and ends only if its receive does. *)
WorkerCancelled_OnlyReceiving(w) ==
  /\ service = "joining" /\ worker[w] = "receiving"
  /\ worker' = [worker EXCEPT ![w] = "ended"]
  /\ UNCHANGED <<backend, socket, service, serving, queue, consumer, requestVars, context,
                 arrived, owed>>

(* The cancellation ends a worker wherever it waits; a request that its    *)
(* receive already holds is freed.  A worker of trio that runs before it   *)
(* is cancelled finds the channel closed, which comes to the same.         *)
WorkerCancelled(w) ==
  /\ service = "joining" /\ worker[w] \in {"receiving", "waiting"}
  /\ worker' = [worker EXCEPT ![w] = "ended"]
  /\ request' = [r \in Req |-> IF r = arrived[w] THEN "lost" ELSE request[r]]
  /\ arrived' = [arrived EXCEPT ![w] = Nothing]
  /\ UNCHANGED <<backend, socket, service, serving, queue, consumer, served_by, replied, event,
                 goes_to, context, owed>>

(* Mutation: None takes the place of the sentinel.                         *)
EndIteration_None ==
  IF backend = "asyncio" THEN queue' = Append(queue, Nothing) ELSE UNCHANGED queue

(* The sentinel; under trio the closed channel ends the iterations.        *)
EndIteration ==
  IF backend = "asyncio" THEN queue' = Append(queue, Sentinel) ELSE UNCHANGED queue

(* ... the rest of __aexit__; releasing the socket changes no context.     *)
Stop ==
  /\ service = "joining" /\ \A w \in Worker : worker[w] = "ended"
  /\ service' = "stopped"
  /\ socket' = Released(socket)
  /\ EndIteration
  /\ UNCHANGED <<backend, worker, serving, consumer, requestVars, nngVars>>

(* __anext__; nobody iterates over a service that did not start.           *)
Take(c) ==
  /\ consumer[c] = "iterating" /\ queue # <<>> /\ service # "failed"
  /\ queue' = Tail(queue)
  /\ IF Head(queue) = Sentinel
     THEN consumer' = [consumer EXCEPT ![c] = "ended"] /\ UNCHANGED request
     ELSE Move(Head(queue), "held") /\ UNCHANGED consumer
  /\ UNCHANGED <<backend, socket, service, worker, serving, served_by, replied,
                 event, goes_to, nngVars>>

(* EndOfChannel, once the closed channel is empty.                         *)
EndOfChannel(c) ==
  /\ backend = "trio" /\ service \in {"joining", "stopped"}
  /\ consumer[c] = "iterating" /\ queue = <<>>
  /\ consumer' = [consumer EXCEPT ![c] = "ended"]
  /\ UNCHANGED <<backend, socket, service, worker, serving, queue, requestVars,
                 nngVars>>

------------------------------------------------------------------------------
(* A Request in the user's hands.                                          *)

MayReply(r) ==
  /\ request[r] = "held" \/ (LateReply /\ request[r] = "left")
  /\ r \notin replied

(* reply: the context takes the reply.                                     *)
Reply(r) ==
  LET w == served_by[r] IN
  /\ MayReply(r)
  /\ context[w] = "open" /\ owed[w] # Nothing
  /\ replied' = replied \cup {r}
  /\ goes_to' = [goes_to EXCEPT ![r] = owed[w]]
  /\ owed' = [owed EXCEPT ![w] = Nothing]
  /\ Move(r, "replying")
  /\ UNCHANGED <<serviceVars, served_by, event, context, arrived>>

(* asend raises at once: the context is closed, or owes no reply.          *)
ReplyRefused(r) ==
  LET w == served_by[r] IN
  /\ MayReply(r)
  /\ context[w] = "closed" \/ owed[w] = Nothing
  /\ replied' = replied \cup {r}
  /\ event' = event \cup {r}
  /\ Move(r, "over")
  /\ UNCHANGED <<serviceVars, served_by, goes_to, nngVars>>

(* asend returns.                                                          *)
ReplySent(r) ==
  /\ request[r] = "replying"
  /\ event' = event \cup {r}
  /\ Move(r, "over")
  /\ UNCHANGED <<serviceVars, served_by, replied, goes_to, nngVars>>

(* Mutation: a reply that fails does not set the event.                    *)
Unblocks_OnSuccess(r) == UNCHANGED event

(* The finally block of reply.                                             *)
Unblocks(r) == event' = event \cup {r}

(* asend raises Timeout, Closed or CancelledError.                         *)
ReplyFails(r) ==
  /\ request[r] = "replying"
  /\ Unblocks(r)
  /\ Move(r, "over")
  /\ UNCHANGED <<serviceVars, served_by, replied, goes_to, nngVars>>

(* __exit__ without a reply.                                               *)
Leave(r) ==
  /\ request[r] = "held"
  /\ event' = event \cup {r}
  /\ Move(r, "left")
  /\ UNCHANGED <<serviceVars, served_by, replied, goes_to, nngVars>>

(* __del__ without a reply.                                                *)
Drop(r) ==
  /\ request[r] \in {"held", "left"}
  /\ event' = event \cup {r}
  /\ Move(r, "over")
  /\ UNCHANGED <<serviceVars, served_by, replied, goes_to, nngVars>>

------------------------------------------------------------------------------
(* nng and other users of the socket, external.                            *)

(* The requests are sent when they may be: when one is received is up to   *)
(* nng.                                                                    *)
NngReceives(w, r) ==
  /\ request[r] = "sent"
  /\ worker[w] = "receiving" /\ context[w] = "open" /\ arrived[w] = Nothing
  /\ Move(r, "arrived")
  /\ arrived' = [arrived EXCEPT ![w] = r]
  /\ owed' = [owed EXCEPT ![w] = r]
  /\ UNCHANGED <<serviceVars, served_by, replied, event, goes_to, context>>

(* Whoever lent the socket closes it; that is left out once the service    *)
(* has stopped, which uses the socket no more.                             *)
SocketClosed ==
  /\ ~socket.own /\ socket.open /\ service # "stopped"
  /\ socket' = [socket EXCEPT !.open = FALSE, !.listens = FALSE]
  /\ context' = [w \in Worker |-> IF context[w] = "open" THEN "closed"
                                                       ELSE context[w]]
  /\ UNCHANGED <<backend, service, worker, serving, queue, consumer,
                 requestVars, arrived, owed>>

------------------------------------------------------------------------------
(* The specification.                                                      *)

Settle(r) == Reply(r) \/ ReplyRefused(r) \/ Leave(r) \/ Drop(r)
ReplyEnds(r) == ReplySent(r) \/ ReplyFails(r)
Work(w) ==
  \/ WorkerTakes(w) \/ WorkerGoesOn(w)
  \/ WorkerFindsClosed(w) \/ WorkerCancelled(w)

Next ==
  \/ Start \/ Exit \/ Stop \/ SocketClosed
  \/ \E W \in SUBSET Worker : StartFails(W)
  \/ \E w \in Worker : Work(w) \/ \E r \in Req : NngReceives(w, r)
  \/ \E c \in Consumer : Take(c) \/ EndOfChannel(c)
  \/ \E r \in Req : Settle(r) \/ ReplyEnds(r)

Spec == Init /\ [][Next]_vars

(* Workers and iterations that can go on do, the user does something with  *)
(* a request, and nng delivers what was sent and ends a reply.  Each of    *)
(* them has finitely much to do, so it is enough that one of a kind goes   *)
(* on.  Nobody has to enter or leave the service, or send.                 *)
Fairness ==
  /\ WF_vars(Stop)
  /\ WF_vars(\E w \in Worker : Work(w))
  /\ WF_vars(\E c \in Consumer : Take(c) \/ EndOfChannel(c))
  /\ WF_vars(\E r \in Req : Settle(r) \/ ReplyEnds(r))
  /\ WF_vars(\E w \in Worker, r \in Req : NngReceives(w, r))

FairSpec == Spec /\ Fairness

------------------------------------------------------------------------------
(* Properties.                                                             *)

(* Every variable stays in its range, and a worker that waits has its      *)
(* request out with the user or in the queue.                              *)
TypeOK ==
  /\ backend \in {"asyncio", "trio"}
  /\ socket \in SocketType
  /\ service \in {"new", "running", "joining", "stopped", "failed"}
  /\ worker \in [Worker -> {"new", "receiving", "waiting", "ended"}]
  /\ serving \in [Worker -> Req \cup {Nothing}]
  /\ queue \in Seq(Req \cup {Sentinel})
  /\ consumer \in [Consumer -> {"iterating", "ended"}]
  /\ request \in [Req -> {"sent", "arrived", "queued", "held",
                          "left", "replying", "over", "lost"}]
  /\ served_by \in [Req -> Worker \cup {Nothing}]
  /\ replied \subseteq Req /\ event \subseteq Req
  /\ goes_to \in [Req -> Req \cup {Nothing}]
  /\ context \in [Worker -> {"none", "open", "closed"}]
  /\ arrived \in [Worker -> Req \cup {Nothing}]
  /\ owed \in [Worker -> Req \cup {Nothing}]
  /\ \A w \in Worker : worker[w] = "waiting" =>
       /\ serving[w] \in Req
       /\ request[serving[w]] \in {"queued", "held", "left", "replying", "over"}

(* "Send a response back to the requester": the reply to a request goes to *)
(* whoever sent it, though the context knows its last requester only.      *)
ReplyToRequester == \A r \in Req : goes_to[r] \in {r, Nothing}

(* A request that was sent is handed to the user while the service runs on *)
(* an open socket, whatever became of the requests before it: no failed,   *)
(* forgotten or abandoned reply keeps a worker for ever.                   *)
RequestServed ==
  \A r \in Req :
    (request[r] = "sent" /\ service = "running")
      ~> (\/ request[r] \in {"held", "left", "replying", "over"}
          \/ service # "running" \/ \E w \in Worker : context[w] = "closed")

(* Leaving the service ends its workers, also those whose request nobody   *)
(* answers, and the iterations that wait for requests.  asyncio's single   *)
(* sentinel ends only one of several, the closed channel of trio all.      *)
ExitEnds ==
  (service = "joining")
    ~> /\ service = "stopped"
       /\ \E c \in Consumer : consumer[c] = "ended"
       /\ backend = "trio" => \A c \in Consumer : consumer[c] = "ended"

(* "Close an owned socket, or undo what the service did to a borrowed      *)
(* one": whether it ran or failed to start at whatever call, a socket that *)
(* its owner has left open has its timeouts back and no listener of the    *)
(* service, and an owned one is closed.                                    *)
SocketLeftAsFound ==
  service \in {"stopped", "failed"} =>
    IF socket.own THEN ~socket.open
    ELSE socket.open => socket.ours = {} /\ ~socket.listens

(* A service that could not start on a socket of its own ends the workers  *)
(* it had started.  Those on a borrowed socket go on.                      *)
FailedStartEnds ==
  (service = "failed" /\ socket.own)
    ~> \A w \in Worker : worker[w] \in {"new", "ended"}
=============================================================================
