---------------------------- MODULE PipeEventStream ----------------------------
(***************************************************************************)
(* PipeEventStream (pynng/_base.py) on top of the dispatcher of            *)
(* PipeEvents: the stream registers a callback for each kind of event;     *)
(* the callbacks run on nng's threads and have the event loop put what     *)
(* they saw into a queue, from which tasks take it.  close, on the loop or *)
(* under asyncio on any thread, races the callbacks that are running and   *)
(* those the dispatcher has already decided to call.                       *)
(*                                                                         *)
(* The dispatcher copies its lists of callbacks under the lock when it     *)
(* starts on them; a callback of the stream tests _closed and then hands   *)
(* its event over, which are two steps.  The loop runs what was handed     *)
(* over in that order.                                                     *)
(***************************************************************************)
EXTENDS PipeEvents

CONSTANTS
  Consumer,   \* the tasks that iterate over the stream
  Sentinel    \* _SENTINEL

ASSUME SentinelAssumption == Sentinel \notin Pipe \X {"pre", "post", "remove"}

VARIABLES
  backend,     \* "asyncio" or "trio"
  stage,       \* "making", "open", "closing" or "closed"
  registered,  \* the kinds of events the stream has a callback for
  putting,     \* where the stream's callback on each thread is
  scheduled,   \* call_soon_threadsafe, run_sync_soon
  queue,       \* the asyncio.Queue, the buffer of trio's channel
  consumer,    \* where each task is
  stopped,     \* the tasks that took the sentinel
  got,         \* the kinds of events received for each pipe
  whole        \* the pipes first heard of when the stream was complete

streamVars == <<backend, stage, registered, putting, scheduled, queue,
                consumer, stopped, got, whole>>
allVars == <<vars, streamVars>>

Kinds == <<"pre", "post", "remove">>
Thread == {"connector", "reaper"} \X Pipe

_closed == stage \in {"closing", "closed"}

StreamInit ==
  /\ Init
  /\ backend \in {"asyncio", "trio"}
  /\ stage = "making" /\ registered = {}
  /\ putting = [t \in Thread |-> "nothing"]
  /\ scheduled = <<>> /\ queue = <<>>
  /\ consumer = [c \in Consumer |-> "idle"]
  /\ stopped = {}
  /\ got = [p \in Pipe |-> <<>>]
  /\ whole = {}

------------------------------------------------------------------------------
(* The dispatcher and its callbacks.                                       *)

Starts(t) == /\ t[1] \in running'[t[2]] \ running[t[2]]
             /\ called'[t[2]] # called[t[2]]
Ends(t) == t[1] \in running[t[2]] /\ t[1] \notin running'[t[2]]

(* Mutation: the callbacks are not waited for.                             *)
Dispatch_InBackground ==
  /\ Next
  /\ putting' = [t \in Thread |->
                   IF Starts(t) /\ Last(called'[t[2]]) \in registered
                   THEN "called" ELSE putting[t]]
  /\ UNCHANGED <<backend, stage, registered, scheduled, queue, consumer,
                 stopped, got, whole>>

(* A step of the dispatcher.  It calls the callbacks it found registered,  *)
(* and goes on when they have returned.                                    *)
Dispatch ==
  /\ Next
  /\ \A t \in Thread : Ends(t) => putting[t] = "nothing"
  /\ putting' = [t \in Thread |->
                   IF Starts(t) /\ Last(called'[t[2]]) \in registered
                   THEN "called" ELSE putting[t]]
  /\ UNCHANGED <<backend, stage, registered, scheduled, queue, consumer,
                 stopped, got, whole>>

(* _put_event: nothing is put into a closed stream.                        *)
TestClosed(t) ==
  /\ putting[t] = "called"
  /\ putting' = [putting EXCEPT ![t] = IF _closed THEN "nothing" ELSE "open"]
  /\ UNCHANGED <<vars, backend, stage, registered, scheduled, queue, consumer,
                 stopped, got, whole>>

(* It may have been closed since.  The last callback called for the pipe   *)
(* is the thread's own: the dispatcher calls no two at a time.             *)
HandOver(t) ==
  /\ putting[t] = "open"
  /\ putting' = [putting EXCEPT ![t] = "nothing"]
  /\ scheduled' = Append(scheduled,
                         <<t[2], IF t[1] = "reaper" THEN "remove"
                                 ELSE IF connector[t[2]] = "pre_callbacks"
                                 THEN "pre" ELSE "post">>)
  /\ UNCHANGED <<vars, backend, stage, registered, queue, consumer, stopped,
                 got, whole>>

------------------------------------------------------------------------------
(* Making and closing the stream.                                          *)

(* Socket.add_pre_pipe_connect_cb and the two like it, and their opposites.*)
AddCallback(kind) == registered' = registered \cup {kind}
RemoveCallback(kind) == registered' = registered \ {kind}

(* __init__: one list after the other, each under the lock.                *)
Register ==
  /\ stage = "making"
  /\ LET k == Kinds[Cardinality(registered) + 1] IN
     /\ AddCallback(k)
     /\ stage' = IF k = "remove" THEN "open" ELSE "making"
     /\ whole' = IF k = "remove" THEN {p \in Pipe : called[p] = <<>>} ELSE {}
  /\ UNCHANGED <<vars, backend, putting, scheduled, queue, consumer, stopped,
                 got>>

(* close: the flag, and after it the lists, one after the other.           *)
Close ==
  /\ stage = "open"
  /\ stage' = "closing"
  /\ UNCHANGED <<vars, backend, registered, putting, scheduled, queue,
                 consumer, stopped, got, whole>>

Unregister ==
  /\ stage = "closing" /\ registered # {}
  /\ RemoveCallback(Kinds[4 - Cardinality(registered)])
  /\ UNCHANGED <<vars, backend, stage, putting, scheduled, queue, consumer,
                 stopped, got, whole>>

(* Mutation: nobody tells the tasks that wait.                             *)
Signal_Nobody ==
  /\ stage = "closing" /\ registered = {}
  /\ stage' = "closed"
  /\ UNCHANGED <<vars, backend, registered, putting, scheduled, queue,
                 consumer, stopped, got, whole>>

(* Under asyncio the sentinel follows what was handed over so far; under   *)
(* trio the channel is closed and what was not sent yet is dropped.        *)
Signal ==
  /\ stage = "closing" /\ registered = {}
  /\ stage' = "closed"
  /\ scheduled' = IF backend = "asyncio" THEN Append(scheduled, Sentinel)
                  ELSE scheduled
  /\ UNCHANGED <<vars, backend, registered, putting, queue, consumer, stopped,
                 got, whole>>

------------------------------------------------------------------------------
(* The event loop.  Under trio the stream is made and closed on it.        *)

LoopFree == stage # "making" /\ (backend = "trio" => stage # "closing")

(* put_nowait, and _trio_send_nowait, which ignores a closed channel.      *)
RunScheduled ==
  /\ LoopFree
  /\ scheduled # <<>>
  /\ scheduled' = Tail(scheduled)
  /\ queue' = IF backend = "trio" /\ stage = "closed" THEN queue
              ELSE Append(queue, Head(scheduled))
  /\ UNCHANGED <<vars, backend, stage, registered, putting, consumer, stopped,
                 got, whole>>

(* __anext__ up to its await.                                              *)
AskNext(c) ==
  /\ LoopFree
  /\ consumer[c] = "idle"
  /\ consumer' = [consumer EXCEPT ![c] = IF _closed THEN "ended" ELSE "waiting"]
  /\ UNCHANGED <<vars, backend, stage, registered, putting, scheduled, queue,
                 stopped, got, whole>>

(* It has an event, or the sentinel.                                       *)
TakeEvent(c) ==
  /\ LoopFree
  /\ consumer[c] = "waiting" /\ queue # <<>>
  /\ queue' = Tail(queue)
  /\ LET e == Head(queue) IN
     IF e = Sentinel
     THEN /\ consumer' = [consumer EXCEPT ![c] = "ended"]
          /\ stopped' = stopped \cup {c}
          /\ UNCHANGED got
     ELSE /\ consumer' = [consumer EXCEPT ![c] = "idle"]
          /\ got' = [got EXCEPT ![e[1]] = Append(@, e[2])]
          /\ UNCHANGED stopped
  /\ UNCHANGED <<vars, backend, stage, registered, putting, scheduled, whole>>

(* trio.EndOfChannel.                                                      *)
ChannelEnded(c) ==
  /\ LoopFree
  /\ backend = "trio" /\ stage = "closed"
  /\ consumer[c] = "waiting" /\ queue = <<>>
  /\ consumer' = [consumer EXCEPT ![c] = "ended"]
  /\ UNCHANGED <<vars, backend, stage, registered, putting, scheduled, queue,
                 stopped, got, whole>>

------------------------------------------------------------------------------
(* The specification.                                                      *)

StreamNext ==
  \/ Dispatch
  \/ \E t \in Thread : TestClosed(t) \/ HandOver(t)
  \/ Register \/ Close \/ Unregister \/ Signal
  \/ RunScheduled
  \/ \E c \in Consumer : AskNext(c) \/ TakeEvent(c) \/ ChannelEnded(c)

StreamFinished ==
  /\ closer = "closed" /\ stage = "closed"
  /\ UNCHANGED allVars

StreamSpec == StreamInit /\ [][StreamNext \/ StreamFinished]_allVars

------------------------------------------------------------------------------
(* Properties.                                                             *)

Item == (Pipe \X Range(Kinds)) \cup {Sentinel}

(* Every variable stays in its range; a put is under way only on a thread  *)
(* that runs callbacks.                                                    *)
StreamTypeOK ==
  /\ TypeOK
  /\ backend \in {"asyncio", "trio"}
  /\ stage \in {"making", "open", "closing", "closed"}
  /\ registered \subseteq Range(Kinds)
  /\ putting \in [Thread -> {"nothing", "called", "open"}]
  /\ \A t \in Thread : putting[t] # "nothing" => t[1] \in running[t[2]]
  /\ scheduled \in Seq(Item) /\ queue \in Seq(Item)
  /\ consumer \in [Consumer -> {"idle", "waiting", "ended"}]
  /\ stopped \subseteq Consumer
  /\ got \in [Pipe -> Seq(Range(Kinds))]
  /\ whole \subseteq Pipe

(* What the tasks may still receive: trio drops what comes too late.       *)
Coming == IF backend = "trio" /\ stage = "closed" THEN queue
          ELSE queue \o scheduled

IsOf(e, p) == e # Sentinel /\ e[1] = p

(* How many of the first n elements of s are events of the pipe p.         *)
Ahead(s, p, n) == Cardinality({i \in 1..n : IsOf(s[i], p)})

HandedOver(p) == Len(got[p]) + Ahead(Coming, p, Len(Coming))

InHand(p) == {t \in Thread : t[2] = p /\ putting[t] # "nothing"}

(* "async for event in socket.pipe_events()" (pipe_events): for a pipe     *)
(* first heard of after the stream was made, the tasks receive what its    *)
(* callbacks were called for, in that order, with nothing left out and     *)
(* nothing twice, although connector and reaper hand events over on their  *)
(* own; once the stream is closed they receive a beginning of it.          *)
StreamFaithful ==
  \A p \in whole :
    /\ IsPrefix(got[p], called[p])
    /\ \A i \in DOMAIN Coming :
         IsOf(Coming[i], p) =>
           Coming[i][2] = called[p][Len(got[p]) + Ahead(Coming, p, i)]
    /\ HandedOver(p) <= Len(called[p])
    /\ ~_closed => Len(called[p]) = HandedOver(p) + Cardinality(InHand(p))

(* A stream that is closed ends its iterations: while a task waits, the    *)
(* sentinel is on its way behind what was handed over, or another task has *)
(* taken it.  There is one sentinel: of several tasks the others wait on.  *)
(* Under trio the end of the channel reaches all of them.                  *)
ClosedStreamEnds ==
  (stage = "closed" /\ \E c \in Consumer : consumer[c] = "waiting") =>
    \/ Contains(Coming, Sentinel)
    \/ stopped # {}
    \/ backend = "trio"
=============================================================================
