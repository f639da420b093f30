------------------------------- MODULE PipeEvents -------------------------------
(***************************************************************************)
(* The pipe event dispatcher of pynng/_base.py (_handle_pipe_event), with  *)
(* Pipe.close and Socket.close, which race it.                             *)
(*                                                                         *)
(* For each pipe nng has two threads: the connector (the thread of the     *)
(* dialer or listener) delivers ADD_PRE and then ADD_POST, the reaper      *)
(* delivers REM_POST once the pipe is shut, and the reaper can overtake    *)
(* the connector.  What a handler does under _pipe_notify_cond is one      *)
(* action; the callbacks run between two of them, without the lock.        *)
(*                                                                         *)
(* nng is external: a pipe may be shut at any time after its ADD_PRE is    *)
(* under way, ADD_POST is not sent for a pipe found shut, and closing the  *)
(* socket shuts every pipe and waits for the handlers.                     *)
(***************************************************************************)
EXTENDS Integers, FiniteSets, Sequences, SequencesExt

CONSTANTS
  Pipe,           \* pipe ids
  MaxRemoved,     \* Socket._MAX_REMOVED_PIPE_IDS, 1024 in the code
  MaxConnecting   \* threads of dialers and listeners

ASSUME PipeAssumption == IsFiniteSet(Pipe)
ASSUME RemovedAssumption == MaxRemoved \in Nat \ {0}
ASSUME ConnectingAssumption == MaxConnecting \in Nat \ {0}

VARIABLES
  \* the socket
  pipe_states,       \* the pipes with a _PipeState
  pipes,             \* Socket.pipes
  removed_pipe_ids,  \* in the order of insertion
  socket_closed,
  \* the _PipeState of each pipe
  added, rejected, removing,  \* the pipes whose flag is set
  running,                    \* threads running callbacks of each pipe
  \* threads
  connector,  \* where the connector of each pipe is
  reaper,     \* where the reaper of each pipe is
  closing,    \* who is inside Pipe.close: "nobody", "callback", "other"
  pipe_closed,  \* the pipes whose Pipe.closed is TRUE
  closer,     \* where Socket.close is
  caller,     \* the callback that waits inside Socket.close
  shut,       \* the pipes nng has closed
  called      \* the callbacks called for each pipe, in order

stateVars == <<pipe_states, pipes, removed_pipe_ids, added, rejected, removing,
               running>>
closeVars == <<socket_closed, closer, caller>>
vars == <<pipe_states, pipes, removed_pipe_ids, socket_closed, added, rejected,
          removing, running, connector, reaper, closing, pipe_closed, closer,
          caller, shut, called>>

Nobody == <<"nobody">>

Init ==
  /\ pipe_states = {} /\ pipes = {} /\ removed_pipe_ids = <<>>
  /\ socket_closed = FALSE
  /\ added = {} /\ rejected = {} /\ removing = {}
  /\ running = [p \in Pipe |-> {}]
  /\ connector = [p \in Pipe |-> "idle"]
  /\ reaper = [p \in Pipe |-> "idle"]
  /\ closing = [p \in Pipe |-> "nobody"]
  /\ pipe_closed = {}
  /\ closer = "open" /\ caller = Nobody
  /\ shut = {}
  /\ called = [p \in Pipe |-> <<>>]

------------------------------------------------------------------------------
(* The dispatcher's parts.                                                 *)

IsRemoved(p) == p \in Range(removed_pipe_ids)

(* _remember_removed_pipe_id: the oldest id is evicted.                    *)
Remember(p) ==
  LET ids == Append(removed_pipe_ids, p) IN
  removed_pipe_ids' = IF Len(ids) > MaxRemoved THEN Tail(ids) ELSE ids

(* A handler starts on the callbacks; it is in state.running meanwhile.    *)
StartCallbacks(p, thread, kinds) ==
  /\ running' = [running EXCEPT ![p] = @ \cup {thread}]
  /\ called' = [called EXCEPT ![p] = @ \o kinds]

(* Mutation: the reapers are not notified.                                 *)
StopCallbacks_Silent(p, thread) ==
  /\ running' = [running EXCEPT ![p] = @ \ {thread}]
  /\ reaper' = [reaper EXCEPT ![p] = IF thread = "reaper" THEN "done" ELSE @]

(* It has run them: state.running.remove and cond.notify_all, which wakes  *)
(* the waiting reapers of every pipe.                                      *)
StopCallbacks(p, thread) ==
  /\ running' = [running EXCEPT ![p] = @ \ {thread}]
  /\ reaper' = [q \in Pipe |->
                  IF q = p /\ thread = "reaper" THEN "done"
                  ELSE IF reaper[q] = "waiting" THEN "woken"
                  ELSE reaper[q]]

(* A callback returns when it is not inside Pipe.close or Socket.close.    *)
MayReturn(p, thread) ==
  /\ caller # <<thread, p>>
  /\ thread = "connector" => closing[p] # "callback"

------------------------------------------------------------------------------
(* The connector: NNG_PIPE_EV_ADD_PRE and NNG_PIPE_EV_ADD_POST.            *)

(* nng, external: a dialer or listener has a new pipe.                     *)
SendAddPre(p) ==
  /\ closer \in {"open", "called"}
  /\ connector[p] = "idle"
  /\ Cardinality({q \in Pipe : connector[q] \notin {"idle", "done"}})
       < MaxConnecting
  /\ connector' = [connector EXCEPT ![p] = "add_pre"]
  /\ UNCHANGED <<stateVars, closeVars, reaper, closing, pipe_closed, shut,
                 called>>

(* A _PipeState: the one the pipe has, or a new one.  Those that have the  *)
(* other two flags do not come here.                                       *)
StateOf(p, isAdded) ==
  /\ pipe_states' = pipe_states \cup {p}
  /\ added' = IF isAdded THEN added \cup {p} ELSE added \ {p}
  /\ rejected' = rejected \ {p}
  /\ removing' = removing \ {p}

AddPre(p) ==
  /\ connector[p] = "add_pre"
  /\ ~IsRemoved(p)
  /\ p \notin pipe_states
  /\ StateOf(p, FALSE)
  /\ pipes' = pipes \cup {p}
  /\ StartCallbacks(p, "connector", <<"pre">>)
  /\ connector' = [connector EXCEPT ![p] = "pre_callbacks"]
  /\ UNCHANGED <<removed_pipe_ids, closeVars, reaper, closing, pipe_closed,
                 shut>>

AddPreDropped(p) ==
  /\ connector[p] = "add_pre"
  /\ IsRemoved(p) \/ p \in pipe_states
  /\ connector' = [connector EXCEPT ![p] = "between"]
  /\ UNCHANGED <<stateVars, closeVars, reaper, closing, pipe_closed, shut,
                 called>>

(* Mutation: a pipe that its callback closed is not rejected.              *)
Rejects_Never(p) == FALSE

(* The finally block rejects a pipe closed during its pre-connect          *)
(* callbacks.                                                              *)
Rejects(p) == p \in pipe_states /\ p \notin added /\ p \in pipe_closed

AddPreDone(p) ==
  /\ connector[p] = "pre_callbacks"
  /\ MayReturn(p, "connector")
  /\ StopCallbacks(p, "connector")
  /\ connector' = [connector EXCEPT ![p] = "between"]
  /\ rejected' = IF Rejects(p) THEN rejected \cup {p} ELSE rejected
  /\ pipes' = IF Rejects(p) THEN pipes \ {p} ELSE pipes
  /\ UNCHANGED <<pipe_states, removed_pipe_ids, added, removing, closeVars,
                 closing, pipe_closed, shut, called>>

(* nng, external: a pipe found shut is given up, any other is connected.   *)
SendAddPost(p) ==
  /\ connector[p] = "between"
  /\ connector' = [connector EXCEPT ![p] = IF p \in shut THEN "done"
                                           ELSE "add_post"]
  /\ UNCHANGED <<stateVars, closeVars, reaper, closing, pipe_closed, shut,
                 called>>

(* Mutation: ADD_POST does not look at the ids already removed.            *)
DropsAddPost_StateOnly(p) ==
  p \in pipe_states /\ p \in removing \cup added \cup rejected

DropsAddPost(p) ==
  \/ IsRemoved(p)
  \/ p \in pipe_states /\ p \in removing \cup added \cup rejected

AddPost(p) ==
  /\ connector[p] = "add_post"
  /\ ~DropsAddPost(p)
  /\ StateOf(p, TRUE)
  /\ pipes' = pipes \cup {p}
  /\ StartCallbacks(p, "connector", <<"post">>)
  /\ connector' = [connector EXCEPT ![p] = "post_callbacks"]
  /\ UNCHANGED <<removed_pipe_ids, closeVars, reaper, closing, pipe_closed,
                 shut>>

AddPostDropped(p) ==
  /\ connector[p] = "add_post"
  /\ DropsAddPost(p)
  /\ connector' = [connector EXCEPT ![p] = "done"]
  /\ UNCHANGED <<stateVars, closeVars, reaper, closing, pipe_closed, shut,
                 called>>

AddPostDone(p) ==
  /\ connector[p] = "post_callbacks"
  /\ MayReturn(p, "connector")
  /\ StopCallbacks(p, "connector")
  /\ connector' = [connector EXCEPT ![p] = "done"]
  /\ UNCHANGED <<pipe_states, pipes, removed_pipe_ids, added, rejected,
                 removing, closeVars, closing, pipe_closed, shut, called>>

------------------------------------------------------------------------------
(* The reaper: NNG_PIPE_EV_REM_POST.  nng sends it once, so the returns    *)
(* for a pipe that is already being removed are never taken.               *)

(* Mutation: the remove callbacks do not wait for the connect callbacks.   *)
MustWait_Never(p) == FALSE

MustWait(p) == running[p] \ {"reaper"} # {}

(* "while any(t != me for t in state.running): cond.wait()", and on.       *)
WaitOrRemove(p) ==
  \/ /\ MustWait(p)
     /\ reaper' = [reaper EXCEPT ![p] = "waiting"]
     /\ UNCHANGED <<running, called>>
  \/ /\ ~MustWait(p)
     /\ reaper' = [reaper EXCEPT ![p] = "callbacks"]
     /\ StartCallbacks(p, "reaper",
                       IF p \in rejected THEN <<>> ELSE <<"remove">>)

RemPost(p) ==
  /\ reaper[p] = "idle" /\ p \in shut
  /\ ~IsRemoved(p) /\ p \in pipe_states \ removing
  /\ removing' = removing \cup {p}
  /\ IF p \in added THEN UNCHANGED removed_pipe_ids ELSE Remember(p)
  /\ WaitOrRemove(p)
  /\ UNCHANGED <<pipe_states, pipes, added, rejected, closeVars, connector,
                 closing, pipe_closed, shut>>

RemPostWoken(p) ==
  /\ reaper[p] = "woken"
  /\ WaitOrRemove(p)
  /\ UNCHANGED <<pipe_states, pipes, removed_pipe_ids, added, rejected,
                 removing, closeVars, connector, closing, pipe_closed, shut>>

(* REM_POST overtook ADD_PRE.                                              *)
RemPostUnseen(p) ==
  /\ reaper[p] = "idle" /\ p \in shut
  /\ ~IsRemoved(p) /\ p \notin pipe_states
  /\ Remember(p)
  /\ reaper' = [reaper EXCEPT ![p] = "done"]
  /\ UNCHANGED <<pipe_states, pipes, added, rejected, removing, running,
                 closeVars, connector, closing, pipe_closed, shut, called>>

RemPostDone(p) ==
  /\ reaper[p] = "callbacks"
  /\ MayReturn(p, "reaper")
  /\ StopCallbacks(p, "reaper")
  /\ pipe_states' = pipe_states \ {p}
  /\ pipes' = pipes \ {p}
  /\ UNCHANGED <<removed_pipe_ids, added, rejected, removing, closeVars,
                 connector, closing, pipe_closed, shut, called>>

------------------------------------------------------------------------------
(* Pipe.close and nng's own closing of a pipe.                             *)

(* nng, external: the peer is gone, or nng gives the pipe up.              *)
PipeLost(p) ==
  /\ connector[p] # "idle" /\ p \notin shut
  /\ shut' = shut \cup {p}
  /\ UNCHANGED <<stateVars, closeVars, connector, reaper, closing,
                 pipe_closed, called>>

(* nng_pipe_close, by the pre-connect callback or by anybody who has the   *)
(* Pipe.  For a pipe already shut it may also raise, which changes nothing.*)
PipeClose(p) ==
  /\ closing[p] = "nobody" /\ p \notin pipe_closed
  /\ \E who \in {"callback", "other"} :
       /\ who = "callback" => connector[p] = "pre_callbacks"
       /\ who = "other" => p \in pipes
       /\ closing' = [closing EXCEPT ![p] = who]
  /\ shut' = shut \cup {p}
  /\ UNCHANGED <<stateVars, closeVars, connector, reaper, pipe_closed, called>>

(* self._closed = True, once nng_pipe_close has returned.                  *)
PipeClosed(p) ==
  /\ closing[p] # "nobody"
  /\ closing' = [closing EXCEPT ![p] = "nobody"]
  /\ pipe_closed' = pipe_closed \cup {p}
  /\ UNCHANGED <<stateVars, closeVars, connector, reaper, shut, called>>

------------------------------------------------------------------------------
(* Socket.close: _do_close and _finish_close.                              *)

(* The threads that are in a pipe callback, where user code can call close.*)
InCallback ==
  {<<"connector", p>> : p \in {q \in Pipe : connector[q] \in
                                 {"pre_callbacks", "post_callbacks"}}}
    \cup {<<"reaper", p>> : p \in {q \in Pipe : reaper[q] = "callbacks"
                                                /\ q \notin rejected}}

(* Mutation: close always waits for nng.                                   *)
FinishesElsewhere_Never(t) == FALSE

(* _in_pipe_callback(): another thread finishes the close.                 *)
FinishesElsewhere(t) == t \in InCallback

SocketClose(t) ==
  /\ ~socket_closed
  /\ t \in InCallback \cup {Nobody}
  /\ socket_closed' = TRUE
  /\ closer' = "called"
  /\ caller' = IF FinishesElsewhere(t) THEN Nobody ELSE t
  /\ UNCHANGED <<stateVars, connector, reaper, closing, pipe_closed, shut,
                 called>>

(* close_fn, external: every pipe is shut and no new one comes.            *)
CloseFnStart ==
  /\ closer = "called"
  /\ closer' = "closing"
  /\ shut' = {p \in Pipe : connector[p] # "idle"}
  /\ UNCHANGED <<stateVars, socket_closed, caller, connector, reaper, closing,
                 pipe_closed, called>>

(* It returns when no handler of the socket's pipes is left.               *)
CloseFnReturn ==
  /\ closer = "closing"
  /\ \A p \in Pipe : \/ connector[p] = "idle"
                     \/ connector[p] = "done" /\ reaper[p] = "done"
  /\ closer' = "closed"
  /\ caller' = Nobody
  /\ UNCHANGED <<stateVars, socket_closed, connector, reaper, closing,
                 pipe_closed, shut, called>>

------------------------------------------------------------------------------
(* The specification.                                                      *)

Connector(p) ==
  \/ AddPre(p) \/ AddPreDropped(p) \/ AddPreDone(p)
  \/ SendAddPost(p) \/ AddPost(p) \/ AddPostDropped(p) \/ AddPostDone(p)

Reaper(p) == RemPost(p) \/ RemPostWoken(p) \/ RemPostUnseen(p) \/ RemPostDone(p)

Next ==
  \/ \E p \in Pipe : \/ SendAddPre(p) \/ Connector(p) \/ Reaper(p)
                     \/ PipeLost(p) \/ PipeClose(p) \/ PipeClosed(p)
                     \/ SocketClose(<<"connector", p>>)
                     \/ SocketClose(<<"reaper", p>>)
  \/ SocketClose(Nobody)
  \/ CloseFnStart
  \/ CloseFnReturn

(* The socket is closed and no handler is left.                            *)
Finished ==
  /\ closer = "closed"
  /\ UNCHANGED vars

Spec == Init /\ [][Next \/ Finished]_vars

(* Threads go on, callbacks return, and so does a close that nothing       *)
(* blocks.  Nobody has to connect, to close a pipe or to close the socket. *)
Fairness ==
  /\ \A p \in Pipe : /\ WF_vars(Connector(p))
                     /\ WF_vars(Reaper(p))
                     /\ WF_vars(PipeClosed(p))
  /\ WF_vars(CloseFnStart)
  /\ WF_vars(CloseFnReturn)

FairSpec == Spec /\ Fairness

------------------------------------------------------------------------------
(* Properties.                                                             *)

(* Every variable stays in its range; the memory of removed ids stays      *)
(* within its bound.                                                       *)
TypeOK ==
  /\ pipe_states \subseteq Pipe
  /\ pipes \subseteq Pipe
  /\ removed_pipe_ids \in Seq(Pipe) /\ Len(removed_pipe_ids) <= MaxRemoved
  /\ socket_closed \in BOOLEAN
  /\ added \subseteq Pipe /\ rejected \subseteq Pipe /\ removing \subseteq Pipe
  /\ running \in [Pipe -> SUBSET {"connector", "reaper"}]
  /\ connector \in [Pipe -> {"idle", "add_pre", "pre_callbacks", "between",
                             "add_post", "post_callbacks", "done"}]
  /\ reaper \in [Pipe -> {"idle", "waiting", "woken", "callbacks", "done"}]
  /\ closing \in [Pipe -> {"nobody", "callback", "other"}]
  /\ pipe_closed \subseteq Pipe
  /\ closer \in {"open", "called", "closing", "closed"}
  /\ caller \in ({"connector", "reaper"} \X Pipe) \cup {Nobody}
  /\ shut \subseteq Pipe
  /\ called \in [Pipe -> Seq({"pre", "post", "remove"})]

(* "If the pipe is closed, the callbacks for post_pipe_connect and         *)
(* post_pipe_remove will not be called" (add_pre_pipe_connect_cb): once a  *)
(* pre-connect callback has closed its pipe, no other callback is called   *)
(* for it, however early REM_POST comes.                                   *)
RejectedIsSilent ==
  \A p \in Pipe :
    [](connector[p] = "pre_callbacks" /\ p \in pipe_closed
         => [](called[p] = <<"pre">>))

(* A pipe that nng has closed leaves Socket.pipes for ever, and its        *)
(* dispatcher state is dropped: an ADD event that REM_POST overtook does   *)
(* not bring it back.                                                      *)
PipeForgotten ==
  \A p \in Pipe : (p \in shut) ~> [](p \notin pipes \cup pipe_states)

(* Whoever was told of a new pipe is told of its removal, unless the pipe  *)
(* was rejected.                                                           *)
RemoveFollowsConnect ==
  \A p \in Pipe : (called[p] # <<>> /\ p \in shut)
                    ~> (Contains(called[p], "remove") \/ p \in rejected)

(* Socket.close returns, whichever thread calls it and whichever callbacks *)
(* are running: nng waits for the callbacks, so a close made in one of     *)
(* them must not wait for nng.                                             *)
CloseReturns == socket_closed ~> (closer = "closed")

(* The dispatcher keeps the promises of PipeCallbacks.                     *)
Running(p) ==
  CASE connector[p] = "pre_callbacks" -> "pre"
    [] connector[p] = "post_callbacks" -> "post"
    [] reaper[p] = "callbacks" /\ p \notin rejected -> "remove"
    [] OTHER -> "none"

Callbacks == INSTANCE PipeCallbacks WITH
               calls <- called,
               running <- [p \in Pipe |-> Running(p)],
               listed <- pipes

RefinesCallbacks == Callbacks!Spec
=============================================================================
