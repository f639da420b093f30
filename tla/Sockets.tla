-------------------------------- MODULE Sockets --------------------------------
(***************************************************************************)
(* Sockets and their dialers and listeners (pynng/_base.py, pynng/nng.py,  *)
(* pynng/v2/nng.py), with the TLSConfig they may use and the subscriptions *)
(* of one of them, a Sub0: threads make, dial, listen, start, close and    *)
(* finalize them at the same time.  dial and listen differ in names and in *)
(* the retry of dial(block=None) only, so both make an endpoint here.      *)
(*                                                                         *)
(* nng is external: it refuses a call for reasons of its own, gives the id *)
(* of a closed socket to the next one, and closes the endpoints of a       *)
(* socket with it.                                                         *)
(***************************************************************************)
EXTENDS TLSConfig

CONSTANTS
  Topic,
  Sock,        \* Socket objects that are ever made
  Subscriber,  \* the one that is a Sub0
  Endpoint,    \* endpoints that nng ever makes
  Id,          \* socket ids of nng
  Nobody,
  MaxCalls     \* calls that are ever made, a bound; the calls of an endpoint
               \* are not counted

ASSUME ThreadAssumption == "free" \notin Thread
ASSUME TopicAssumption == "none" \notin Topic
ASSUME SockAssumption == Subscriber \in Sock /\ Nobody \notin Sock \cup Id \cup Endpoint
ASSUME MaxCallsAssumption == MaxCalls \in Nat

VARIABLES
  subscribed, subscriptions, sub_step, sub_all, sub_lock, sub_crossed,
  version,    \* the nng library of the sockets
  sock,       \* "unmade", "making", "open", "closing" or "closed"
  sock_id,    \* nng_socket_id
  sock_tls,   \* the sockets with a tls_config
  finalized,  \* the sockets nobody refers to any more
  nng_open,   \* the sockets nng has, by id
  handles,    \* _active_handles
  endpoint,   \* "none", "created", "started" or "closed" in nng
  of_socket,  \* the socket of each endpoint
  ep_tls,     \* the endpoints that were given the TLSConfig
  listed,     \* Socket._dialers and Socket._listeners
  at,         \* what each thread is doing
  calls       \* the calls made so far

INSTANCE Subscriptions

subsVars == <<subscribed, subscriptions, sub_step, sub_all, sub_lock, sub_crossed>>
sockVars == <<sock, sock_id, sock_tls, finalized, nng_open, handles>>
endpointVars == <<endpoint, of_socket, ep_tls, listed>>
vars == <<tlsVars, subsVars, version, sockVars, endpointVars, at, calls>>

(* What a call has to remember: its socket and endpoint, and for dial and  *)
(* listen whether the constructor makes it, its TLSConfig and arguments.   *)
Idle == [step |-> "idle", s |-> Nobody, e |-> Nobody, tls |-> "none",
         start |-> "now", block |-> "auto", new |-> FALSE, dials |-> 0,
         found |-> FALSE]
Call(step, s) == [Idle EXCEPT !.step = step, !.s = s]

SocketsInit ==
  /\ TlsInit /\ SubInit
  /\ version \in tls_libs
  /\ sock = [s \in Sock |-> "unmade"]
  /\ sock_id = [s \in Sock |-> Nobody]
  /\ sock_tls = {} /\ finalized = {}
  /\ nng_open = {}
  /\ handles = [i \in Id |-> Nobody]
  /\ endpoint = [e \in Endpoint |-> "none"]
  /\ of_socket = [e \in Endpoint |-> Nobody]
  /\ ep_tls = {}
  /\ listed = [s \in Sock |-> {}]
  /\ at = [t \in Thread |-> Idle]
  /\ calls = 0

At(t, step) == at[t].step = step
Goes(t, step) == at' = [at EXCEPT ![t].step = step]
Returns(t) == at' = [at EXCEPT ![t] = Idle]

(* A thread makes one call at a time.                                      *)
Ready(t) == at[t] = Idle /\ TlsIdle(t) /\ IsSubIdle(t)
MayCall(t) == Ready(t) /\ calls < MaxCalls
Calls(t, call) == MayCall(t) /\ at' = [at EXCEPT ![t] = call] /\ calls' = calls + 1

NngHas(s) == sock_id[s] \in nng_open /\ sock[s] \in {"making", "open", "closing"}
Known(s) == sock[s] \notin {"unmade", "making"} /\ s \notin finalized

------------------------------------------------------------------------------
(* Making a socket.  Until __init__ returns no other thread has it; when   *)
(* it raises the object is finalized, which closes it.                     *)

NewSocket(t) ==
  \E s \in Sock, tls \in {"none", "default"}, dials \in {0, 1, 2} :
    /\ sock[s] = "unmade"
    /\ tls = "default" => tls_object = "live"
    /\ Calls(t, [Call("open", s) EXCEPT !.tls = tls, !.new = TRUE, !.dials = dials])
    /\ sock' = [sock EXCEPT ![s] = "making"]
    /\ UNCHANGED <<tlsVars, subsVars, version, sock_id, sock_tls, finalized,
                   nng_open, handles, endpointVars>>

(* The socket of a failed __init__ is finalized: _do_close.                *)
Dropped(t) ==
  /\ Goes(t, "lookup")
  /\ finalized' = finalized \cup {at[t].s}
  /\ sock' = [sock EXCEPT ![at[t].s] = "closing"]

(* The opener, which may fail, and the options, which may be refused.      *)
Open(t) ==
  /\ At(t, "open")
  /\ \/ /\ \E i \in Id \ nng_open :
             /\ nng_open' = nng_open \cup {i}
             /\ sock_id' = [sock_id EXCEPT ![at[t].s] = i]
        /\ \/ Goes(t, "register") /\ UNCHANGED <<sock, finalized>>
           \/ Dropped(t)
     \/ /\ Dropped(t)
        /\ UNCHANGED <<nng_open, sock_id>>
  /\ UNCHANGED <<tlsVars, subsVars, version, sock_tls, handles, endpointVars, calls>>

(* _setup_pipe_callbacks, and _configure_protocol_options, in which a Sub0 *)
(* subscribes to its topics; nng_pipe_notify and nng's subscribe may fail. *)
Register(t) ==
  /\ At(t, "register")
  /\ LET s == at[t].s IN
     /\ handles' = [handles EXCEPT ![sock_id[s]] = s]
     /\ \/ Goes(t, "configure") /\ UNCHANGED <<sock, finalized>>
        \/ Dropped(t)
     /\ IF s = Subscriber THEN \E topics \in SUBSET Topic : InitTopics(topics)
        ELSE UNCHANGED subsVars
  /\ UNCHANGED <<tlsVars, version, sock_id, sock_tls, nng_open, endpointVars, calls>>

(* The tls_config: an option of the socket under v1, which may be refused, *)
(* and kept for the endpoints under v2; then listen and dial.              *)
Configure(t) ==
  /\ At(t, "configure")
  /\ LET s == at[t].s
         refused == version = "v1" /\ at[t].tls = "default"
     IN
     \/ /\ refused /\ Dropped(t)
        /\ UNCHANGED sock_tls
     \/ /\ refused => ConfigFor(version)
        /\ sock_tls' = IF at[t].tls = "default" THEN sock_tls \cup {s} ELSE sock_tls
        /\ IF at[t].dials > 0
           THEN Goes(t, "endpoint") /\ UNCHANGED sock
           ELSE Returns(t) /\ sock' = [sock EXCEPT ![s] = "open"]
        /\ UNCHANGED finalized
  /\ UNCHANGED <<tlsVars, subsVars, version, sock_id, nng_open, handles,
                 endpointVars, calls>>

------------------------------------------------------------------------------
(* dial and listen.                                                        *)

(* v2 alone has a TLSConfig for one endpoint and start=False.              *)
Dial(t) ==
  \E s \in Sock, tls \in {"default", "explicit"}, start \in {"now", "later"},
     block \in {"auto", "no"} :
    /\ Known(s)
    /\ tls = "explicit" \/ start = "later" => version = "v2"
    /\ tls = "explicit" => tls_object = "live"
    /\ Calls(t, [Call("endpoint", s) EXCEPT !.tls = tls, !.start = start,
                                            !.block = block])
    /\ UNCHANGED <<tlsVars, subsVars, version, sockVars, endpointVars>>

(* _endpoint_tls: the TLSConfig given, or the one of the socket.           *)
HasTls(t) == at[t].tls = "explicit" \/ (version = "v2" /\ at[t].s \in sock_tls)

(* The call raises.                                                        *)
Raises(t) ==
  IF at[t].new THEN Dropped(t) ELSE Returns(t) /\ UNCHANGED <<sock, finalized>>

(* nng makes an endpoint, or the call for it raises.                       *)
NngMakes(t, state, next) ==
  /\ At(t, "endpoint")
  /\ \/ /\ NngHas(at[t].s)
        /\ \E e \in {f \in Endpoint : endpoint[f] = "none"} :
             /\ endpoint' = [endpoint EXCEPT ![e] = state]
             /\ of_socket' = [of_socket EXCEPT ![e] = at[t].s]
             /\ at' = [at EXCEPT ![t].e = e, ![t].step = next]
        /\ UNCHANGED <<sock, finalized>>
     \/ /\ Raises(t)
        /\ UNCHANGED <<endpoint, of_socket>>
  /\ UNCHANGED <<tlsVars, subsVars, version, sock_id, sock_tls, nng_open,
                 handles, ep_tls, listed, calls>>

(* nng_dialer_create, for an endpoint that is configured or started later. *)
CreateEndpoint(t) ==
  /\ HasTls(t) \/ at[t].start = "later"
  /\ NngMakes(t, "created", IF HasTls(t) THEN "set_tls" ELSE "start_or_not")

(* nng_dial and nng_listen, which start it: the only way of v1.            *)
DialAtOnce(t) ==
  /\ ~HasTls(t) /\ at[t].start = "now"
  /\ NngMakes(t, "started", "list")

(* Mutation: the endpoint that could not be configured or started is left. *)
GivesUp_Leaves(t) == Raises(t) /\ UNCHANGED endpoint

(* "except BaseException: nng_dialer_close; raise".                        *)
GivesUp(t) ==
  /\ Raises(t)
  /\ endpoint' = [endpoint EXCEPT ![at[t].e] = "closed"]

(* _set_endpoint_tls: a transport without TLS ignores the socket's         *)
(* TLSConfig and refuses an explicit one.                                  *)
SetTls(t) ==
  /\ At(t, "set_tls")
  /\ LET e == at[t].e IN
     \/ /\ ConfigFor(version) /\ endpoint[e] = "created"
        /\ \/ ep_tls' = ep_tls \cup {e}
           \/ at[t].tls = "default" /\ UNCHANGED ep_tls
        /\ Goes(t, "start_or_not")
        /\ UNCHANGED <<sock, finalized, endpoint>>
     \/ GivesUp(t) /\ UNCHANGED ep_tls
  /\ UNCHANGED <<tlsVars, subsVars, version, sock_id, sock_tls, nng_open,
                 handles, of_socket, listed, calls>>

(* nng_dialer_start; only one that waits for its peer is refused.  After   *)
(* ConnectionRefused dial(block=None) makes another that does not wait.    *)
StartOrNot(t) ==
  /\ At(t, "start_or_not")
  /\ LET e == at[t].e IN
     \/ /\ at[t].start = "now" /\ endpoint[e] = "created"
        /\ endpoint' = [endpoint EXCEPT ![e] = "started"]
        /\ Goes(t, "list") /\ UNCHANGED <<sock, finalized>>
     \/ /\ at[t].start = "later"
        /\ Goes(t, "list") /\ UNCHANGED <<sock, finalized, endpoint>>
     \/ /\ at[t].start = "now" /\ at[t].block = "auto"
        /\ endpoint' = [endpoint EXCEPT ![e] = "closed"]
        /\ at' = [at EXCEPT ![t].step = "endpoint", ![t].block = "no", ![t].e = Nobody]
        /\ UNCHANGED <<sock, finalized>>
     \/ at[t].start = "now" /\ GivesUp(t)
  /\ UNCHANGED <<tlsVars, subsVars, version, sock_id, sock_tls, nng_open,
                 handles, of_socket, ep_tls, listed, calls>>

(* The Python object, which until now nobody could find.  A constructor    *)
(* that listened may have to dial as well.                                 *)
List(t) ==
  /\ At(t, "list")
  /\ LET s == at[t].s IN
     /\ listed' = [listed EXCEPT ![s] = @ \cup {at[t].e}]
     /\ IF at[t].dials > 1
        THEN /\ at' = [at EXCEPT ![t].step = "endpoint", ![t].block = "auto",
                                 ![t].e = Nobody, ![t].dials = 1]
             /\ UNCHANGED sock
        ELSE /\ Returns(t)
             /\ sock' = IF at[t].new THEN [sock EXCEPT ![s] = "open"] ELSE sock
  /\ UNCHANGED <<tlsVars, subsVars, version, sock_id, sock_tls, finalized,
                 nng_open, handles, endpoint, of_socket, ep_tls, calls>>

------------------------------------------------------------------------------
(* Dialer and Listener.                                                    *)

(* The calls of an endpoint are not counted: each changes it once at most, *)
(* and a refusal changes nothing.                                          *)

(* start, of v2.                                                           *)
StartEndpoint(t) ==
  /\ Ready(t)
  /\ \E s \in Sock : \E e \in listed[s] :
       /\ endpoint[e] = "created"
       /\ endpoint' = [endpoint EXCEPT ![e] = "started"]
  /\ UNCHANGED <<tlsVars, subsVars, version, sockVars, of_socket, ep_tls, listed,
                 at, calls>>

(* The tls_config setter of an endpoint, of v2.                            *)
SetEndpointTls(t) ==
  /\ Ready(t)
  /\ tls_object = "live" /\ ConfigFor(version)
  /\ \E s \in Sock : \E e \in listed[s] :
       /\ endpoint[e] = "created"
       /\ ep_tls' = ep_tls \cup {e}
  /\ UNCHANGED <<tlsVars, subsVars, version, sockVars, endpoint, of_socket, listed,
                 at, calls>>

(* The tls_config setter of a socket: what v2 keeps is for endpoints still *)
(* to be made, and may be taken back; v1 sets an option of nng.            *)
SetSocketTls(t) ==
  /\ MayCall(t) /\ calls' = calls + 1
  /\ \E s \in Sock :
       /\ Known(s)
       /\ \/ /\ tls_object = "live"
             /\ version = "v1" => NngHas(s) /\ ConfigFor(version)
             /\ sock_tls' = sock_tls \cup {s}
          \/ /\ version = "v2"
             /\ sock_tls' = sock_tls \ {s}
  /\ UNCHANGED <<tlsVars, subsVars, version, sock, sock_id, finalized, nng_open,
                 handles, endpointVars, at>>

(* close: nng_dialer_close, and the entry.                                 *)
CloseEndpoint(t) ==
  \E s \in Sock : \E e \in listed[s] :
    /\ Known(s)
    /\ Calls(t, [Call("unlist", s) EXCEPT !.e = e])
    /\ endpoint' = [endpoint EXCEPT ![e] = "closed"]
    /\ UNCHANGED <<tlsVars, subsVars, version, sockVars, of_socket, ep_tls, listed>>

Unlist(t) ==
  /\ At(t, "unlist")
  /\ listed' = [listed EXCEPT ![at[t].s] = @ \ {at[t].e}]
  /\ Returns(t)
  /\ UNCHANGED <<tlsVars, subsVars, version, sockVars, endpoint, of_socket,
                 ep_tls, calls>>

------------------------------------------------------------------------------
(* Socket.close and __del__: _do_close and _finish_close.                  *)

InUse(s) == \E t \in Thread : at[t].s = s
SubInUse == \E t \in Thread : ~IsSubIdle(t)

(* The flag under _close_lock lets one call through.  __del__ comes when   *)
(* no other thread uses the socket.                                        *)
CloseSocket(t) ==
  \E s \in Sock, final \in BOOLEAN :
    /\ sock[s] = "open" /\ s \notin finalized
    /\ final => ~InUse(s) /\ (s = Subscriber => ~SubInUse)
    /\ Calls(t, Call("lookup", s))
    /\ sock' = [sock EXCEPT ![s] = "closing"]
    /\ finalized' = IF final THEN finalized \cup {s} ELSE finalized
    /\ UNCHANGED <<tlsVars, subsVars, version, sock_id, sock_tls, nng_open,
                   handles, endpointVars>>

(* Mutation: the socket is closed before it is deregistered.               *)
After_CloseFnFirst(step) ==
  CASE step = "lookup" -> "close_fn"
    [] step = "close_fn" -> "pop"
    [] step = "pop" -> "clear"

(* The order of _finish_close.                                             *)
After(step) ==
  CASE step = "lookup" -> "pop"
    [] step = "pop" -> "close_fn"
    [] step = "close_fn" -> "clear"

(* _active_handles.get: the entry is the socket's own, or of a socket that *)
(* is finalized.                                                           *)
LookUp(t) ==
  /\ At(t, "lookup")
  /\ LET s == at[t].s
         h == IF sock_id[s] = Nobody THEN Nobody ELSE handles[sock_id[s]]
     IN at' = [at EXCEPT ![t].step = After("lookup"),
                         ![t].found = h = s \/ h \in finalized]
  /\ UNCHANGED <<tlsVars, subsVars, version, sockVars, endpointVars, calls>>

(* _active_handles.pop.                                                    *)
Pop(t) ==
  /\ At(t, "pop")
  /\ Goes(t, After("pop"))
  /\ handles' = IF at[t].found THEN [handles EXCEPT ![sock_id[at[t].s]] = Nobody]
                ELSE handles
  /\ UNCHANGED <<tlsVars, subsVars, version, sock, sock_id, sock_tls, finalized,
                 nng_open, endpointVars, calls>>

CloseFn(t) ==
  /\ At(t, "close_fn")
  /\ LET s == at[t].s IN
     /\ nng_open' = nng_open \ {sock_id[s]}
     /\ endpoint' = [e \in Endpoint |-> IF of_socket[e] = s THEN "closed"
                                        ELSE endpoint[e]]
     /\ sock' = [sock EXCEPT ![s] = "closed"]
  /\ Goes(t, After("close_fn"))
  /\ UNCHANGED <<tlsVars, subsVars, version, sock_id, sock_tls, finalized,
                 handles, of_socket, ep_tls, listed, calls>>

(* The tables are emptied; the pools are the subject of AsyncOps.          *)
Clear(t) ==
  /\ At(t, "clear")
  /\ listed' = [listed EXCEPT ![at[t].s] = {}]
  /\ Returns(t)
  /\ UNCHANGED <<tlsVars, subsVars, version, sockVars, endpoint, of_socket,
                 ep_tls, calls>>

------------------------------------------------------------------------------
(* The calls of TLSConfig and Sub0, and their finalizers.                  *)

others == <<version, sockVars, endpointVars>>

TlsCall(t) ==
  /\ MayCall(t) /\ calls' = calls + 1
  /\ MakeTls \/ \E v \in Setting : ApplyOwn(t, v)
  /\ UNCHANGED <<subsVars, others, at>>

TlsGoesOn(t) == ApplyOther(t) /\ UNCHANGED <<subsVars, others, at, calls>>

(* Nothing refers to the object: no call, no socket, no endpoint.          *)
DropTls ==
  /\ \A t \in Thread : at[t].tls = "none"
  /\ \A s \in sock_tls : s \in finalized
  /\ \A s \in Sock : s \notin finalized => listed[s] \cap ep_tls = {}
  /\ FreeTls
  /\ UNCHANGED <<subsVars, others, at, calls>>

Import == ImportV2 /\ UNCHANGED <<subsVars, others, at, calls>>

SubCall(t) ==
  /\ MayCall(t) /\ calls' = calls + 1
  /\ Known(Subscriber)
  /\ \/ \E x \in Topic : \/ CallSubscribe(t, x, NngHas(Subscriber))
                         \/ CallUnsubscribe(t, x, NngHas(Subscriber))
     \/ CallUnsubscribeAll(t, version)
  /\ UNCHANGED <<tlsVars, others, at>>

SubGoesOn(t) ==
  /\ \/ UpdateSet(t) \/ UnsubscribedAll(t)
     \/ UnsubscribeNext(t, version, NngHas(Subscriber))
  /\ UNCHANGED <<tlsVars, others, at, calls>>

------------------------------------------------------------------------------
(* The specification.                                                      *)

SocketsNext ==
  \/ \E t \in Thread :
       \/ NewSocket(t) \/ Open(t) \/ Register(t) \/ Configure(t)
       \/ Dial(t) \/ CreateEndpoint(t) \/ DialAtOnce(t) \/ SetTls(t)
       \/ StartOrNot(t) \/ List(t)
       \/ StartEndpoint(t) \/ SetEndpointTls(t) \/ SetSocketTls(t)
       \/ CloseEndpoint(t) \/ Unlist(t)
       \/ CloseSocket(t) \/ LookUp(t) \/ Pop(t) \/ CloseFn(t) \/ Clear(t)
       \/ TlsCall(t) \/ TlsGoesOn(t) \/ SubCall(t) \/ SubGoesOn(t)
  \/ DropTls \/ Import

(* Nobody has to make another call.                                        *)
AllIdle ==
  /\ \A t \in Thread : Ready(t)
  /\ UNCHANGED vars

SocketsSpec == SocketsInit /\ [][SocketsNext \/ AllIdle]_vars

------------------------------------------------------------------------------
(* Properties.                                                             *)

Live == {"created", "started"}

(* Every variable stays in its range.                                      *)
SocketsTypeOK ==
  /\ TlsTypeOK /\ SubTypeOK
  /\ sock \in [Sock -> {"unmade", "making", "open", "closing", "closed"}]
  /\ sock_id \in [Sock -> Id \cup {Nobody}]
  /\ sock_tls \subseteq Sock /\ finalized \subseteq Sock
  /\ nng_open \subseteq Id
  /\ handles \in [Id -> Sock \cup {Nobody}]
  /\ endpoint \in [Endpoint -> Live \cup {"none", "closed"}]
  /\ of_socket \in [Endpoint -> Sock \cup {Nobody}]
  /\ ep_tls \subseteq Endpoint
  /\ listed \in [Sock -> SUBSET Endpoint]
  /\ calls \in 0..MaxCalls

(* Socket.dialers and Socket.listeners are what nng has: with no call      *)
(* under way on an open socket, each of its live endpoints has an object,  *)
(* also after a constructor, dial or listen failed half-way, and each      *)
(* listed object a live endpoint; a socket that is closed or whose         *)
(* constructor failed leaves no live endpoint behind.                      *)
EndpointsListed ==
  \A s \in Sock :
    /\ (sock[s] = "open" /\ ~InUse(s)) =>
         listed[s] = {e \in Endpoint : of_socket[e] = s /\ endpoint[e] \in Live}
    /\ sock[s] = "closed" =>
         \A e \in Endpoint : of_socket[e] = s => endpoint[e] \notin Live

(* _active_handles: an open socket is found under its id, although nng     *)
(* gives the id of a socket to the next one while close still runs, and    *)
(* only sockets that nng has are found.                                    *)
RegistryExact ==
  /\ \A s \in Sock : sock[s] = "open" => handles[sock_id[s]] = s
  /\ \A i \in Id : handles[i] # Nobody => sock[handles[i]] # "closed"
=============================================================================
