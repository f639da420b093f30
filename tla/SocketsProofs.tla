----------------------------- MODULE SocketsProofs -----------------------------
(***************************************************************************)
(* That a TLSConfig means the same in every library that an endpoint can   *)
(* use it with, that the subscriptions kept in Python are those of nng,    *)
(* and that the tables the sockets are found by are right: _active_handles *)
(* has every open socket under its id, and Socket.dialers and              *)
(* Socket.listeners have the live endpoints of nng, for any number of      *)
(* threads, sockets, endpoints, ids, settings and topics.                  *)
(***************************************************************************)
EXTENDS Sockets, TLAPS

(* What sockets can do with the TLSConfig.                                 *)
TlsNext ==
  \/ ImportV2 \/ MakeTls \/ FreeTls
  \/ \E t \in Thread : ApplyOther(t) \/ \E v \in Setting : ApplyOwn(t, v)

(* The configurations there are: that of the object's own library, and     *)
(* that of the other one unless the entry says that it never was.          *)
NativeOK ==
  /\ tls_object = "unmade" => \A l \in Lib : tls_native[l] = "none"
  /\ tls_object = "live" =>
       /\ tls_native[tls_own] = "held"
       /\ tls_native[Other] = IF tls_entry \in {"usable", "diverged"} THEN "held"
                              ELSE "none"
  /\ tls_object = "freed" => \A l \in Lib : tls_native[l] \in {"none", "freed"}

(* Setters run on a live object, one at a time while none have overlapped. *)
SetterOK ==
  /\ tls_object # "live" => \A t \in Thread : TlsIdle(t)
  /\ ~tls_mixed => \A t, u \in Thread : ~TlsIdle(t) /\ ~TlsIdle(u) => t = u

(* What the other library lacks is what the setter under way has to set.   *)
AgreeOK ==
  (tls_object = "live" /\ ~tls_mixed /\ tls_entry = "usable") =>
    /\ \A t \in Thread : ~TlsIdle(t) => tls_setting[tls_own] = tls_setter[t]
    /\ (\A t \in Thread : TlsIdle(t)) => tls_setting[Other] = tls_setting[tls_own]

TlsInv == TlsTypeOK /\ NativeOK /\ SetterOK /\ AgreeOK

------------------------------------------------------------------------------
(* There are two libraries.                                                *)
LEMMA TwoLibs ==
  ASSUME TlsTypeOK
  PROVE  /\ tls_own \in Lib /\ Other \in Lib /\ Other # tls_own
         /\ \A l \in Lib : l = tls_own \/ l = Other
<1>1. tls_own \in Lib
  BY DEF TlsTypeOK, Lib
<1>2. \E l \in Lib : l # tls_own
  BY DEF Lib
<1>3. Other \in Lib /\ Other # tls_own
  BY <1>2 DEF Other
<1>4. QED
  BY <1>1, <1>3 DEF Lib

(* Nothing is made.                                                        *)
LEMMA TlsInitInv == TlsInit => TlsInv
<1> SUFFICES ASSUME TlsInit PROVE TlsInv
  OBVIOUS
<1>1. TlsTypeOK
  BY DEF TlsInit, TlsTypeOK, Lib, Default
<1>2. NativeOK /\ SetterOK /\ AgreeOK
  BY DEF TlsInit, NativeOK, SetterOK, AgreeOK, TlsIdle
<1>3. QED
  BY <1>1, <1>2 DEF TlsInv

(* The invariant says what TlsAgrees promises.                             *)
LEMMA TlsInvAgrees == TlsInv => TlsAgrees
<1> SUFFICES ASSUME TlsInv PROVE TlsAgrees
  OBVIOUS
<1>1. /\ tls_own \in Lib /\ Other \in Lib /\ Other # tls_own
      /\ \A l \in Lib : l = tls_own \/ l = Other
  BY TwoLibs DEF TlsInv
<1>2. QED
  BY <1>1 DEF TlsInv, NativeOK, SetterOK, AgreeOK, TlsAgrees, ConfigFor

(* A change of the TLSConfig preserves the invariant.                      *)
LEMMA TlsNextInv == ASSUME TlsInv, TlsNext PROVE TlsInv'
<1>1. /\ tls_own \in Lib /\ Other \in Lib /\ Other # tls_own
      /\ \A l \in Lib : l = tls_own \/ l = Other
  BY TwoLibs DEF TlsInv
<1>2. tls_own' = tls_own /\ Other' = Other
  BY DEF TlsNext, ImportV2, MakeTls, FreeTls, ApplyOther, ApplyOwn, Other
<1>2a. ASSUME MakeTls, tls_object' = "live"
       PROVE  \E v \in Setting, entry \in {"usable", "unsupported", "missing"} :
            LET made == IF entry = "usable" THEN Lib ELSE {tls_own} IN
            /\ tls_entry' = entry
            /\ tls_native' = [l \in Lib |-> IF l \in made THEN "held" ELSE "none"]
            /\ tls_setting' = [l \in Lib |-> IF l \in made THEN v ELSE Default]
  BY <1>2a DEF MakeTls
<1> USE <1>1, <1>2, SettingAssumption
    DEF TlsInv, TlsTypeOK, NativeOK, SetterOK, AgreeOK, TlsIdle
<1>3. CASE ImportV2
  BY <1>3 DEF ImportV2, Lib
<1>4. CASE MakeTls
  <2>1. CASE tls_object' = "freed" /\ UNCHANGED <<tls_native, tls_setting, tls_entry>>
    BY <1>4, <2>1 DEF MakeTls
  <2>2. CASE tls_object' = "live"
    <3>1. PICK v \in Setting, entry \in {"usable", "unsupported", "missing"} :
            LET made == IF entry = "usable" THEN Lib ELSE {tls_own} IN
            /\ tls_entry' = entry
            /\ tls_native' = [l \in Lib |-> IF l \in made THEN "held" ELSE "none"]
            /\ tls_setting' = [l \in Lib |-> IF l \in made THEN v ELSE Default]
      BY <1>2a, <1>4, <2>2
    <3>1a. /\ UNCHANGED <<tls_own, tls_libs, tls_setter, tls_mixed>>
           /\ tls_own \in tls_libs
      BY <1>4 DEF MakeTls
    <3>1b. /\ tls_native' \in [Lib -> {"none", "held", "freed"}]
           /\ tls_setting' \in [Lib -> Setting \cup {Default}]
           /\ tls_entry' \in {"usable", "unsupported", "missing", "diverged"}
      BY <3>1
    <3>2. TlsTypeOK'
      BY <2>2, <3>1a, <3>1b
    <3>3. NativeOK'
      BY <2>2, <3>1
    <3>4a. /\ \A t \in Thread : tls_setter[t] = "nothing"
           /\ tls_setter' = tls_setter
      BY <1>4, <3>1a DEF MakeTls
    <3>4b. tls_entry' = "usable" =>
             tls_setting'[Other] = tls_setting'[tls_own]
      BY <3>1
    <3>4. SetterOK' /\ AgreeOK'
      BY <2>2, <3>1a, <3>4a, <3>4b
    <3>5. QED
      BY <3>2, <3>3, <3>4
  <2>3. \/ tls_object' = "freed" /\ UNCHANGED <<tls_native, tls_setting, tls_entry>>
        \/ tls_object' = "live"
    BY <1>4 DEF MakeTls
  <2>4. QED
    BY <2>1, <2>2, <2>3
<1>5. CASE FreeTls
  BY <1>5 DEF FreeTls, Frees
<1>6. ASSUME NEW t \in Thread, ApplyOther(t) PROVE TlsInv'
  <2>1. /\ tls_setter[t] \in Setting
        /\ tls_setter' = [tls_setter EXCEPT ![t] = "nothing"]
        /\ UNCHANGED <<tls_libs, tls_object, tls_native, tls_mixed>>
    BY <1>6 DEF ApplyOther
  <2>2. CASE SeenUsable /\ UNCHANGED tls_entry
             /\ tls_setting' = [tls_setting EXCEPT ![Other] = tls_setter[t]]
    <3>1. TlsTypeOK' /\ NativeOK' /\ SetterOK'
      BY <2>1, <2>2
    <3>2. ASSUME tls_object = "live", ~tls_mixed, tls_entry = "usable"
          PROVE  /\ \A u \in Thread : tls_setter'[u] = "nothing"
                 /\ tls_setting'[Other] = tls_setting'[tls_own]
      <4>1. ~TlsIdle(t) /\ \A u \in Thread : u # t => TlsIdle(u)
        BY <1>6, <3>2 DEF ApplyOther
      <4>2. tls_setting[tls_own] = tls_setter[t]
        BY <3>2, <4>1
      <4>3. \A u \in Thread : tls_setter'[u] = "nothing"
        BY <2>1, <4>1
      <4>4. /\ tls_setting'[Other] = tls_setter[t]
            /\ tls_setting'[tls_own] = tls_setting[tls_own]
        BY <2>2
      <4>5. QED
        BY <4>2, <4>3, <4>4
    <3>3. QED
      BY <2>1, <2>2, <3>1, <3>2
  <2>3. CASE SeenUsable /\ tls_entry' = "diverged" /\ UNCHANGED tls_setting
    BY <2>1, <2>3 DEF SeenUsable
  <2>4. CASE tls_entry # "usable" /\ UNCHANGED <<tls_entry, tls_setting>>
    BY <2>1, <2>4
  <2>5. QED
    BY <1>6, <2>2, <2>3, <2>4 DEF ApplyOther
<1>7. ASSUME NEW t \in Thread, NEW v \in Setting, ApplyOwn(t, v) PROVE TlsInv'
  <2>1. /\ tls_object = "live" /\ TlsIdle(t)
        /\ UNCHANGED <<tls_libs, tls_object, tls_native, tls_entry>>
    BY <1>7 DEF ApplyOwn
  <2>2. CASE UNCHANGED <<tls_setting, tls_setter, tls_mixed>>
    BY <2>1, <2>2
  <2>3. CASE /\ tls_setting' = [tls_setting EXCEPT ![tls_own] = v]
             /\ tls_setter' = [tls_setter EXCEPT ![t] = v]
             /\ tls_mixed' = (tls_mixed \/ \E u \in Thread : ~TlsIdle(u))
    <3>1. TlsTypeOK'
      BY <2>1, <2>3
    <3>2. NativeOK'
      BY <2>1
    <3>3. SetterOK'
      BY <2>1, <2>3
    <3>4. AgreeOK'
      BY <2>1, <2>3
    <3>5. QED
      BY <3>1, <3>2, <3>3, <3>4
  <2>4. QED
    BY <1>7, <2>2, <2>3 DEF ApplyOwn
<1>8. QED
  BY <1>3, <1>4, <1>5, <1>6, <1>7 DEF TlsNext

(* A step of the system changes the TLSConfig in one of these ways only.   *)
LEMMA TlsStep == ASSUME [SocketsNext \/ AllIdle]_vars
                 PROVE  TlsNext \/ UNCHANGED tlsVars
<1>1. ASSUME NEW t \in Thread,
             \/ NewSocket(t) \/ Open(t) \/ Register(t) \/ Configure(t)
             \/ Dial(t) \/ CreateEndpoint(t) \/ DialAtOnce(t) \/ SetTls(t)
             \/ StartOrNot(t) \/ List(t)
      PROVE  UNCHANGED tlsVars
  BY <1>1 DEF NewSocket, Open, Register, Configure, Dial, CreateEndpoint,
              DialAtOnce, NngMakes, SetTls, StartOrNot, List
<1>2. ASSUME NEW t \in Thread,
             \/ StartEndpoint(t) \/ SetEndpointTls(t) \/ SetSocketTls(t)
             \/ CloseEndpoint(t) \/ Unlist(t) \/ CloseSocket(t) \/ LookUp(t)
             \/ Pop(t) \/ CloseFn(t) \/ Clear(t) \/ SubCall(t) \/ SubGoesOn(t)
      PROVE  UNCHANGED tlsVars
  BY <1>2 DEF StartEndpoint, SetEndpointTls, SetSocketTls, CloseEndpoint, Unlist,
              CloseSocket, LookUp, Pop, CloseFn, Clear, SubCall, SubGoesOn
<1>3. ASSUME NEW t \in Thread, TlsCall(t) \/ TlsGoesOn(t) PROVE TlsNext
  BY <1>3 DEF TlsCall, TlsGoesOn, TlsNext
<1>4. CASE DropTls \/ Import
  BY <1>4 DEF DropTls, Import, TlsNext
<1>5. CASE AllIdle \/ UNCHANGED vars
  BY <1>5 DEF AllIdle, vars
<1>6. QED
  BY <1>1, <1>2, <1>3, <1>4, <1>5 DEF SocketsNext

(* "its setters reach every library at once" (tls.py:14), for any number   *)
(* of threads that make, set and drop the TLSConfig: TlsAgrees.            *)
THEOREM LibrariesAgree == SocketsSpec => []TlsAgrees
<1>1. SocketsInit => TlsInv
  BY TlsInitInv DEF SocketsInit
<1>2. TlsInv /\ [SocketsNext \/ AllIdle]_vars => TlsInv'
  <2> SUFFICES ASSUME TlsInv, [SocketsNext \/ AllIdle]_vars PROVE TlsInv'
    OBVIOUS
  <2>1. CASE TlsNext
    BY <2>1, TlsNextInv
  <2>2. CASE UNCHANGED tlsVars
    BY <2>2 DEF tlsVars, TlsInv, TlsTypeOK, NativeOK, SetterOK, AgreeOK, TlsIdle,
                Other
  <2>3. QED
    BY <2>1, <2>2, TlsStep
<1>3. TlsInv => TlsAgrees
  BY TlsInvAgrees
<1>4. QED
  BY <1>1, <1>2, <1>3, PTL DEF SocketsSpec

------------------------------------------------------------------------------
(* The subscriptions.                                                      *)

(* What sockets can do with them; the constructor while nobody else does.  *)
SubNext ==
  \/ \E t \in Thread :
       \/ \E x \in Topic : \/ CallSubscribe(t, x, NngHas(Subscriber))
                           \/ CallUnsubscribe(t, x, NngHas(Subscriber))
       \/ CallUnsubscribeAll(t, version)
       \/ UpdateSet(t) \/ UnsubscribedAll(t)
       \/ UnsubscribeNext(t, version, NngHas(Subscriber))
  \/ /\ \A t \in Thread : IsSubIdle(t)
     /\ \E topics \in SUBSET Topic : InitTopics(topics)

(* A topic on which no calls have overlapped is the business of one call   *)
(* at most, which has to do to the set what nng has done already; the set  *)
(* agrees with nng on the topics that no call has to change.               *)
OneAtATime ==
  \A x \in Topic \ sub_crossed : \A t, u \in Thread :
    x \in Busy(t) /\ x \in Busy(u) => t = u

StepOK ==
  \A x \in Topic \ sub_crossed : \A t \in Thread :
    sub_step[t].topic = x => (sub_step[t].op = "add" <=> x \in subscribed)

SetOK ==
  \A x \in Topic \ sub_crossed :
    (\A t \in Thread : sub_step[t].topic # x) =>
      (x \in subscriptions <=> x \in subscribed)

SubInv == SubTypeOK /\ OneAtATime /\ StepOK /\ SetOK

(* Nothing is subscribed.                                                  *)
LEMMA SubInitInv == SubInit => SubInv
  BY TopicAssumption
  DEF SubInit, SubInv, SubTypeOK, OneAtATime, StepOK, SetOK, Busy, SubIdle

(* The invariant says what SetIsCurrent promises.                          *)
LEMMA SubInvCurrent == SubInv => SetIsCurrent
  BY DEF SubInv, SetOK, SetIsCurrent, Busy

(* A call, or the end of one, preserves the invariant.                     *)
LEMMA SubNextInv == ASSUME SubInv, SubNext PROVE SubInv'
<1> USE TopicAssumption
    DEF SubInv, SubTypeOK, OneAtATime, StepOK, SetOK, Busy, SubIdle
<1>1. ASSUME NEW t \in Thread, NEW x \in Topic,
             CallSubscribe(t, x, NngHas(Subscriber))
      PROVE  SubInv'
  BY <1>1 DEF CallSubscribe, IsSubIdle, Crosses
<1>2. ASSUME NEW t \in Thread, NEW x \in Topic,
             CallUnsubscribe(t, x, NngHas(Subscriber))
      PROVE  SubInv'
  BY <1>2 DEF CallUnsubscribe, IsSubIdle, Crosses
<1>3. ASSUME NEW t \in Thread, CallUnsubscribeAll(t, version) PROVE SubInv'
  BY <1>3 DEF CallUnsubscribeAll, IsSubIdle, Crosses
<1>4. ASSUME NEW t \in Thread, UpdateSet(t) PROVE SubInv'
  BY <1>4 DEF UpdateSet
<1>5. ASSUME NEW t \in Thread, UnsubscribedAll(t) PROVE SubInv'
  BY <1>5 DEF UnsubscribedAll
<1>6. ASSUME NEW t \in Thread, UnsubscribeNext(t, version, NngHas(Subscriber))
      PROVE  SubInv'
  BY <1>6 DEF UnsubscribeNext, Crosses
<1>7. ASSUME \A t \in Thread : IsSubIdle(t),
             NEW topics \in SUBSET Topic, InitTopics(topics)
      PROVE  SubInv'
  BY <1>7 DEF InitTopics, IsSubIdle
<1>8. QED
  BY <1>1, <1>2, <1>3, <1>4, <1>5, <1>6, <1>7 DEF SubNext

------------------------------------------------------------------------------
(* Who else has a socket whose constructor runs.                           *)

Makes(c) ==
  \/ c.step \in {"open", "register", "configure"}
  \/ c.new /\ c.step \in {"endpoint", "set_tls", "start_or_not", "list"}

Making(t) == Makes(at[t])

Closes(c) == c.step \in {"lookup", "pop", "close_fn", "clear"}

CallType ==
  [step : {"idle", "open", "register", "configure", "endpoint", "set_tls",
           "start_or_not", "list", "unlist", "lookup", "pop", "close_fn", "clear"},
   s : Sock \cup {Nobody}, e : Endpoint \cup {Nobody},
   tls : {"none", "default", "explicit"}, start : {"now", "later"}, block : {"auto", "no"},
   new : BOOLEAN, dials : {0, 1, 2}, found : BOOLEAN]

CallOK ==
  /\ at \in [Thread -> CallType]
  /\ \A t \in Thread : at[t].step # "idle" => at[t].s \in Sock
  /\ sock \in [Sock -> {"unmade", "making", "open", "closing", "closed"}]

(* One thread makes it, and nobody closes it before ...                    *)
MakerOK ==
  /\ \A t \in Thread : Making(t) => sock[at[t].s] = "making"
  /\ \A t, u \in Thread : Making(t) /\ Making(u) /\ at[t].s = at[u].s => t = u
  /\ \A t \in Thread : Closes(at[t]) => sock[at[t].s] \in {"closing", "closed"}

(* ... or subscribes with it.                                              *)
UnknownOK ==
  sock[Subscriber] \in {"unmade", "making"} => \A t \in Thread : IsSubIdle(t)

ListedOK == listed \in [Sock -> SUBSET (Endpoint \cup {Nobody})]

Inv == CallOK /\ MakerOK /\ UnknownOK /\ ListedOK

(* No thread has made a call.                                              *)
LEMMA InitInv == SocketsInit => Inv
<1> SUFFICES ASSUME SocketsInit PROVE Inv
  OBVIOUS
<1>1. Idle \in CallType
  BY DEF Idle, CallType
<1>2. CallOK /\ MakerOK
  BY <1>1 DEF SocketsInit, CallOK, MakerOK, Making, Makes, Closes, Idle
<1>3. UnknownOK /\ ListedOK
  BY ThreadAssumption DEF SocketsInit, SubInit, UnknownOK, IsSubIdle, Free, ListedOK
<1>4. QED
  BY <1>2, <1>3 DEF Inv

(* A step of a thread preserves CallOK and MakerOK if it takes no socket    *)
(* from the thread that makes it, and none that is closing back.           *)
LEMMA CallStep ==
  ASSUME CallOK, MakerOK, NEW t \in Thread, NEW c \in CallType,
         at' = [at EXCEPT ![t] = c],
         c.step # "idle" => c.s \in Sock,
         sock' \in [Sock -> {"unmade", "making", "open", "closing", "closed"}],
         \A s \in Sock : sock'[s] # sock[s] =>
           sock[s] # "making" \/ (Making(t) /\ at[t].s = s),
         \A s \in Sock : sock[s] \in {"closing", "closed"} =>
                         sock'[s] \in {"closing", "closed"},
         Makes(c) => /\ sock'[c.s] = "making"
                     /\ sock[c.s] = "unmade" \/ (Making(t) /\ at[t].s = c.s),
         Closes(c) => sock'[c.s] \in {"closing", "closed"}
  PROVE  CallOK' /\ MakerOK'
<1>1. CallOK'
  BY DEF CallOK
<1>2. /\ at'[t] = c
      /\ \A u \in Thread : u # t => at'[u] = at[u]
  BY DEF CallOK
<1>3. \A u \in Thread : Making(u)' = Makes(at'[u])
  BY DEF Making
<1>4. ASSUME NEW u \in Thread, u # t, Making(u)
      PROVE  sock'[at[u].s] = "making"
  <2>1. at[u].s \in Sock /\ sock[at[u].s] = "making"
    BY <1>4 DEF CallOK, MakerOK, Making, Makes
  <2>2. QED
    BY <1>4, <2>1 DEF MakerOK
<1>5. ASSUME NEW u \in Thread, Makes(at'[u])
      PROVE  sock'[at'[u].s] = "making"
  BY <1>2, <1>4, <1>5 DEF Making
<1>6. ASSUME NEW u \in Thread, NEW v \in Thread,
             Makes(at'[u]), Makes(at'[v]), at'[u].s = at'[v].s
      PROVE  u = v
  BY <1>2, <1>6 DEF MakerOK, Making
<1>7. ASSUME NEW u \in Thread, Closes(at'[u])
      PROVE  sock'[at'[u].s] \in {"closing", "closed"}
  <2>1. CASE u = t
    BY <1>2, <1>7, <2>1
  <2>2. CASE u # t
    <3>1. at[u].s \in Sock
      BY <1>2, <1>7, <2>2 DEF CallOK, Closes
    <3>2. QED
      BY <1>2, <1>7, <2>2, <3>1 DEF MakerOK
  <2>3. QED
    BY <2>1, <2>2
<1>8. MakerOK'
  BY <1>3, <1>5, <1>6, <1>7 DEF MakerOK
<1>9. QED
  BY <1>1, <1>8

(* The record of a call that begins.                                       *)
LEMMA CallRecord ==
  ASSUME NEW s \in Sock, NEW step \in {"open", "endpoint", "unlist", "lookup"}
  PROVE  /\ Call(step, s) \in CallType
         /\ Call(step, s).step = step /\ Call(step, s).s = s /\ ~Call(step, s).new
<1>1. Idle \in CallType /\ ~Idle.new
  BY DEF Idle, CallType
<1>2. QED
  BY <1>1 DEF Call, CallType

(* The step of a call as its record says it.                               *)
LEMMA CallFacts ==
  ASSUME CallOK, NEW t \in Thread
  PROVE  /\ at[t] \in CallType
         /\ at[t].step # "idle" => at[t].s \in Sock
  BY DEF CallOK

(* A call goes on with its socket.                                         *)
LEMMA GoesOn ==
  ASSUME CallOK, MakerOK, NEW t \in Thread, NEW c \in CallType,
         at' = [at EXCEPT ![t] = c], at[t].step # "idle",
         c.s = at[t].s, Makes(c) => Making(t), Closes(c) => Closes(at[t]),
         UNCHANGED sock
  PROVE  CallOK' /\ MakerOK'
<1>1. at[t].s \in Sock
  BY CallFacts
<1>2. sock \in [Sock -> {"unmade", "making", "open", "closing", "closed"}]
  BY DEF CallOK
<1>3. /\ Making(t) => sock[at[t].s] = "making"
      /\ Closes(at[t]) => sock[at[t].s] \in {"closing", "closed"}
  BY DEF MakerOK
<1>4. QED
  BY <1>1, <1>2, <1>3, CallStep

(* A constructor raises.                                                   *)
LEMMA DropsSocket ==
  ASSUME CallOK, MakerOK, NEW t \in Thread, Making(t), Dropped(t)
  PROVE  CallOK' /\ MakerOK'
<1> DEFINE c == [at[t] EXCEPT !.step = "lookup"]
<1>1. /\ at[t] \in CallType /\ at[t].s \in Sock
      /\ at \in [Thread -> CallType]
      /\ sock \in [Sock -> {"unmade", "making", "open", "closing", "closed"}]
  BY DEF CallOK, Making, Makes
<1>2. c \in CallType /\ c.s = at[t].s /\ c.step = "lookup"
  BY <1>1 DEF CallType
<1>3. at' = [at EXCEPT ![t] = c] /\ sock' = [sock EXCEPT ![at[t].s] = "closing"]
  BY <1>1 DEF Dropped, Goes
<1>4. ~Makes(c)
  BY <1>2 DEF Makes
<1> HIDE DEF c
<1>5. QED
  BY <1>1, <1>2, <1>3, <1>4, CallStep

(* A call returns, and with it the constructor.                            *)
LEMMA ReturnsSocket ==
  ASSUME CallOK, MakerOK, NEW t \in Thread, Returns(t),
         \/ UNCHANGED sock
         \/ Making(t) /\ sock' = [sock EXCEPT ![at[t].s] = "open"]
  PROVE  CallOK' /\ MakerOK'
<1>1. Idle \in CallType /\ Idle.step = "idle" /\ ~Makes(Idle) /\ ~Closes(Idle)
  BY DEF Idle, CallType, Makes, Closes
<1>2. at' = [at EXCEPT ![t] = Idle]
  BY DEF Returns
<1>3. sock \in [Sock -> {"unmade", "making", "open", "closing", "closed"}]
  BY DEF CallOK
<1>4. Making(t) => at[t].s \in Sock /\ sock[at[t].s] = "making"
  BY DEF CallOK, MakerOK, Making, Makes
<1> HIDE DEF Idle
<1>5. CASE UNCHANGED sock
  BY <1>1, <1>2, <1>3, <1>5, CallStep
<1>6. CASE Making(t) /\ sock' = [sock EXCEPT ![at[t].s] = "open"]
  BY <1>1, <1>2, <1>3, <1>4, <1>6, CallStep
<1>7. QED
  BY <1>5, <1>6

(* A call begins; only the first one of a socket makes it.                 *)
LEMMA Begins ==
  ASSUME CallOK, MakerOK, NEW t \in Thread, NEW c \in CallType, Calls(t, c),
         c.s \in Sock,
         \/ ~Makes(c) /\ ~Closes(c) /\ UNCHANGED sock
         \/ /\ ~Closes(c) /\ sock[c.s] = "unmade"
            /\ sock' = [sock EXCEPT ![c.s] = "making"]
         \/ /\ ~Makes(c) /\ sock[c.s] = "open"
            /\ sock' = [sock EXCEPT ![c.s] = "closing"]
  PROVE  CallOK' /\ MakerOK'
<1>1. at' = [at EXCEPT ![t] = c]
  BY DEF Calls
<1>2. sock \in [Sock -> {"unmade", "making", "open", "closing", "closed"}]
  BY DEF CallOK
<1>3. QED
  BY <1>1, <1>2, CallStep

(* A step of the constructor, or of dial and listen.                       *)
LEMMA MakingSteps ==
  ASSUME CallOK, MakerOK, NEW t \in Thread,
         \/ NewSocket(t) \/ Open(t) \/ Register(t) \/ Configure(t)
         \/ Dial(t) \/ CreateEndpoint(t) \/ DialAtOnce(t) \/ SetTls(t)
         \/ StartOrNot(t) \/ List(t)
  PROVE  CallOK' /\ MakerOK'
<1>1. at[t] \in CallType /\ at \in [Thread -> CallType]
  BY DEF CallOK
<1>2. ASSUME NEW x \in {"register", "configure", "endpoint", "set_tls",
                      "start_or_not", "list"},
             Goes(t, x), UNCHANGED sock, at[t].step # "idle",
             Makes([at[t] EXCEPT !.step = x]) => Making(t)
      PROVE  CallOK' /\ MakerOK'
  <2> DEFINE c == [at[t] EXCEPT !.step = x]
  <2>1. c \in CallType /\ c.s = at[t].s /\ ~Closes(c)
    BY <1>1 DEF CallType, Closes
  <2>2. at' = [at EXCEPT ![t] = c]
    BY <1>1, <1>2 DEF Goes
  <2> HIDE DEF c
  <2>3. QED
    BY <1>2, <2>1, <2>2, GoesOn DEF c
<1>3. ASSUME at[t].step # "idle", Raises(t),
             at[t].step \in {"endpoint", "set_tls", "start_or_not", "list"}
      PROVE  CallOK' /\ MakerOK'
  <2>1. CASE at[t].new
    BY <1>3, <2>1, DropsSocket DEF Raises, Making, Makes
  <2>2. CASE ~at[t].new
    BY <1>3, <2>2, ReturnsSocket DEF Raises
  <2>3. QED
    BY <2>1, <2>2
<1>4. CASE NewSocket(t)
  <2>1. PICK s \in Sock, tls \in {"none", "default"}, dials \in {0, 1, 2} :
          /\ sock[s] = "unmade"
          /\ Calls(t, [Call("open", s) EXCEPT !.tls = tls, !.new = TRUE, !.dials = dials])
          /\ sock' = [sock EXCEPT ![s] = "making"]
    BY <1>4 DEF NewSocket
  <2> DEFINE c == [Call("open", s) EXCEPT !.tls = tls, !.new = TRUE, !.dials = dials]
  <2>2. Call("open", s) \in CallType /\ Call("open", s).s = s
        /\ Call("open", s).step = "open"
    BY CallRecord
  <2>3. c \in CallType /\ c.s = s /\ c.step = "open"
    BY <2>2 DEF CallType
  <2> HIDE DEF c
  <2>4. ~Closes(c)
    BY <2>3 DEF Closes
  <2>5. QED
    BY <2>1, <2>3, <2>4, Begins DEF c
<1>5. CASE Dial(t)
  <2>1. PICK s \in Sock, tls \in {"default", "explicit"}, start \in {"now", "later"},
             block \in {"auto", "no"} :
          /\ Calls(t, [Call("endpoint", s) EXCEPT !.tls = tls, !.start = start,
                                                 !.block = block])
          /\ UNCHANGED sock
    BY <1>5 DEF Dial, sockVars
  <2> DEFINE c == [Call("endpoint", s) EXCEPT !.tls = tls, !.start = start,
                                              !.block = block]
  <2>2. /\ Call("endpoint", s) \in CallType /\ Call("endpoint", s).s = s
        /\ Call("endpoint", s).step = "endpoint" /\ ~Call("endpoint", s).new
    BY CallRecord
  <2>3. c \in CallType /\ c.s = s /\ c.step = "endpoint" /\ ~c.new
    BY <2>2 DEF CallType
  <2> HIDE DEF c
  <2>4. ~Makes(c) /\ ~Closes(c)
    BY <2>3 DEF Makes, Closes
  <2>5. QED
    BY <2>1, <2>3, <2>4, Begins DEF c
<1>6. CASE Open(t)
  <2>1. CASE Goes(t, "register") /\ UNCHANGED sock
    BY <1>2, <1>6, <2>1 DEF Open, At, Making, Makes
  <2>2. CASE Dropped(t)
    BY <1>6, <2>2, DropsSocket DEF Open, At, Making, Makes
  <2>3. QED
    BY <1>6, <2>1, <2>2 DEF Open
<1>7. CASE Register(t)
  <2>1. CASE Goes(t, "configure") /\ UNCHANGED sock
    BY <1>2, <1>7, <2>1 DEF Register, At, Making, Makes
  <2>2. CASE Dropped(t)
    BY <1>7, <2>2, DropsSocket DEF Register, At, Making, Makes
  <2>3. QED
    BY <1>7, <2>1, <2>2 DEF Register
<1>8. CASE Configure(t)
  <2>1. at[t].step = "configure" /\ Making(t)
    BY <1>8 DEF Configure, At, Making, Makes
  <2>2. CASE Goes(t, "endpoint") /\ UNCHANGED sock
    BY <1>2, <2>1, <2>2
  <2>3. CASE Returns(t) /\ sock' = [sock EXCEPT ![at[t].s] = "open"]
    BY <2>1, <2>3, ReturnsSocket
  <2>4. CASE Dropped(t)
    BY <2>1, <2>4, DropsSocket
  <2>5. QED
    BY <1>8, <2>2, <2>3, <2>4 DEF Configure
<1>9. CASE CreateEndpoint(t) \/ DialAtOnce(t)
  <2>1. PICK state \in {"created", "started"},
             next \in {"set_tls", "start_or_not", "list"} : NngMakes(t, state, next)
    <3>1. \/ NngMakes(t, "created", IF HasTls(t) THEN "set_tls" ELSE "start_or_not")
          \/ NngMakes(t, "started", "list")
      BY <1>9 DEF CreateEndpoint, DialAtOnce
    <3>2. (IF HasTls(t) THEN "set_tls" ELSE "start_or_not")
            \in {"set_tls", "start_or_not", "list"}
      OBVIOUS
    <3>3. QED
      BY <3>1, <3>2
  <2>2. at[t].step = "endpoint"
    BY <2>1 DEF NngMakes, At
  <2>3. ASSUME NEW e \in Endpoint, UNCHANGED sock,
               at' = [at EXCEPT ![t].e = e, ![t].step = next]
        PROVE  CallOK' /\ MakerOK'
    <3> DEFINE c == [at[t] EXCEPT !.e = e, !.step = next]
    <3>1. c \in CallType /\ c.s = at[t].s /\ c.new = at[t].new /\ c.step = next
      BY <1>1 DEF CallType
    <3>2. at' = [at EXCEPT ![t] = c]
      BY <1>1, <2>3
    <3>3. ~Closes(c) /\ (Makes(c) => Making(t))
      BY <2>2, <3>1 DEF Closes, Makes, Making
    <3> HIDE DEF c
    <3>4. QED
      BY <2>2, <2>3, <3>1, <3>2, <3>3, GoesOn
  <2>4. CASE Raises(t)
    BY <1>3, <2>2, <2>4
  <2>5. QED
    BY <2>1, <2>3, <2>4 DEF NngMakes
<1>10. CASE SetTls(t)
  <2>1. at[t].step = "set_tls"
    BY <1>10 DEF SetTls, At
  <2>2. CASE Goes(t, "start_or_not") /\ UNCHANGED sock
    BY <1>2, <2>1, <2>2 DEF Making, Makes
  <2>3. CASE Raises(t)
    BY <1>3, <2>1, <2>3
  <2>4. QED
    BY <1>10, <2>2, <2>3 DEF SetTls, GivesUp
<1>11. CASE StartOrNot(t)
  <2>1. at[t].step = "start_or_not"
    BY <1>11 DEF StartOrNot, At
  <2>2. CASE Goes(t, "list") /\ UNCHANGED sock
    BY <1>2, <2>1, <2>2 DEF Making, Makes
  <2>3. CASE Raises(t)
    BY <1>3, <2>1, <2>3
  <2>4. CASE /\ at' = [at EXCEPT ![t].step = "endpoint", ![t].block = "no",
                                 ![t].e = Nobody]
             /\ UNCHANGED sock
    <3> DEFINE c == [at[t] EXCEPT !.step = "endpoint", !.block = "no", !.e = Nobody]
    <3>1. /\ c \in CallType /\ c.s = at[t].s /\ c.new = at[t].new
          /\ c.step = "endpoint"
      BY <1>1 DEF CallType
    <3>2. at' = [at EXCEPT ![t] = c]
      BY <1>1, <2>4
    <3>3. ~Closes(c) /\ (Makes(c) => Making(t))
      BY <2>1, <3>1 DEF Closes, Makes, Making
    <3> HIDE DEF c
    <3>4. QED
      BY <2>1, <2>4, <3>1, <3>2, <3>3, GoesOn
  <2>5. QED
    BY <1>11, <2>2, <2>3, <2>4 DEF StartOrNot, GivesUp
<1>12. CASE List(t)
  <2>1. at[t].step = "list"
    BY <1>12 DEF List, At
  <2>2. CASE /\ at' = [at EXCEPT ![t].step = "endpoint", ![t].block = "auto",
                                 ![t].e = Nobody, ![t].dials = 1]
             /\ UNCHANGED sock
    <3> DEFINE c == [at[t] EXCEPT !.step = "endpoint", !.block = "auto",
                                  !.e = Nobody, !.dials = 1]
    <3>1. /\ c \in CallType /\ c.s = at[t].s /\ c.new = at[t].new
          /\ c.step = "endpoint"
      BY <1>1 DEF CallType
    <3>2. at' = [at EXCEPT ![t] = c]
      BY <1>1, <2>2
    <3>3. ~Closes(c) /\ (Makes(c) => Making(t))
      BY <2>1, <3>1 DEF Closes, Makes, Making
    <3> HIDE DEF c
    <3>4. QED
      BY <2>1, <2>2, <3>1, <3>2, <3>3, GoesOn
  <2>3. CASE /\ Returns(t)
             /\ sock' = IF at[t].new THEN [sock EXCEPT ![at[t].s] = "open"] ELSE sock
    BY <2>1, <2>3, ReturnsSocket DEF Making, Makes
  <2>4. QED
    BY <1>12, <2>2, <2>3 DEF List
<1>13. QED
  BY <1>4, <1>5, <1>6, <1>7, <1>8, <1>9, <1>10, <1>11, <1>12

(* Any other step.                                                         *)
LEMMA OtherSteps ==
  ASSUME CallOK, MakerOK, ListedOK, NEW t \in Thread,
         \/ StartEndpoint(t) \/ SetEndpointTls(t) \/ SetSocketTls(t)
         \/ CloseEndpoint(t) \/ Unlist(t)
         \/ CloseSocket(t) \/ LookUp(t) \/ Pop(t) \/ CloseFn(t) \/ Clear(t)
         \/ TlsCall(t) \/ TlsGoesOn(t) \/ SubCall(t) \/ SubGoesOn(t)
  PROVE  CallOK' /\ MakerOK'
<1>1. /\ at[t] \in CallType /\ at \in [Thread -> CallType]
      /\ sock \in [Sock -> {"unmade", "making", "open", "closing", "closed"}]
  BY DEF CallOK
<1>2. CASE \/ StartEndpoint(t) \/ SetEndpointTls(t) \/ SetSocketTls(t)
           \/ TlsCall(t) \/ TlsGoesOn(t) \/ SubCall(t) \/ SubGoesOn(t)
  <2>1. UNCHANGED <<at, sock>>
    BY <1>2 DEF StartEndpoint, SetEndpointTls, SetSocketTls, TlsCall,
                TlsGoesOn, SubCall, SubGoesOn, others, sockVars
  <2>2. QED
    BY <2>1 DEF CallOK, MakerOK, Making
<1>3. CASE CloseEndpoint(t)
  <2>1. PICK s \in Sock, e \in Endpoint \cup {Nobody} :
          Calls(t, [Call("unlist", s) EXCEPT !.e = e]) /\ UNCHANGED sock
    BY <1>3 DEF CloseEndpoint, sockVars, ListedOK
  <2> DEFINE c == [Call("unlist", s) EXCEPT !.e = e]
  <2>2. Call("unlist", s) \in CallType /\ Call("unlist", s).s = s
        /\ Call("unlist", s).step = "unlist"
    BY CallRecord
  <2>3. c \in CallType /\ c.s = s /\ c.step = "unlist"
    BY <2>2 DEF CallType
  <2> HIDE DEF c
  <2>4. ~Makes(c) /\ ~Closes(c)
    BY <2>3 DEF Makes, Closes
  <2>5. QED
    BY <2>1, <2>3, <2>4, Begins DEF c
<1>4. CASE CloseSocket(t)
  <2>1. PICK s \in Sock : /\ sock[s] = "open"
                          /\ Calls(t, Call("lookup", s))
                          /\ sock' = [sock EXCEPT ![s] = "closing"]
    BY <1>4 DEF CloseSocket
  <2>2. /\ Call("lookup", s) \in CallType /\ Call("lookup", s).s = s
        /\ Call("lookup", s).step = "lookup"
    BY CallRecord
  <2>3. ~Makes(Call("lookup", s))
    BY <2>2 DEF Makes
  <2>4. QED
    BY <2>1, <2>2, <2>3, Begins
<1>5. CASE Unlist(t) \/ Clear(t)
  <2>1. Returns(t) /\ UNCHANGED sock
    BY <1>5 DEF Unlist, Clear, sockVars
  <2>2. QED
    BY <2>1, ReturnsSocket
<1>6. CASE LookUp(t)
  <2>1. at[t].step = "lookup" /\ UNCHANGED sock
    BY <1>6 DEF LookUp, At, sockVars
  <2>2. PICK found \in BOOLEAN :
          at' = [at EXCEPT ![t].step = "pop", ![t].found = found]
    BY <1>6 DEF LookUp, After
  <2> DEFINE c == [at[t] EXCEPT !.step = "pop", !.found = found]
  <2>3. c \in CallType /\ c.s = at[t].s /\ c.step = "pop"
    BY <1>1 DEF CallType
  <2>4. at' = [at EXCEPT ![t] = c]
    BY <1>1, <2>2
  <2> HIDE DEF c
  <2>5. ~Makes(c) /\ Closes(at[t])
    BY <2>1, <2>3 DEF Makes, Closes
  <2>6. QED
    BY <2>1, <2>3, <2>4, <2>5, GoesOn
<1>7. CASE Pop(t)
  <2> DEFINE c == [at[t] EXCEPT !.step = "close_fn"]
  <2>1. at[t].step = "pop" /\ Goes(t, "close_fn") /\ UNCHANGED sock
    BY <1>7 DEF Pop, At, After
  <2>2. c \in CallType /\ c.s = at[t].s /\ c.step = "close_fn"
    BY <1>1 DEF CallType
  <2>3. at' = [at EXCEPT ![t] = c]
    BY <1>1, <2>1 DEF Goes
  <2> HIDE DEF c
  <2>4. ~Makes(c) /\ Closes(at[t])
    BY <2>1, <2>2 DEF Makes, Closes
  <2>5. QED
    BY <2>1, <2>2, <2>3, <2>4, GoesOn
<1>8. CASE CloseFn(t)
  <2> DEFINE c == [at[t] EXCEPT !.step = "clear"]
  <2>1. /\ at[t].step = "close_fn" /\ Goes(t, "clear")
        /\ sock' = [sock EXCEPT ![at[t].s] = "closed"]
    BY <1>8 DEF CloseFn, At, After
  <2>2. c \in CallType /\ c.s = at[t].s /\ c.step = "clear"
    BY <1>1 DEF CallType
  <2>3. at' = [at EXCEPT ![t] = c]
    BY <1>1, <2>1 DEF Goes
  <2>4. at[t].s \in Sock /\ sock[at[t].s] \in {"closing", "closed"}
    BY <2>1 DEF CallOK, MakerOK, Closes
  <2> HIDE DEF c
  <2>5. ~Makes(c)
    BY <2>2 DEF Makes
  <2>6. QED
    BY <1>1, <2>1, <2>2, <2>3, <2>4, <2>5, CallStep
<1>9. QED
  BY <1>2, <1>3, <1>4, <1>5, <1>6, <1>7, <1>8

(* The tables hold endpoints.                                              *)
LEMMA ListedStep ==
  ASSUME CallOK, ListedOK, SocketsNext PROVE ListedOK'
<1>1. ASSUME NEW t \in Thread, List(t) PROVE ListedOK'
  <2>1. at[t].e \in Endpoint \cup {Nobody}
    BY DEF CallOK, CallType
  <2>2. QED
    BY <1>1, <2>1 DEF List, ListedOK
<1>2. ASSUME NEW t \in Thread, Unlist(t) \/ Clear(t) PROVE ListedOK'
  BY <1>2 DEF Unlist, Clear, ListedOK
<1>3. ASSUME NEW t \in Thread,
             \/ NewSocket(t) \/ Open(t) \/ Register(t) \/ Configure(t)
             \/ Dial(t) \/ CreateEndpoint(t) \/ DialAtOnce(t) \/ SetTls(t)
             \/ StartOrNot(t)
      PROVE  UNCHANGED listed
  BY <1>3 DEF NewSocket, Open, Register, Configure, Dial, CreateEndpoint,
              DialAtOnce, NngMakes, SetTls, StartOrNot, endpointVars
<1>4. ASSUME NEW t \in Thread,
             \/ StartEndpoint(t) \/ SetEndpointTls(t) \/ SetSocketTls(t)
             \/ CloseEndpoint(t) \/ CloseSocket(t) \/ LookUp(t)
             \/ Pop(t) \/ CloseFn(t)
      PROVE  UNCHANGED listed
  BY <1>4 DEF StartEndpoint, SetEndpointTls, SetSocketTls, CloseEndpoint,
              CloseSocket, LookUp, Pop, CloseFn, endpointVars
<1>5. ASSUME NEW t \in Thread,
             TlsCall(t) \/ TlsGoesOn(t) \/ SubCall(t) \/ SubGoesOn(t)
      PROVE  UNCHANGED listed
  BY <1>5 DEF TlsCall, TlsGoesOn, SubCall, SubGoesOn, others, endpointVars
<1>6. CASE DropTls \/ Import
  BY <1>6 DEF DropTls, Import, others, endpointVars, ListedOK
<1>7. QED
  BY <1>1, <1>2, <1>3, <1>4, <1>5, <1>6 DEF SocketsNext, ListedOK

(* The calls and the sockets they make.                                    *)
LEMMA MakerStep ==
  ASSUME CallOK, MakerOK, ListedOK, SocketsNext PROVE CallOK' /\ MakerOK'
<1>1. CASE DropTls \/ Import
  BY <1>1 DEF DropTls, Import, others, sockVars, CallOK, MakerOK, Making
<1>2. QED
  BY <1>1, MakingSteps, OtherSteps DEF SocketsNext

(* No socket becomes unknown again.                                        *)
LEMMA KnownStays ==
  ASSUME CallOK, SocketsNext, NEW s \in Sock, sock'[s] \in {"unmade", "making"}
  PROVE  sock[s] \in {"unmade", "making"}
<1>1. sock \in [Sock -> {"unmade", "making", "open", "closing", "closed"}]
  BY DEF CallOK
<1>2. ASSUME NEW t \in Thread, Dropped(t) PROVE sock[s] \in {"unmade", "making"}
  BY <1>1, <1>2 DEF Dropped
<1>3. CASE UNCHANGED sock
  BY <1>3
<1>4. ASSUME NEW t \in Thread,
             NewSocket(t) \/ Open(t) \/ Register(t) \/ Configure(t) \/ Dial(t)
      PROVE  sock[s] \in {"unmade", "making"}
  BY <1>1, <1>2, <1>4
  DEF NewSocket, Open, Register, Configure, Dial, sockVars
<1>5. ASSUME NEW t \in Thread,
             \/ CreateEndpoint(t) \/ DialAtOnce(t) \/ SetTls(t) \/ StartOrNot(t)
             \/ List(t)
      PROVE  sock[s] \in {"unmade", "making"}
  BY <1>1, <1>2, <1>5
  DEF CreateEndpoint, DialAtOnce, NngMakes, Raises, GivesUp, SetTls, StartOrNot, List
<1>6. ASSUME NEW t \in Thread,
             \/ StartEndpoint(t) \/ SetEndpointTls(t) \/ SetSocketTls(t)
             \/ CloseEndpoint(t) \/ Unlist(t)
             \/ LookUp(t) \/ Pop(t) \/ Clear(t)
             \/ TlsCall(t) \/ TlsGoesOn(t) \/ SubCall(t) \/ SubGoesOn(t)
      PROVE  sock[s] \in {"unmade", "making"}
  BY <1>3, <1>6
  DEF StartEndpoint, SetEndpointTls, SetSocketTls, CloseEndpoint, Unlist, LookUp,
      Pop, Clear, TlsCall, TlsGoesOn, SubCall, SubGoesOn, others, sockVars
<1>7. ASSUME NEW t \in Thread, CloseSocket(t) \/ CloseFn(t)
      PROVE  sock[s] \in {"unmade", "making"}
  BY <1>1, <1>7 DEF CloseSocket, CloseFn
<1>8. CASE DropTls \/ Import
  BY <1>3, <1>8 DEF DropTls, Import, others, sockVars
<1>9. QED
  BY <1>4, <1>5, <1>6, <1>7, <1>8 DEF SocketsNext

(* A step that changes the subscriptions is one of a call, or of the       *)
(* constructor while nobody can make one.                                  *)
LEMMA SubStep ==
  ASSUME Inv, SocketsNext
  PROVE  \/ UNCHANGED subsVars
         \/ \E t \in Thread : SubCall(t) \/ SubGoesOn(t)
         \/ /\ \A t \in Thread : IsSubIdle(t)
            /\ \E topics \in SUBSET Topic : InitTopics(topics)
<1>1. ASSUME NEW t \in Thread, Register(t)
      PROVE  \/ UNCHANGED subsVars
             \/ /\ \A u \in Thread : IsSubIdle(u)
                /\ \E topics \in SUBSET Topic : InitTopics(topics)
  <2>1. CASE at[t].s # Subscriber
    BY <1>1, <2>1 DEF Register
  <2>2. CASE at[t].s = Subscriber
    <3>1. sock[Subscriber] = "making"
      BY <1>1, <2>2 DEF Register, At, Inv, MakerOK, Making, Makes
    <3>2. \A u \in Thread : IsSubIdle(u)
      BY <3>1 DEF Inv, UnknownOK
    <3>3. \E topics \in SUBSET Topic : InitTopics(topics)
      BY <1>1, <2>2 DEF Register
    <3>4. QED
      BY <3>2, <3>3
  <2>3. QED
    BY <2>1, <2>2
<1>2. ASSUME NEW t \in Thread,
             \/ NewSocket(t) \/ Open(t) \/ Configure(t)
             \/ Dial(t) \/ CreateEndpoint(t) \/ DialAtOnce(t) \/ SetTls(t)
             \/ StartOrNot(t) \/ List(t)
      PROVE  UNCHANGED subsVars
  BY <1>2 DEF NewSocket, Open, Configure, Dial, CreateEndpoint, DialAtOnce,
              NngMakes, SetTls, StartOrNot, List
<1>3. ASSUME NEW t \in Thread,
             \/ StartEndpoint(t) \/ SetEndpointTls(t) \/ SetSocketTls(t)
             \/ CloseEndpoint(t) \/ Unlist(t)
             \/ CloseSocket(t) \/ LookUp(t) \/ Pop(t) \/ CloseFn(t) \/ Clear(t)
             \/ TlsCall(t) \/ TlsGoesOn(t)
      PROVE  UNCHANGED subsVars
  BY <1>3 DEF StartEndpoint, SetEndpointTls, SetSocketTls, CloseEndpoint, Unlist,
              CloseSocket, LookUp, Pop, CloseFn, Clear, TlsCall, TlsGoesOn
<1>4. CASE DropTls \/ Import
  BY <1>4 DEF DropTls, Import
<1>5. QED
  BY <1>1, <1>2, <1>3, <1>4 DEF SocketsNext

(* Nobody subscribes with a socket whose constructor runs.                 *)
LEMMA UnknownStep ==
  ASSUME Inv, SocketsNext PROVE UnknownOK'
<1> SUFFICES ASSUME sock'[Subscriber] \in {"unmade", "making"},
                    NEW t \in Thread
             PROVE  IsSubIdle(t)'
  BY DEF UnknownOK
<1>1. sock[Subscriber] \in {"unmade", "making"}
  BY SockAssumption, KnownStays DEF Inv
<1>2. \A u \in Thread : IsSubIdle(u)
  BY <1>1 DEF Inv, UnknownOK
<1>3. CASE UNCHANGED subsVars
  BY <1>2, <1>3 DEF subsVars, IsSubIdle
<1>4. ASSUME NEW u \in Thread, SubCall(u) \/ SubGoesOn(u) PROVE FALSE
  <2>1. ~SubCall(u)
    BY <1>1 DEF SubCall, Known
  <2>2. sub_step[u] = SubIdle /\ sub_all[u] = {} /\ sub_lock # u
    BY <1>2 DEF IsSubIdle
  <2>3. ~SubGoesOn(u)
    BY <2>2 DEF SubGoesOn, UpdateSet, UnsubscribedAll, UnsubscribeNext
  <2>4. QED
    BY <1>4, <2>1, <2>3
<1>5. ASSUME NEW topics \in SUBSET Topic, InitTopics(topics) PROVE IsSubIdle(t)'
  BY <1>2, <1>5 DEF InitTopics, IsSubIdle
<1>6. QED
  BY <1>3, <1>4, <1>5, SubStep

(* Any step of the system.                                                 *)
LEMMA InvStep == ASSUME Inv, [SocketsNext \/ AllIdle]_vars PROVE Inv'
<1>1. CASE SocketsNext
  BY <1>1, MakerStep, UnknownStep, ListedStep DEF Inv
<1>2. CASE AllIdle \/ UNCHANGED vars
  <2>1. UNCHANGED <<subsVars, sock, listed, at>>
    BY <1>2 DEF AllIdle, vars, sockVars, endpointVars
  <2>2. QED
    BY <2>1 DEF subsVars, Inv, CallOK, MakerOK, Making, UnknownOK, IsSubIdle,
                ListedOK
<1>3. QED
  BY <1>1, <1>2

(* "Return a frozenset of current subscriptions", for any number of        *)
(* threads, topics, sockets and calls, closes and failures: SetIsCurrent.  *)
THEOREM SubscriptionsCurrent == SocketsSpec => []SetIsCurrent
<1> DEFINE SubsInv == Inv /\ SubInv
<1>1. SocketsInit => SubsInv
  BY InitInv, SubInitInv DEF SocketsInit
<1>2. SubsInv /\ [SocketsNext \/ AllIdle]_vars => SubsInv'
  <2> SUFFICES ASSUME SubsInv, [SocketsNext \/ AllIdle]_vars PROVE SubsInv'
    OBVIOUS
  <2>1. Inv'
    BY InvStep
  <2>2. CASE UNCHANGED subsVars
    BY <2>1, <2>2 DEF subsVars, SubInv, SubTypeOK, OneAtATime, StepOK, SetOK, Busy
  <2>3. CASE SubNext
    BY <2>1, <2>3, SubNextInv
  <2>4. SubNext \/ UNCHANGED subsVars
    <3>1. CASE SocketsNext
      BY <3>1, SubStep DEF SubNext, SubCall, SubGoesOn
    <3>2. CASE AllIdle \/ UNCHANGED vars
      BY <3>2 DEF AllIdle, vars
    <3>3. QED
      BY <3>1, <3>2
  <2>5. QED
    BY <2>1, <2>2, <2>3, <2>4
<1>3. SubsInv => SetIsCurrent
  BY SubInvCurrent
<1>4. QED
  BY <1>1, <1>2, <1>3, PTL DEF SocketsSpec

------------------------------------------------------------------------------
(* The registry of sockets.                                                *)

Alive == {"making", "open", "closing"}

(* nng has every socket that got an id and is not closed, each under an id *)
(* of its own.                                                             *)
IdOK ==
  /\ sock_id \in [Sock -> Id \cup {Nobody}]
  /\ \A s \in Sock : sock[s] = "unmade" => sock_id[s] = Nobody
  /\ \A s \in Sock : sock[s] \in Alive /\ sock_id[s] # Nobody => sock_id[s] \in nng_open
  /\ \A s, r \in Sock :
       sock[s] \in Alive /\ sock[r] \in Alive /\ sock_id[s] = sock_id[r]
         /\ sock_id[s] # Nobody => s = r

(* An entry is of a socket that is not closed yet, under its id; an open   *)
(* socket has one.                                                         *)
EntryOK ==
  /\ handles \in [Id -> Sock \cup {Nobody}]
  /\ \A i \in Id : handles[i] # Nobody =>
       sock_id[handles[i]] = i /\ sock[handles[i]] \in Alive
  /\ \A s \in Sock : sock[s] = "open" =>
       sock_id[s] # Nobody /\ handles[sock_id[s]] = s

(* How far a call has come with the id and the entry of its socket.        *)
Phase(c, state, id, entry) ==
  /\ c.step = "open" => id[c.s] = Nobody
  /\ Makes(c) /\ c.step # "open" => id[c.s] # Nobody
  /\ Makes(c) /\ c.step \notin {"open", "register"} => entry[id[c.s]] = c.s
  /\ c.step \in {"lookup", "pop", "close_fn"} => state[c.s] = "closing"
  /\ c.step \in {"close_fn", "clear"} \/ (c.step = "pop" /\ ~c.found) =>
       \A i \in Id : entry[i] # c.s

PhaseOK == \A t \in Thread : Phase(at[t], sock, sock_id, handles)

(* One call closes a socket.                                               *)
CloserOK ==
  \A t, u \in Thread :
    Closes(at[t]) /\ Closes(at[u]) /\ at[t].s = at[u].s => t = u

RegistryInv == IdOK /\ EntryOK /\ PhaseOK /\ CloserOK

(* A socket that was not made or closed before is the business of the call *)
(* that makes or closes it.                                                *)
LEMMA Alone ==
  ASSUME CallOK, MakerOK, CloserOK, NEW t \in Thread, NEW r \in Sock,
         \/ sock[r] \in {"unmade", "open"}
         \/ at[t].s = r /\ (Makes(at[t]) \/ Closes(at[t]))
  PROVE  \A u \in Thread \ {t} : Makes(at[u]) \/ Closes(at[u]) => at[u].s # r
<1> SUFFICES ASSUME NEW u \in Thread, u # t, at[u].s = r,
                    Makes(at[u]) \/ Closes(at[u])
             PROVE  FALSE
  OBVIOUS
<1>1. /\ Makes(at[u]) => sock[r] = "making"
      /\ Closes(at[u]) => sock[r] \in {"closing", "closed"}
  BY DEF MakerOK, Making
<1>2. at[t].s = r /\ (Makes(at[t]) \/ Closes(at[t]))
  BY <1>1
<1>3. /\ Makes(at[t]) => sock[r] = "making"
      /\ Closes(at[t]) => sock[r] \in {"closing", "closed"}
  BY <1>2 DEF MakerOK, Making
<1>4. ~(Makes(at[t]) /\ Makes(at[u]))
  BY <1>2 DEF MakerOK, Making
<1>5. ~(Closes(at[t]) /\ Closes(at[u]))
  BY <1>2 DEF CloserOK
<1>6. QED
  BY <1>1, <1>2, <1>3, <1>4, <1>5

(* A step of a call on a socket that is its own preserves the invariant if *)
(* it takes neither id nor entry from another socket and leaves its own as *)
(* its phase says.                                                         *)
LEMMA OwnStep ==
  ASSUME CallOK, MakerOK, RegistryInv, NEW t \in Thread, NEW r \in Sock, NEW c,
         at' = [at EXCEPT ![t] = c],
         \/ sock[r] \in {"unmade", "open"}
         \/ at[t].s = r /\ (Makes(at[t]) \/ Closes(at[t])),
         c.step # "idle" => c.s = r,
         \A s \in Sock \ {r} : sock'[s] = sock[s] /\ sock_id'[s] = sock_id[s],
         sock_id' \in [Sock -> Id \cup {Nobody}],
         handles' \in [Id -> Sock \cup {Nobody}],
         \A i \in Id : \/ handles'[i] = handles[i]
                       \/ handles[i] \in {r, Nobody} /\ handles'[i] \in {r, Nobody},
         \A s \in Sock \ {r} : sock[s] \in Alive /\ sock_id[s] # Nobody =>
                                 sock_id[s] \in nng_open',
         sock'[r] = "unmade" => sock_id'[r] = Nobody,
         sock'[r] \in Alive /\ sock_id'[r] # Nobody =>
           /\ sock_id'[r] \in nng_open'
           /\ \A s \in Sock \ {r} : sock[s] \in Alive => sock_id[s] # sock_id'[r],
         \A i \in Id : handles'[i] = r => sock_id'[r] = i /\ sock'[r] \in Alive,
         sock'[r] = "open" => sock_id'[r] # Nobody /\ handles'[sock_id'[r]] = r,
         Phase(c, sock', sock_id', handles')
  PROVE  RegistryInv'
<1>1. \A u \in Thread \ {t} : Makes(at[u]) \/ Closes(at[u]) => at[u].s # r
  BY Alone DEF RegistryInv
<1>2. /\ at'[t] = c
      /\ \A u \in Thread \ {t} : at'[u] = at[u]
  BY DEF CallOK
<1>3. Nobody \notin Sock /\ Nobody \notin Id
  BY SockAssumption
<1>4. IdOK'
  <2>1. \A s \in Sock : sock'[s] = "unmade" => sock_id'[s] = Nobody
    BY DEF RegistryInv, IdOK
  <2>2. \A s \in Sock : sock'[s] \in Alive /\ sock_id'[s] # Nobody =>
                          sock_id'[s] \in nng_open'
    BY DEF RegistryInv, IdOK
  <2>3. ASSUME NEW s \in Sock, NEW q \in Sock, sock'[s] \in Alive, sock'[q] \in Alive,
               sock_id'[s] = sock_id'[q], sock_id'[s] # Nobody
        PROVE  s = q
    <3>1. CASE s = r \/ q = r
      BY <2>3, <3>1
    <3>2. CASE s # r /\ q # r
      BY <2>3, <3>2 DEF RegistryInv, IdOK
    <3>3. QED
      BY <3>1, <3>2
  <2>4. QED
    BY <2>1, <2>2, <2>3 DEF IdOK
<1>5. EntryOK'
  <2>1. ASSUME NEW i \in Id, handles'[i] # Nobody
        PROVE  sock_id'[handles'[i]] = i /\ sock'[handles'[i]] \in Alive
    <3>1. CASE handles'[i] = r
      BY <3>1
    <3>2. CASE handles'[i] # r
      <4>1. handles'[i] = handles[i] /\ handles[i] \in Sock \ {r}
        BY <2>1, <3>2 DEF RegistryInv, EntryOK
      <4>2. QED
        BY <2>1, <4>1 DEF RegistryInv, EntryOK
    <3>3. QED
      BY <3>1, <3>2
  <2>2. ASSUME NEW s \in Sock, sock'[s] = "open"
        PROVE  sock_id'[s] # Nobody /\ handles'[sock_id'[s]] = s
    <3>1. CASE s = r
      BY <2>2, <3>1
    <3>2. CASE s # r
      <4>1. sock_id'[s] # Nobody /\ sock_id'[s] = sock_id[s] /\ handles[sock_id[s]] = s
        BY <2>2, <3>2 DEF RegistryInv, EntryOK
      <4>2. sock_id[s] \in Id
        BY <4>1
      <4>3. handles'[sock_id[s]] = s
        BY <1>3, <3>2, <4>1, <4>2
      <4>4. QED
        BY <4>1, <4>3
    <3>3. QED
      BY <3>1, <3>2
  <2>3. QED
    BY <2>1, <2>2 DEF EntryOK
<1>6. ASSUME NEW u \in Thread PROVE Phase(at'[u], sock', sock_id', handles')
  <2>1. CASE u = t
    BY <1>2, <2>1
  <2>2. CASE u # t /\ ~Makes(at[u]) /\ ~Closes(at[u])
    BY <1>2, <2>2 DEF Phase, Makes, Closes
  <2>3. CASE u # t /\ (Makes(at[u]) \/ Closes(at[u]))
    <3>1. at'[u] = at[u] /\ at[u].s \in Sock \ {r}
      BY <1>1, <1>2, <2>3 DEF CallOK, Makes, Closes
    <3> DEFINE s == at[u].s
    <3>2. sock'[s] = sock[s] /\ sock_id'[s] = sock_id[s] /\ s # Nobody
      BY <1>3, <3>1
    <3>3. \A i \in Id : handles[i] = s <=> handles'[i] = s
      BY <3>1, <3>2
    <3>4. sock_id[s] # Nobody => sock_id[s] \in Id
      BY <3>1, <3>2
    <3>5. Phase(at[u], sock, sock_id, handles)
      BY DEF RegistryInv, PhaseOK
    <3>6. QED
      BY <3>1, <3>2, <3>3, <3>4, <3>5 DEF Phase
  <2>4. QED
    BY <2>1, <2>2, <2>3
<1>7. CloserOK'
  BY <1>1, <1>2 DEF RegistryInv, CloserOK, Closes
<1>8. QED
  BY <1>4, <1>5, <1>6, <1>7 DEF RegistryInv, PhaseOK

(* A step of a call on a socket that is its own, which keeps its id and    *)
(* its entry.                                                              *)
LEMMA OwnMove ==
  ASSUME CallOK, MakerOK, RegistryInv, NEW t \in Thread, NEW r \in Sock, NEW c,
         at' = [at EXCEPT ![t] = c], c.step # "idle" => c.s = r,
         \/ sock[r] = "open"
         \/ at[t].s = r /\ (Makes(at[t]) \/ Closes(at[t])),
         sock[r] \in Alive, sock'[r] \in Alive,
         \A s \in Sock \ {r} : sock'[s] = sock[s],
         UNCHANGED <<sock_id, nng_open, handles>>,
         sock'[r] = "open" => sock_id[r] # Nobody /\ handles[sock_id[r]] = r,
         Phase(c, sock', sock_id, handles)
  PROVE  RegistryInv'
<1>1. IdOK /\ EntryOK
  BY DEF RegistryInv
<1>2. /\ \A s \in Sock \ {r} : sock'[s] = sock[s] /\ sock_id'[s] = sock_id[s]
      /\ sock_id' \in [Sock -> Id \cup {Nobody}]
      /\ handles' \in [Id -> Sock \cup {Nobody}]
      /\ \A i \in Id : handles'[i] = handles[i]
      /\ Phase(c, sock', sock_id', handles')
  BY <1>1 DEF IdOK, EntryOK
<1>3. \A s \in Sock \ {r} : sock[s] \in Alive /\ sock_id[s] # Nobody =>
                              sock_id[s] \in nng_open'
  BY <1>1 DEF IdOK
<1>4. sock_id'[r] # Nobody =>
        /\ sock_id'[r] \in nng_open'
        /\ \A s \in Sock \ {r} : sock[s] \in Alive => sock_id[s] # sock_id'[r]
  BY <1>1 DEF IdOK
<1>5. \A i \in Id : handles'[i] = r => sock_id'[r] = i /\ sock'[r] \in Alive
  BY <1>1, SockAssumption DEF EntryOK
<1>6. /\ sock'[r] # "unmade"
      /\ sock'[r] = "open" => sock_id'[r] # Nobody /\ handles'[sock_id'[r]] = r
  BY DEF Alive
<1>7. \/ sock[r] \in {"unmade", "open"}
      \/ at[t].s = r /\ (Makes(at[t]) \/ Closes(at[t]))
  OBVIOUS
<1>8. QED
  BY <1>2, <1>3, <1>4, <1>5, <1>6, <1>7, OwnStep

(* A step of a call that neither makes nor closes a socket.                *)
LEMMA QuietStep ==
  ASSUME CallOK, RegistryInv, NEW t \in Thread, NEW c,
         at' = [at EXCEPT ![t] = c], ~Makes(c), ~Closes(c),
         UNCHANGED <<sock, sock_id, nng_open, handles>>
  PROVE  RegistryInv'
<1>1. IdOK' /\ EntryOK'
  BY DEF RegistryInv, IdOK, EntryOK
<1>2. /\ at'[t] = c
      /\ \A u \in Thread \ {t} : at'[u] = at[u]
  BY DEF CallOK
<1>3. Phase(c, sock, sock_id, handles)
  BY DEF Phase, Makes, Closes
<1>4. PhaseOK'
  BY <1>2, <1>3 DEF RegistryInv, PhaseOK
<1>5. CloserOK'
  BY <1>2 DEF RegistryInv, CloserOK
<1>6. QED
  BY <1>1, <1>4, <1>5 DEF RegistryInv

(* A call makes its socket known by one more step, with the id and the     *)
(* entry that the socket has.                                              *)
LEMMA EndpointMoves ==
  ASSUME CallOK, MakerOK, RegistryInv, NEW t \in Thread, NEW c,
         at' = [at EXCEPT ![t] = c],
         at[t].step \in {"configure", "endpoint", "set_tls", "start_or_not", "list"},
         c.step \in {"endpoint", "set_tls", "start_or_not", "list"},
         c.s = at[t].s, c.new = at[t].new,
         UNCHANGED <<sock, sock_id, nng_open, handles>>
  PROVE  RegistryInv'
<1>1. ~Closes(c)
  BY DEF Closes
<1>2. CASE ~Makes(c)
  BY <1>1, <1>2, QuietStep
<1>3. CASE Makes(c)
  <2> DEFINE r == at[t].s
  <2>1. Makes(at[t]) /\ r \in Sock /\ sock[r] = "making"
    BY <1>3 DEF Makes, CallOK, MakerOK, Making
  <2>2. Phase(at[t], sock, sock_id, handles)
    BY DEF RegistryInv, PhaseOK
  <2>3. sock_id[r] # Nobody /\ handles[sock_id[r]] = r
    BY <2>1, <2>2 DEF Phase
  <2>4. Phase(c, sock, sock_id, handles) /\ sock[r] \in Alive
    BY <2>1, <2>3 DEF Phase, Alive
  <2>5. QED
    BY <2>1, <2>3, <2>4, OwnMove
<1>4. QED
  BY <1>2, <1>3

(* The constructor raises, and leaves id and entry to _do_close.           *)
LEMMA DropsEntry ==
  ASSUME CallOK, MakerOK, RegistryInv, NEW t \in Thread, Making(t), Dropped(t),
         UNCHANGED <<sock_id, nng_open, handles>>
  PROVE  RegistryInv'
<1> DEFINE c == [at[t] EXCEPT !.step = "lookup"]
           r == at[t].s
<1>1. /\ at[t] \in CallType /\ r \in Sock /\ at \in [Thread -> CallType]
      /\ sock \in [Sock -> {"unmade", "making", "open", "closing", "closed"}]
      /\ Makes(at[t]) /\ sock[r] = "making"
  BY DEF CallOK, MakerOK, Making, Makes
<1>2. c.s = r /\ c.step = "lookup"
  BY <1>1 DEF CallType
<1>3. at' = [at EXCEPT ![t] = c] /\ sock' = [sock EXCEPT ![r] = "closing"]
  BY <1>1 DEF Dropped, Goes
<1> HIDE DEF c
<1>4. sock'[r] = "closing" /\ \A s \in Sock \ {r} : sock'[s] = sock[s]
  BY <1>1, <1>3
<1>5. /\ Phase(c, sock', sock_id, handles)
      /\ sock[r] \in Alive /\ sock'[r] \in Alive /\ sock'[r] # "open"
  BY <1>1, <1>2, <1>4 DEF Phase, Makes, Alive
<1>6. QED
  BY <1>1, <1>2, <1>3, <1>4, <1>5, OwnMove

(* dial or listen raises.                                                  *)
LEMMA RaisesEntry ==
  ASSUME CallOK, MakerOK, RegistryInv, NEW t \in Thread, Raises(t),
         at[t].step \in {"endpoint", "set_tls", "start_or_not", "list"},
         UNCHANGED <<sock_id, nng_open, handles>>
  PROVE  RegistryInv'
<1>1. CASE at[t].new
  BY <1>1, DropsEntry DEF Raises, Making, Makes
<1>2. CASE ~at[t].new
  <2>1. ~Makes(Idle) /\ ~Closes(Idle)
    BY DEF Idle, Makes, Closes
  <2>2. QED
    BY <1>2, <2>1, QuietStep DEF Raises, Returns
<1>3. QED
  BY <1>1, <1>2

(* The constructor returns with an open socket, which has its entry.       *)
LEMMA OpensEntry ==
  ASSUME CallOK, MakerOK, RegistryInv, NEW t \in Thread, Making(t), Returns(t),
         at[t].step \notin {"open", "register"},
         sock' = [sock EXCEPT ![at[t].s] = "open"],
         UNCHANGED <<sock_id, nng_open, handles>>
  PROVE  RegistryInv'
<1> DEFINE r == at[t].s
<1>1. /\ r \in Sock /\ Makes(at[t]) /\ sock[r] = "making"
      /\ sock \in [Sock -> {"unmade", "making", "open", "closing", "closed"}]
  BY DEF CallOK, MakerOK, Making, Makes
<1>2. sock'[r] = "open" /\ \A s \in Sock \ {r} : sock'[s] = sock[s]
  BY <1>1
<1>3. Phase(Idle, sock', sock_id, handles) /\ Idle.step = "idle"
  BY DEF Phase, Makes, Idle
<1>4. Phase(at[t], sock, sock_id, handles)
  BY DEF RegistryInv, PhaseOK
<1>5. sock_id[r] # Nobody /\ handles[sock_id[r]] = r
  BY <1>1, <1>4 DEF Phase
<1>6. sock[r] \in Alive /\ sock'[r] \in Alive /\ at' = [at EXCEPT ![t] = Idle]
  BY <1>1, <1>2 DEF Alive, Returns
<1>7. QED
  BY <1>1, <1>2, <1>3, <1>5, <1>6, OwnMove

(* A socket that is made has no id and no entry.                           *)
LEMMA NewEntry ==
  ASSUME CallOK, MakerOK, RegistryInv, NEW t \in Thread, NewSocket(t)
  PROVE  RegistryInv'
<1>1. PICK r \in Sock, tls \in {"none", "default"}, dials \in {0, 1, 2} :
        /\ sock[r] = "unmade"
        /\ Calls(t, [Call("open", r) EXCEPT !.tls = tls, !.new = TRUE, !.dials = dials])
        /\ sock' = [sock EXCEPT ![r] = "making"]
  BY DEF NewSocket
<1> DEFINE c == [Call("open", r) EXCEPT !.tls = tls, !.new = TRUE, !.dials = dials]
<1>2. /\ Call("open", r) \in CallType /\ Call("open", r).s = r
      /\ Call("open", r).step = "open"
  BY CallRecord
<1>3. c.s = r /\ c.step = "open"
  BY <1>2 DEF CallType
<1> HIDE DEF c
<1>4. at' = [at EXCEPT ![t] = c]
  BY <1>1 DEF Calls, c
<1>5. sock'[r] = "making" /\ \A s \in Sock \ {r} : sock'[s] = sock[s]
  BY <1>1 DEF CallOK
<1>6. UNCHANGED <<sock_id, nng_open, handles>>
  BY DEF NewSocket
<1>7. IdOK /\ EntryOK
  BY DEF RegistryInv
<1>8. /\ sock_id[r] = Nobody
      /\ \A i \in Id : handles[i] # r
      /\ \A s \in Sock \ {r} : sock[s] \in Alive /\ sock_id[s] # Nobody =>
                                 sock_id[s] \in nng_open
      /\ sock_id \in [Sock -> Id \cup {Nobody}]
      /\ handles \in [Id -> Sock \cup {Nobody}]
  BY <1>1, <1>7, SockAssumption DEF IdOK, EntryOK, Alive
<1>9. Phase(c, sock', sock_id', handles')
  BY <1>3, <1>6, <1>8 DEF Phase
<1>10. \A i \in Id : handles'[i] = handles[i] /\ handles'[i] # r
  BY <1>6, <1>8
<1>11. sock_id'[r] = Nobody /\ sock'[r] # "open" /\ sock'[r] # "unmade"
  BY <1>5, <1>6, <1>8
<1>12. \A s \in Sock \ {r} : sock'[s] = sock[s] /\ sock_id'[s] = sock_id[s]
  BY <1>5, <1>6
<1>13. /\ sock_id' \in [Sock -> Id \cup {Nobody}]
       /\ handles' \in [Id -> Sock \cup {Nobody}]
       /\ \A s \in Sock \ {r} : sock[s] \in Alive /\ sock_id[s] # Nobody =>
                                  sock_id[s] \in nng_open'
       /\ sock[r] \in {"unmade", "open"}
  BY <1>1, <1>6, <1>8
<1>14. QED
  BY <1>3, <1>4, <1>9, <1>10, <1>11, <1>12, <1>13, OwnStep

(* nng gives the socket an id that no socket it still has is known by.     *)
LEMMA OpenEntry ==
  ASSUME CallOK, MakerOK, RegistryInv, NEW t \in Thread, Open(t)
  PROVE  RegistryInv'
<1> DEFINE r == at[t].s
<1>1. /\ at[t] \in CallType /\ r \in Sock /\ at \in [Thread -> CallType]
      /\ sock \in [Sock -> {"unmade", "making", "open", "closing", "closed"}]
      /\ Makes(at[t]) /\ sock[r] = "making" /\ at[t].step = "open"
  BY DEF CallOK, MakerOK, Making, Makes, Open, At
<1>2. Phase(at[t], sock, sock_id, handles) /\ IdOK /\ EntryOK
  BY DEF RegistryInv, PhaseOK
<1>3. sock_id[r] = Nobody
  BY <1>1, <1>2 DEF Phase
<1>4. UNCHANGED handles
  BY DEF Open
<1>5. CASE Dropped(t) /\ UNCHANGED <<nng_open, sock_id>>
  BY <1>1, <1>4, <1>5, DropsEntry DEF Making
<1>6. ASSUME NEW i \in Id \ nng_open, NEW step \in {"register", "lookup"},
             nng_open' = nng_open \cup {i}, sock_id' = [sock_id EXCEPT ![r] = i],
             Goes(t, step),
             sock' = IF step = "lookup" THEN [sock EXCEPT ![r] = "closing"] ELSE sock
      PROVE  RegistryInv'
  <2> DEFINE c == [at[t] EXCEPT !.step = step]
  <2>1. c.s = r /\ c.step = step
    BY <1>1 DEF CallType
  <2>2. at' = [at EXCEPT ![t] = c]
    BY <1>1, <1>6 DEF Goes
  <2> HIDE DEF c
  <2>3. /\ sock'[r] = (IF step = "lookup" THEN "closing" ELSE "making")
        /\ \A s \in Sock \ {r} : sock'[s] = sock[s]
    BY <1>1, <1>6
  <2>4. /\ sock_id \in [Sock -> Id \cup {Nobody}]
        /\ handles \in [Id -> Sock \cup {Nobody}]
        /\ i # Nobody
    BY <1>2, SockAssumption DEF IdOK, EntryOK
  <2>5. /\ sock_id'[r] = i
        /\ \A s \in Sock \ {r} : sock_id'[s] = sock_id[s]
        /\ sock_id' \in [Sock -> Id \cup {Nobody}]
    BY <1>1, <1>6, <2>4
  <2>6. \A j \in Id : handles[j] # r
    BY <1>1, <1>2, <1>3, SockAssumption DEF EntryOK
  <2>7. \A s \in Sock \ {r} : sock[s] \in Alive =>
           /\ sock_id[s] # i
           /\ sock_id[s] # Nobody => sock_id[s] \in nng_open'
    BY <1>2, <1>6, <2>4 DEF IdOK
  <2>8. Phase(c, sock', sock_id', handles')
    BY <2>1, <2>3, <2>4, <2>5 DEF Phase, Makes
  <2>9. i \in nng_open'
    BY <1>6
  <2>10. \A s \in Sock \ {r} : sock'[s] = sock[s] /\ sock_id'[s] = sock_id[s]
    BY <2>3, <2>5
  <2>11. sock'[r] # "open" /\ sock'[r] # "unmade"
    BY <2>3
  <2>12. \A s \in Sock \ {r} : sock[s] \in Alive => sock_id[s] # sock_id'[r]
    BY <2>5, <2>7
  <2>13. \A j \in Id : handles'[j] = handles[j] /\ handles'[j] # r
    BY <1>4, <2>6
  <2>14. at[t].s = r
    OBVIOUS
  <2> HIDE DEF r
  <2>15. QED
    BY <1>1, <1>4, <2>1, <2>2, <2>4, <2>5, <2>7, <2>8, <2>9, <2>10, <2>11, <2>12,
       <2>13, <2>14, OwnStep
<1>7. ASSUME NEW i \in Id \ nng_open,
             nng_open' = nng_open \cup {i}, sock_id' = [sock_id EXCEPT ![r] = i],
             (Goes(t, "register") /\ UNCHANGED sock) \/ Dropped(t)
      PROVE  RegistryInv'
  <2>1. CASE Goes(t, "register") /\ UNCHANGED sock
    BY <1>6, <1>7, <2>1
  <2>2. CASE Dropped(t)
    BY <1>6, <1>7, <2>2 DEF Dropped
  <2>3. QED
    BY <1>7, <2>1, <2>2
<1>8. QED
  BY <1>5, <1>7 DEF Open

(* The entry goes where no socket but this one can have one.               *)
LEMMA RegisterEntry ==
  ASSUME CallOK, MakerOK, RegistryInv, NEW t \in Thread, Register(t)
  PROVE  RegistryInv'
<1> DEFINE r == at[t].s
<1>1. /\ at[t] \in CallType /\ r \in Sock /\ at \in [Thread -> CallType]
      /\ sock \in [Sock -> {"unmade", "making", "open", "closing", "closed"}]
      /\ Makes(at[t]) /\ sock[r] = "making" /\ at[t].step = "register"
  BY DEF CallOK, MakerOK, Making, Makes, Register, At
<1>2. Phase(at[t], sock, sock_id, handles) /\ IdOK /\ EntryOK
  BY DEF RegistryInv, PhaseOK
<1>3. /\ sock_id \in [Sock -> Id \cup {Nobody}]
      /\ handles \in [Id -> Sock \cup {Nobody}]
      /\ sock_id[r] # Nobody /\ sock_id[r] \in Id /\ r # Nobody
  BY <1>1, <1>2, SockAssumption DEF Phase, IdOK, EntryOK
<1> DEFINE i == sock_id[r]
<1>4. handles[i] \in {r, Nobody}
  BY <1>1, <1>2, <1>3 DEF IdOK, EntryOK, Alive
<1>5. UNCHANGED <<sock_id, nng_open>> /\ handles' = [handles EXCEPT ![i] = r]
  BY DEF Register
<1>6. /\ handles'[i] = r /\ handles' \in [Id -> Sock \cup {Nobody}]
      /\ \A j \in Id \ {i} : handles'[j] = handles[j]
  BY <1>1, <1>3, <1>5
<1>7. \A j \in Id : handles'[j] = r => j = i
  BY <1>2, <1>3, <1>6 DEF EntryOK
<1>8. /\ i \in nng_open
      /\ \A s \in Sock \ {r} : sock[s] \in Alive =>
           sock_id[s] # i /\ (sock_id[s] # Nobody => sock_id[s] \in nng_open)
  BY <1>1, <1>2, <1>3 DEF IdOK, Alive
<1>9. ASSUME NEW step \in {"configure", "lookup"}, Goes(t, step),
             sock' = IF step = "lookup" THEN [sock EXCEPT ![r] = "closing"] ELSE sock
      PROVE  RegistryInv'
  <2> DEFINE c == [at[t] EXCEPT !.step = step]
  <2>1. c.s = r /\ c.step = step
    BY <1>1 DEF CallType
  <2>2. at' = [at EXCEPT ![t] = c]
    BY <1>1, <1>9 DEF Goes
  <2> HIDE DEF c
  <2>3. /\ sock'[r] = (IF step = "lookup" THEN "closing" ELSE "making")
        /\ \A s \in Sock \ {r} : sock'[s] = sock[s]
    BY <1>1, <1>9
  <2>4. Phase(c, sock', sock_id', handles')
    BY <1>3, <1>5, <1>6, <2>1, <2>3 DEF Phase
  <2>5. \A s \in Sock \ {r} : sock'[s] = sock[s] /\ sock_id'[s] = sock_id[s]
    BY <1>5, <2>3
  <2>6. sock'[r] # "open" /\ sock'[r] # "unmade" /\ sock'[r] \in Alive
    BY <2>3 DEF Alive
  <2>7. ASSUME NEW j \in Id
        PROVE  \/ handles'[j] = handles[j]
               \/ handles[j] \in {r, Nobody} /\ handles'[j] \in {r, Nobody}
    <3>1. CASE j = i
      BY <1>4, <1>6, <3>1
    <3>2. CASE j # i
      BY <1>6, <3>2
    <3>3. QED
      BY <3>1, <3>2
  <2>8. /\ sock_id' \in [Sock -> Id \cup {Nobody}]
        /\ sock_id'[r] = i /\ i \in nng_open'
        /\ \A s \in Sock \ {r} : sock[s] \in Alive =>
             sock_id[s] # sock_id'[r]
        /\ \A s \in Sock \ {r} : sock[s] \in Alive /\ sock_id[s] # Nobody =>
             sock_id[s] \in nng_open'
    BY <1>3, <1>5, <1>8
  <2>9. \A j \in Id : handles'[j] = r => sock_id'[r] = j /\ sock'[r] \in Alive
    BY <1>7, <2>6, <2>8
  <2>10. handles' \in [Id -> Sock \cup {Nobody}]
    BY <1>6
  <2>11. at[t].s = r
    OBVIOUS
  <2> HIDE DEF r, i
  <2>12. QED
    BY <1>1, <2>1, <2>2, <2>4, <2>5, <2>6, <2>7, <2>8, <2>9, <2>10, <2>11, OwnStep
<1>10. CASE Goes(t, "configure") /\ UNCHANGED sock
  BY <1>9, <1>10
<1>11. CASE Dropped(t)
  BY <1>9, <1>11 DEF Dropped
<1>12. QED
  BY <1>10, <1>11 DEF Register

(* The call that closes a socket takes away its entry before nng may give  *)
(* its id to another one.                                                  *)
LEMMA CloseEntry ==
  ASSUME CallOK, MakerOK, RegistryInv, NEW t \in Thread,
         CloseSocket(t) \/ LookUp(t) \/ Pop(t) \/ CloseFn(t) \/ Clear(t)
  PROVE  RegistryInv'
<1>1. /\ at[t] \in CallType /\ at \in [Thread -> CallType]
      /\ sock \in [Sock -> {"unmade", "making", "open", "closing", "closed"}]
  BY DEF CallOK
<1>2. /\ Phase(at[t], sock, sock_id, handles)
      /\ sock_id \in [Sock -> Id \cup {Nobody}]
      /\ handles \in [Id -> Sock \cup {Nobody}]
  BY DEF RegistryInv, PhaseOK, IdOK, EntryOK
<1>3. ASSUME NEW r \in Sock, sock[r] \in Alive
      PROVE  /\ sock_id[r] # Nobody =>
                  /\ sock_id[r] \in nng_open
                  /\ \A s \in Sock \ {r} : sock[s] \in Alive => sock_id[s] # sock_id[r]
             /\ \A i \in Id : handles[i] = r => sock_id[r] = i
             /\ \A s \in Sock : sock[s] \in Alive /\ sock_id[s] # Nobody =>
                                  sock_id[s] \in nng_open
  BY <1>3, SockAssumption DEF RegistryInv, IdOK, EntryOK
<1>4. CASE CloseSocket(t)
  <2>1. PICK r \in Sock : /\ sock[r] = "open"
                          /\ Calls(t, Call("lookup", r))
                          /\ sock' = [sock EXCEPT ![r] = "closing"]
    BY <1>4 DEF CloseSocket
  <2> DEFINE c == Call("lookup", r)
  <2>2. c.s = r /\ c.step = "lookup"
    BY CallRecord
  <2>3. at' = [at EXCEPT ![t] = c]
    BY <2>1 DEF Calls
  <2> HIDE DEF c
  <2>4. /\ sock'[r] = "closing" /\ \A s \in Sock \ {r} : sock'[s] = sock[s]
        /\ sock[r] \in Alive /\ sock'[r] \in Alive
    BY <1>1, <2>1 DEF Alive
  <2>5. UNCHANGED <<sock_id, nng_open, handles>>
    BY <1>4 DEF CloseSocket
  <2>6. Phase(c, sock', sock_id, handles)
    BY <2>2, <2>4 DEF Phase, Makes
  <2>7. QED
    BY <2>1, <2>2, <2>3, <2>4, <2>5, <2>6, OwnMove
<1>5. CASE LookUp(t)
  <2> DEFINE r == at[t].s
             h == IF sock_id[r] = Nobody THEN Nobody ELSE handles[sock_id[r]]
             found == h = r \/ h \in finalized
             c == [at[t] EXCEPT !.step = "pop", !.found = found]
  <2>1. r \in Sock /\ at[t].step = "lookup" /\ Closes(at[t])
    BY <1>5 DEF LookUp, At, CallOK, Closes
  <2>2. c.s = r /\ c.step = "pop" /\ c.found = found
    BY <1>1 DEF CallType
  <2>3. at' = [at EXCEPT ![t] = c]
    BY <1>1, <1>5 DEF LookUp, After
  <2>4. UNCHANGED <<sock, sock_id, nng_open, handles>>
    BY <1>5 DEF LookUp, sockVars
  <2>5. sock[r] = "closing" /\ sock[r] \in Alive
    BY <1>2, <2>1 DEF Phase, Alive
  <2>6. ASSUME ~found, NEW i \in Id PROVE handles[i] # r
    <3>1. SUFFICES ASSUME handles[i] = r PROVE FALSE
      OBVIOUS
    <3>2. sock_id[r] = i /\ i # Nobody
      BY <1>3, <2>1, <2>5, <3>1, SockAssumption
    <3>3. QED
      BY <2>6, <3>1, <3>2
  <2> HIDE DEF c, found
  <2>7. Phase(c, sock, sock_id, handles)
    BY <2>2, <2>5, <2>6 DEF Phase, Makes
  <2>8. QED
    BY <2>1, <2>2, <2>3, <2>4, <2>5, <2>7, OwnMove
<1>6. CASE Pop(t)
  <2> DEFINE r == at[t].s
             i == sock_id[r]
             c == [at[t] EXCEPT !.step = "close_fn"]
  <2>1. r \in Sock /\ at[t].step = "pop" /\ Closes(at[t])
    BY <1>6 DEF Pop, At, CallOK, Closes
  <2>2. c.s = r /\ c.step = "close_fn"
    BY <1>1 DEF CallType
  <2>3. at' = [at EXCEPT ![t] = c]
    BY <1>1, <1>6 DEF Pop, Goes, After
  <2>4. UNCHANGED <<sock, sock_id, nng_open>>
    BY <1>6 DEF Pop
  <2>5. sock[r] = "closing" /\ sock[r] \in Alive
    BY <1>2, <2>1 DEF Phase, Alive
  <2>6. /\ handles' \in [Id -> Sock \cup {Nobody}]
        /\ \A j \in Id : handles'[j] # r
        /\ \A j \in Id : \/ handles'[j] = handles[j]
                         \/ handles[j] \in {r, Nobody} /\ handles'[j] \in {r, Nobody}
    <3>1. CASE ~at[t].found \/ i = Nobody
      <4>1. handles' = handles
        BY <1>2, <1>6, <3>1, SockAssumption DEF Pop
      <4>2. \A j \in Id : handles[j] # r
        <5>1. CASE ~at[t].found
          BY <1>2, <2>1, <5>1 DEF Phase
        <5>2. CASE i = Nobody
          BY <1>3, <2>1, <2>5, <5>2, SockAssumption
        <5>3. QED
          BY <3>1, <5>1, <5>2
      <4>3. QED
        BY <1>2, <4>1, <4>2
    <3>2. CASE at[t].found /\ i # Nobody
      <4>1. i \in Id /\ handles' = [handles EXCEPT ![i] = Nobody]
        BY <1>2, <1>6, <2>1, <3>2 DEF Pop
      <4>2. handles[i] \in {r, Nobody}
        <5> SUFFICES ASSUME handles[i] # Nobody PROVE handles[i] = r
          OBVIOUS
        <5>1. /\ handles[i] \in Sock
              /\ sock_id[handles[i]] = i /\ sock[handles[i]] \in Alive
          BY <1>2, <4>1 DEF RegistryInv, EntryOK
        <5>2. QED
          BY <2>1, <2>5, <3>2, <5>1 DEF RegistryInv, IdOK
      <4>3. \A j \in Id : handles[j] = r => j = i
        BY <1>3, <2>1, <2>5
      <4>4. r # Nobody
        BY <2>1, SockAssumption
      <4>5. /\ handles'[i] = Nobody
            /\ \A j \in Id \ {i} : handles'[j] = handles[j]
            /\ handles' \in [Id -> Sock \cup {Nobody}]
        BY <1>2, <4>1
      <4>6. ASSUME NEW j \in Id
            PROVE  /\ handles'[j] # r
                   /\ \/ handles'[j] = handles[j]
                      \/ handles[j] \in {r, Nobody} /\ handles'[j] \in {r, Nobody}
        <5>1. CASE j = i
          BY <4>2, <4>4, <4>5, <5>1
        <5>2. CASE j # i
          BY <4>3, <4>5, <5>2
        <5>3. QED
          BY <5>1, <5>2
      <4>7. QED
        BY <4>5, <4>6
    <3>3. QED
      BY <3>1, <3>2
  <2> HIDE DEF c
  <2>7. Phase(c, sock', sock_id', handles')
    BY <2>2, <2>4, <2>5, <2>6 DEF Phase, Makes
  <2>8. at[t].s = r
    OBVIOUS
  <2> HIDE DEF r, i
  <2>9. QED
    BY <1>2, <1>3, <2>1, <2>2, <2>3, <2>4, <2>5, <2>6, <2>7, <2>8, OwnStep
<1>7. CASE CloseFn(t)
  <2> DEFINE r == at[t].s
             c == [at[t] EXCEPT !.step = "clear"]
  <2>1. r \in Sock /\ at[t].step = "close_fn" /\ Closes(at[t])
    BY <1>7 DEF CloseFn, At, CallOK, Closes
  <2>2. c.s = r /\ c.step = "clear"
    BY <1>1 DEF CallType
  <2>3. at' = [at EXCEPT ![t] = c]
    BY <1>1, <1>7 DEF CloseFn, Goes, After
  <2>4. UNCHANGED <<sock_id, handles>> /\ nng_open' = nng_open \ {sock_id[r]}
    BY <1>7 DEF CloseFn
  <2>5. sock[r] \in Alive /\ \A j \in Id : handles[j] # r
    BY <1>2, <2>1 DEF Phase, Alive
  <2>6. /\ sock'[r] = "closed" /\ sock'[r] \notin Alive
        /\ \A s \in Sock \ {r} : sock'[s] = sock[s]
    BY <1>1, <1>7, <2>1 DEF CloseFn, Alive
  <2>7. \A s \in Sock \ {r} : sock[s] \in Alive /\ sock_id[s] # Nobody =>
          sock_id[s] \in nng_open'
    BY <2>1, <2>4, <2>5 DEF RegistryInv, IdOK
  <2> HIDE DEF c
  <2>8. Phase(c, sock', sock_id', handles')
    BY <2>2, <2>4, <2>5 DEF Phase, Makes
  <2>9. /\ \A s \in Sock \ {r} : sock'[s] = sock[s] /\ sock_id'[s] = sock_id[s]
        /\ sock_id' \in [Sock -> Id \cup {Nobody}]
        /\ handles' \in [Id -> Sock \cup {Nobody}]
        /\ \A i \in Id : handles'[i] = handles[i] /\ handles'[i] # r
        /\ sock'[r] # "unmade" /\ sock'[r] # "open"
    BY <1>2, <2>4, <2>5, <2>6
  <2>10. QED
    BY <2>1, <2>2, <2>3, <2>6, <2>7, <2>8, <2>9, OwnStep
<1>8. CASE Clear(t)
  <2>1. ~Makes(Idle) /\ ~Closes(Idle)
    BY DEF Idle, Makes, Closes
  <2>2. QED
    BY <1>8, <2>1, QuietStep DEF Clear, Returns, sockVars
<1>9. QED
  BY <1>4, <1>5, <1>6, <1>7, <1>8

(* A step of the constructor, or of dial and listen.                       *)
LEMMA MakingEntry ==
  ASSUME CallOK, MakerOK, RegistryInv, NEW t \in Thread,
         \/ NewSocket(t) \/ Open(t) \/ Register(t) \/ Configure(t)
         \/ Dial(t) \/ CreateEndpoint(t) \/ DialAtOnce(t) \/ SetTls(t)
         \/ StartOrNot(t) \/ List(t)
  PROVE  RegistryInv'
<1>1. at[t] \in CallType /\ at \in [Thread -> CallType]
  BY DEF CallOK
<1>2. ASSUME NEW x \in {"endpoint", "set_tls", "start_or_not", "list"},
             Goes(t, x), UNCHANGED <<sock, sock_id, nng_open, handles>>,
             at[t].step \in {"configure", "endpoint", "set_tls", "start_or_not", "list"}
      PROVE  RegistryInv'
  <2> DEFINE c == [at[t] EXCEPT !.step = x]
  <2>1. c.step = x /\ c.s = at[t].s /\ c.new = at[t].new
    BY <1>1 DEF CallType
  <2>2. at' = [at EXCEPT ![t] = c]
    BY <1>1, <1>2 DEF Goes
  <2> HIDE DEF c
  <2>3. QED
    BY <1>2, <2>1, <2>2, EndpointMoves
<1>3. CASE NewSocket(t) \/ Open(t) \/ Register(t)
  BY <1>3, NewEntry, OpenEntry, RegisterEntry
<1>4. CASE Dial(t)
  <2>1. PICK s \in Sock, tls \in {"default", "explicit"}, start \in {"now", "later"},
             block \in {"auto", "no"} :
          Calls(t, [Call("endpoint", s) EXCEPT !.tls = tls, !.start = start,
                                               !.block = block])
    BY <1>4 DEF Dial
  <2> DEFINE c == [Call("endpoint", s) EXCEPT !.tls = tls, !.start = start,
                                              !.block = block]
  <2>2. /\ Call("endpoint", s) \in CallType /\ Call("endpoint", s).step = "endpoint"
        /\ ~Call("endpoint", s).new
    BY CallRecord
  <2>3. c.step = "endpoint" /\ ~c.new
    BY <2>2 DEF CallType
  <2>4. at' = [at EXCEPT ![t] = c]
    BY <2>1 DEF Calls
  <2> HIDE DEF c
  <2>5. ~Makes(c) /\ ~Closes(c)
    BY <2>3 DEF Makes, Closes
  <2>6. QED
    BY <1>4, <2>4, <2>5, QuietStep DEF Dial, sockVars
<1>5. CASE Configure(t)
  <2>1. /\ at[t].step = "configure" /\ Making(t)
        /\ UNCHANGED <<sock_id, nng_open, handles>>
    BY <1>5 DEF Configure, At, Making, Makes
  <2>2. CASE Goes(t, "endpoint") /\ UNCHANGED sock
    BY <1>2, <2>1, <2>2
  <2>3. CASE Returns(t) /\ sock' = [sock EXCEPT ![at[t].s] = "open"]
    BY <2>1, <2>3, OpensEntry
  <2>4. CASE Dropped(t)
    BY <2>1, <2>4, DropsEntry
  <2>5. QED
    BY <1>5, <2>2, <2>3, <2>4 DEF Configure
<1>6. CASE CreateEndpoint(t) \/ DialAtOnce(t)
  <2>1. PICK state \in {"created", "started"},
             next \in {"set_tls", "start_or_not", "list"} : NngMakes(t, state, next)
    <3>1. \/ NngMakes(t, "created", IF HasTls(t) THEN "set_tls" ELSE "start_or_not")
          \/ NngMakes(t, "started", "list")
      BY <1>6 DEF CreateEndpoint, DialAtOnce
    <3>2. (IF HasTls(t) THEN "set_tls" ELSE "start_or_not")
            \in {"set_tls", "start_or_not", "list"}
      OBVIOUS
    <3>3. QED
      BY <3>1, <3>2
  <2>2. at[t].step = "endpoint" /\ UNCHANGED <<sock_id, nng_open, handles>>
    BY <2>1 DEF NngMakes, At
  <2>3. ASSUME NEW e \in Endpoint, UNCHANGED sock,
               at' = [at EXCEPT ![t].e = e, ![t].step = next]
        PROVE  RegistryInv'
    <3> DEFINE c == [at[t] EXCEPT !.e = e, !.step = next]
    <3>1. c.s = at[t].s /\ c.new = at[t].new /\ c.step = next
      BY <1>1 DEF CallType
    <3>2. at' = [at EXCEPT ![t] = c]
      BY <1>1, <2>3
    <3> HIDE DEF c
    <3>3. QED
      BY <2>2, <2>3, <3>1, <3>2, EndpointMoves
  <2>4. CASE Raises(t)
    BY <2>2, <2>4, RaisesEntry
  <2>5. QED
    BY <2>1, <2>3, <2>4 DEF NngMakes
<1>7. CASE SetTls(t)
  <2>1. at[t].step = "set_tls" /\ UNCHANGED <<sock_id, nng_open, handles>>
    BY <1>7 DEF SetTls, At
  <2>2. CASE Goes(t, "start_or_not") /\ UNCHANGED sock
    BY <1>2, <2>1, <2>2
  <2>3. CASE Raises(t)
    BY <2>1, <2>3, RaisesEntry
  <2>4. QED
    BY <1>7, <2>2, <2>3 DEF SetTls, GivesUp
<1>8. CASE StartOrNot(t)
  <2>1. at[t].step = "start_or_not" /\ UNCHANGED <<sock_id, nng_open, handles>>
    BY <1>8 DEF StartOrNot, At
  <2>2. CASE Goes(t, "list") /\ UNCHANGED sock
    BY <1>2, <2>1, <2>2
  <2>3. CASE Raises(t)
    BY <2>1, <2>3, RaisesEntry
  <2>4. CASE /\ at' = [at EXCEPT ![t].step = "endpoint", ![t].block = "no",
                                 ![t].e = Nobody]
             /\ UNCHANGED sock
    <3> DEFINE c == [at[t] EXCEPT !.step = "endpoint", !.block = "no", !.e = Nobody]
    <3>1. c.s = at[t].s /\ c.new = at[t].new /\ c.step = "endpoint"
      BY <1>1 DEF CallType
    <3>2. at' = [at EXCEPT ![t] = c]
      BY <1>1, <2>4
    <3> HIDE DEF c
    <3>3. QED
      BY <2>1, <2>4, <3>1, <3>2, EndpointMoves
  <2>5. QED
    BY <1>8, <2>2, <2>3, <2>4 DEF StartOrNot, GivesUp
<1>9. CASE List(t)
  <2>1. at[t].step = "list" /\ UNCHANGED <<sock_id, nng_open, handles>>
    BY <1>9 DEF List, At
  <2>2. CASE /\ at' = [at EXCEPT ![t].step = "endpoint", ![t].block = "auto",
                                 ![t].e = Nobody, ![t].dials = 1]
             /\ UNCHANGED sock
    <3> DEFINE c == [at[t] EXCEPT !.step = "endpoint", !.block = "auto",
                                  !.e = Nobody, !.dials = 1]
    <3>1. c.s = at[t].s /\ c.new = at[t].new /\ c.step = "endpoint"
      BY <1>1 DEF CallType
    <3>2. at' = [at EXCEPT ![t] = c]
      BY <1>1, <2>2
    <3> HIDE DEF c
    <3>3. QED
      BY <2>1, <2>2, <3>1, <3>2, EndpointMoves
  <2>3. CASE Returns(t) /\ UNCHANGED sock
    <3>1. ~Makes(Idle) /\ ~Closes(Idle)
      BY DEF Idle, Makes, Closes
    <3>2. QED
      BY <2>1, <2>3, <3>1, QuietStep DEF Returns
  <2>4. CASE Returns(t) /\ at[t].new /\ sock' = [sock EXCEPT ![at[t].s] = "open"]
    BY <2>1, <2>4, OpensEntry DEF Making, Makes
  <2>5. QED
    BY <1>9, <2>2, <2>3, <2>4 DEF List
<1>10. QED
  BY <1>3, <1>4, <1>5, <1>6, <1>7, <1>8, <1>9

(* Any step.                                                               *)
LEMMA RegistryStep ==
  ASSUME CallOK, MakerOK, RegistryInv, SocketsNext PROVE RegistryInv'
<1>1. ASSUME UNCHANGED <<at, sock, sock_id, nng_open, handles>> PROVE RegistryInv'
  BY <1>1 DEF RegistryInv, IdOK, EntryOK, PhaseOK, CloserOK
<1>2. ASSUME NEW t \in Thread,
             \/ StartEndpoint(t) \/ SetEndpointTls(t) \/ SetSocketTls(t)
             \/ TlsCall(t) \/ TlsGoesOn(t) \/ SubCall(t) \/ SubGoesOn(t)
      PROVE  RegistryInv'
  <2>1. UNCHANGED <<at, sock, sock_id, nng_open, handles>>
    BY <1>2 DEF StartEndpoint, SetEndpointTls, SetSocketTls, TlsCall, TlsGoesOn,
                SubCall, SubGoesOn, others, sockVars
  <2>2. QED
    BY <1>1, <2>1
<1>3. ASSUME NEW t \in Thread, CloseEndpoint(t) PROVE RegistryInv'
  <2>0. PICK s \in Sock : \E e : Calls(t, [Call("unlist", s) EXCEPT !.e = e])
    BY <1>3 DEF CloseEndpoint
  <2>1. PICK e : Calls(t, [Call("unlist", s) EXCEPT !.e = e])
    BY <2>0
  <2> DEFINE c == [Call("unlist", s) EXCEPT !.e = e]
  <2>2. Call("unlist", s) \in CallType /\ Call("unlist", s).step = "unlist"
    BY CallRecord
  <2>3. c.step = "unlist"
    BY <2>2 DEF CallType
  <2>4. at' = [at EXCEPT ![t] = c]
    BY <2>1 DEF Calls
  <2> HIDE DEF c
  <2>5. ~Makes(c) /\ ~Closes(c)
    BY <2>3 DEF Makes, Closes
  <2>6. QED
    BY <1>3, <2>4, <2>5, QuietStep DEF CloseEndpoint, sockVars
<1>4. ASSUME NEW t \in Thread, Unlist(t) PROVE RegistryInv'
  <2>1. ~Makes(Idle) /\ ~Closes(Idle)
    BY DEF Idle, Makes, Closes
  <2>2. QED
    BY <1>4, <2>1, QuietStep DEF Unlist, Returns, sockVars
<1>5. CASE DropTls \/ Import
  <2>1. UNCHANGED <<at, sock, sock_id, nng_open, handles>>
    BY <1>5 DEF DropTls, Import, others, sockVars
  <2>2. QED
    BY <1>1, <2>1
<1>6. QED
  BY <1>2, <1>3, <1>4, <1>5, MakingEntry, CloseEntry DEF SocketsNext

(* "_active_handles" (nng.py): an open socket is found under its id and a  *)
(* closed one is not, for any number of threads that make and close        *)
(* sockets while nng gives the ids of closed ones to new ones:             *)
(* RegistryExact.                                                          *)
THEOREM RegistryIsExact == SocketsSpec => []RegistryExact
<1> DEFINE RInv == Inv /\ RegistryInv
<1>1. SocketsInit => RInv
  <2> SUFFICES ASSUME SocketsInit PROVE RegistryInv
    BY InitInv
  <2>1. IdOK /\ EntryOK
    BY DEF SocketsInit, IdOK, EntryOK, Alive
  <2>2. PhaseOK /\ CloserOK
    BY DEF SocketsInit, PhaseOK, Phase, CloserOK, Makes, Closes, Idle
  <2>3. QED
    BY <2>1, <2>2 DEF RegistryInv
<1>2. RInv /\ [SocketsNext \/ AllIdle]_vars => RInv'
  <2> SUFFICES ASSUME RInv, [SocketsNext \/ AllIdle]_vars PROVE RInv'
    OBVIOUS
  <2>1. Inv'
    BY InvStep
  <2>2. CASE SocketsNext
    BY <2>1, <2>2, RegistryStep DEF Inv
  <2>3. CASE AllIdle \/ UNCHANGED vars
    <3>1. UNCHANGED <<sock, sock_id, nng_open, handles, at>>
      BY <2>3 DEF AllIdle, vars, sockVars
    <3>2. RegistryInv'
      BY <3>1 DEF RegistryInv, IdOK, EntryOK, PhaseOK, CloserOK
    <3>3. QED
      BY <2>1, <3>2
  <2>4. QED
    BY <2>2, <2>3
<1>3. RInv => RegistryExact
  BY DEF RegistryInv, EntryOK, RegistryExact, Alive
<1>4. QED
  BY <1>1, <1>2, <1>3, PTL DEF SocketsSpec
------------------------------------------------------------------------------
(* The endpoints of sockets.                                               *)

(* The call that made the endpoint and has still to list it, and the one   *)
(* that closed it and has still to remove it.                              *)
Holding == {"set_tls", "start_or_not", "list"}
Holds(c, e) == c.step \in Holding /\ c.e = e
Unlists(c, s, e) == c.step = "unlist" /\ c.s = s /\ c.e = e

(* A socket that no close has begun on.                                    *)
Young(s) == sock[s] \in {"unmade", "making", "open"}

EndpointType ==
  /\ endpoint \in [Endpoint -> {"none", "created", "started", "closed"}]
  /\ of_socket \in [Endpoint -> Sock \cup {Nobody}]
  /\ listed \in [Sock -> SUBSET Endpoint]

(* A listed endpoint is one that nng made for the socket ...               *)
ListedIsMade ==
  \A s \in Sock : \A e \in listed[s] : of_socket[e] = s /\ endpoint[e] # "none"

(* ... one that a call holds has been made by it and by no other, is not   *)
(* listed, and lives as long as the socket is not closed ...               *)
HeldIsOwn ==
  \A t \in Thread :
    /\ at[t].step \in Holding => at[t].e \in Endpoint
    /\ \A e \in Endpoint : Holds(at[t], e) =>
         /\ of_socket[e] = at[t].s /\ e \notin listed[at[t].s] /\ endpoint[e] # "none"
         /\ sock[at[t].s] # "closed" => endpoint[e] \in Live
         /\ \A u \in Thread : Holds(at[u], e) => u = t

(* ... and one that a call removes has been closed.                        *)
RemovedIsClosed ==
  \A t \in Thread : at[t].step = "unlist" =>
    at[t].e \in Endpoint /\ endpoint[at[t].e] = "closed"

(* What Socket.dialers and Socket.listeners lack or have too much, a call  *)
(* is about to list or remove; a closed socket has no live endpoint.       *)
ListedLives ==
  \A s \in Sock : Young(s) =>
    \A e \in listed[s] : \/ endpoint[e] \in Live
                         \/ \E t \in Thread : Unlists(at[t], s, e)
LiveIsListed ==
  \A s \in Sock : Young(s) =>
    \A e \in Endpoint : of_socket[e] = s /\ endpoint[e] \in Live =>
      e \in listed[s] \/ \E t \in Thread : Holds(at[t], e)
ClosedIsDead ==
  \A e \in Endpoint : endpoint[e] \in Live =>
    of_socket[e] \in Sock /\ sock[of_socket[e]] # "closed"

EndInv ==
  /\ EndpointType /\ ListedIsMade /\ HeldIsOwn /\ RemovedIsClosed
  /\ ListedLives /\ LiveIsListed /\ ClosedIsDead

(* What a step of one call leaves of the others.                           *)
LEMMA OtherCalls ==
  ASSUME CallOK, NEW t \in Thread, NEW c, at' = [at EXCEPT ![t] = c]
  PROVE  at'[t] = c /\ \A u \in Thread \ {t} : at'[u] = at[u]
BY DEF CallOK

(* A step of a call that changes one endpoint at most, and no table: what  *)
(* it keeps of the sockets, of the other endpoints, what it may do to its  *)
(* own, and what it may go on with.                                        *)
TablesKept ==
  /\ listed' = listed
  /\ \A s \in Sock : sock'[s] = "closed" <=> sock[s] = "closed"
  /\ \A s \in Sock : Young(s)' => Young(s)

EndpointsKept(t, c, x) ==
  \A e \in Endpoint \ {x} :
    /\ endpoint'[e] = endpoint[e] /\ of_socket'[e] = of_socket[e]
    /\ ~Holds(at[t], e) /\ ~Holds(c, e)

MayBecome(t, c, x) ==
  /\ of_socket'[x] \in Sock /\ endpoint'[x] # "none"
  /\ \A s \in Sock : x \in listed[s] => of_socket'[x] = s
  /\ \A u \in Thread \ {t} : Holds(at[u], x) =>
       of_socket'[x] = of_socket[x] /\ (endpoint[x] \in Live => endpoint'[x] \in Live)
  /\ Holds(c, x) =>
       /\ of_socket'[x] = c.s /\ c.s \in Sock /\ x \notin listed[c.s]
       /\ \A u \in Thread \ {t} : ~Holds(at[u], x)
       /\ sock[c.s] # "closed" => endpoint'[x] \in Live
  /\ endpoint[x] = "closed" => endpoint'[x] = "closed"
  /\ endpoint'[x] \in Live =>
       sock[of_socket'[x]] # "closed" /\ (x \in listed[of_socket'[x]] \/ Holds(c, x))
  /\ \A s \in Sock : x \in listed[s] /\ Young(s) =>
       endpoint'[x] \in Live \/ endpoint'[x] = endpoint[x] \/ Unlists(c, s, x)

GoesOnWith(c) ==
  /\ c.step \in Holding => c.e \in Endpoint
  /\ c.step = "unlist" => c.e \in Endpoint /\ endpoint'[c.e] = "closed"

(* Where one endpoint moves and the others go on, the endpoint part of the *)
(* invariant holds again.                                                  *)
LEMMA OneEndpoint ==
  ASSUME CallOK, EndInv, EndpointType', NEW t \in Thread, NEW c, NEW x,
         at' = [at EXCEPT ![t] = c], at[t].step # "unlist",
         TablesKept, EndpointsKept(t, c, x), x \in Endpoint => MayBecome(t, c, x),
         GoesOnWith(c)
  PROVE  EndInv'
<1> USE DEF TablesKept, EndpointsKept, MayBecome, GoesOnWith
<1>1. at'[t] = c /\ \A u \in Thread \ {t} : at'[u] = at[u]
  BY OtherCalls
<1>2. ListedIsMade'
  BY DEF EndInv, ListedIsMade, EndpointType
<1>3. HeldIsOwn'
  <2> SUFFICES ASSUME NEW u \in Thread, NEW e \in Endpoint, Holds(at'[u], e)
               PROVE  /\ of_socket'[e] = at'[u].s /\ e \notin listed'[at'[u].s]
                      /\ endpoint'[e] # "none"
                      /\ sock'[at'[u].s] # "closed" => endpoint'[e] \in Live
                      /\ \A v \in Thread : Holds(at'[v], e) => v = u
    <3>1. ASSUME NEW u \in Thread, at'[u].step \in Holding PROVE at'[u].e \in Endpoint
      BY <1>1, <3>1 DEF EndInv, HeldIsOwn
    <3>2. QED
      BY <3>1 DEF HeldIsOwn
  <2>1. CASE u = t
    BY <1>1, <2>1
  <2>2. CASE u # t
    <3>1. Holds(at[u], e) /\ at'[u] = at[u] /\ at[u].s \in Sock
      BY <1>1, <2>2 DEF CallOK, Holds, Holding
    <3>2. /\ of_socket[e] = at[u].s /\ e \notin listed[at[u].s] /\ endpoint[e] # "none"
          /\ sock[at[u].s] # "closed" => endpoint[e] \in Live
          /\ \A v \in Thread : Holds(at[v], e) => v = u
      BY <3>1 DEF EndInv, HeldIsOwn
    <3>3. CASE e = x
      BY <1>1, <2>2, <3>1, <3>2, <3>3
    <3>4. CASE e # x
      BY <1>1, <2>2, <3>1, <3>2, <3>4
    <3>5. QED
      BY <3>3, <3>4
  <2>3. QED
    BY <2>1, <2>2
<1>4. RemovedIsClosed'
  <2>1. \A e \in Endpoint : endpoint[e] = "closed" => endpoint'[e] = "closed"
    OBVIOUS
  <2>2. QED
    BY <1>1, <2>1 DEF EndInv, RemovedIsClosed
<1>5. ListedLives'
  <2> SUFFICES ASSUME NEW s \in Sock, Young(s)', NEW e \in listed[s],
                      endpoint'[e] \notin Live
               PROVE  \E u \in Thread : Unlists(at'[u], s, e)
    BY DEF ListedLives
  <2>1. e \in Endpoint
    BY DEF EndInv, EndpointType
  <2>2. CASE endpoint'[e] # endpoint[e]
    BY <1>1, <2>1, <2>2
  <2>3. CASE endpoint'[e] = endpoint[e]
    <3>1. PICK u \in Thread : Unlists(at[u], s, e)
      BY <2>3 DEF EndInv, ListedLives
    <3>2. u # t
      BY <3>1 DEF Unlists
    <3>3. QED
      BY <1>1, <3>1, <3>2
  <2>4. QED
    BY <2>2, <2>3
<1>6. LiveIsListed'
  <2> SUFFICES ASSUME NEW s \in Sock, Young(s)', NEW e \in Endpoint,
                      of_socket'[e] = s, endpoint'[e] \in Live, e \notin listed[s]
               PROVE  \E u \in Thread : Holds(at'[u], e)
    BY DEF LiveIsListed
  <2>1. CASE e = x
    BY <1>1, <2>1
  <2>2. CASE e # x
    <3>1. PICK u \in Thread : Holds(at[u], e)
      BY <2>2 DEF EndInv, LiveIsListed
    <3>2. u # t
      BY <2>2, <3>1
    <3>3. QED
      BY <1>1, <3>1, <3>2
  <2>3. QED
    BY <2>1, <2>2
<1>7. ClosedIsDead'
  <2> SUFFICES ASSUME NEW e \in Endpoint, endpoint'[e] \in Live
               PROVE  of_socket'[e] \in Sock /\ sock'[of_socket'[e]] # "closed"
    BY DEF ClosedIsDead
  <2>1. CASE e = x
    BY <2>1
  <2>2. CASE e # x
    BY <2>2 DEF EndInv, ClosedIsDead
  <2>3. QED
    BY <2>1, <2>2
<1>8. QED
  BY <1>2, <1>3, <1>4, <1>5, <1>6, <1>7 DEF EndInv

(* A step of a call that has no endpoint.                                  *)
LEMMA NoEndpoint ==
  ASSUME CallOK, EndInv, NEW t \in Thread, NEW c, at' = [at EXCEPT ![t] = c],
         UNCHANGED <<endpoint, of_socket, listed>>,
         at[t].step \notin Holding \cup {"unlist"},
         c.step \notin Holding \cup {"unlist"},
         \A s \in Sock : sock'[s] = "closed" <=> sock[s] = "closed",
         \A s \in Sock : Young(s)' => Young(s)
  PROVE  EndInv'
<1>1. Nobody \notin Endpoint /\ \A s \in Sock : Nobody \notin listed[s]
  BY SockAssumption DEF EndInv, EndpointType
<1>2. \A e \in Endpoint \ {Nobody} : ~Holds(at[t], e) /\ ~Holds(c, e)
  BY DEF Holds
<1>3. EndpointType'
  BY DEF EndInv, EndpointType
<1>4. TablesKept /\ EndpointsKept(t, c, Nobody) /\ GoesOnWith(c)
  BY <1>2 DEF TablesKept, EndpointsKept, GoesOnWith
<1>5. QED
  BY <1>1, <1>3, <1>4, OneEndpoint

(* What a socket becomes when its constructor raises or returns.           *)
LEMMA MakerSock ==
  ASSUME CallOK, MakerOK, NEW t \in Thread, Making(t),
         NEW state \in {"open", "closing"}, sock' = [sock EXCEPT ![at[t].s] = state]
  PROVE  /\ \A s \in Sock : sock'[s] = "closed" <=> sock[s] = "closed"
         /\ \A s \in Sock : Young(s)' => Young(s)
<1>1. /\ sock \in [Sock -> {"unmade", "making", "open", "closing", "closed"}]
      /\ at[t].s \in Sock /\ sock[at[t].s] = "making"
  BY DEF CallOK, MakerOK, Making, Makes
<1>2. \A s \in Sock : sock'[s] = IF s = at[t].s THEN state ELSE sock[s]
  BY <1>1
<1>3. QED
  BY <1>1, <1>2 DEF Young

(* A call raises; what it held has been closed.                            *)
LEMMA RaisesEndpoint ==
  ASSUME CallOK, MakerOK, EndInv, NEW t \in Thread, Raises(t),
         UNCHANGED <<of_socket, listed>>,
         \/ at[t].step = "endpoint" /\ UNCHANGED endpoint
         \/ /\ at[t].step \in Holding
            /\ endpoint' = [endpoint EXCEPT ![at[t].e] = "closed"]
  PROVE  EndInv'
<1> DEFINE c == IF at[t].new THEN [at[t] EXCEPT !.step = "lookup"] ELSE Idle
           x == at[t].e
<1>1. /\ at[t] \in CallType /\ at \in [Thread -> CallType] /\ at[t].s \in Sock
  BY DEF CallOK, Holding
<1>2. at' = [at EXCEPT ![t] = c]
  BY <1>1 DEF Raises, Dropped, Goes, Returns
<1>3. c.step \in {"lookup", "idle"}
  BY <1>1 DEF CallType, Idle
<1> HIDE DEF c
<1>4. /\ \A s \in Sock : sock'[s] = "closed" <=> sock[s] = "closed"
      /\ \A s \in Sock : Young(s)' => Young(s)
  <2>1. CASE at[t].new
    BY <2>1, MakerSock DEF Raises, Dropped, Making, Makes, Holding
  <2>2. CASE ~at[t].new
    BY <2>2 DEF Raises, Young
  <2>3. QED
    BY <2>1, <2>2
<1>5. EndpointType /\ \A e : ~Holds(c, e)
  BY <1>3 DEF EndInv, Holds, Holding
<1>6. CASE UNCHANGED endpoint /\ at[t].step = "endpoint"
  BY <1>2, <1>3, <1>4, <1>6, NoEndpoint DEF Holding
<1>7. CASE endpoint' = [endpoint EXCEPT ![x] = "closed"] /\ at[t].step \in Holding
  <2>1. x \in Endpoint
    BY <1>7 DEF EndInv, HeldIsOwn
  <2>2. /\ endpoint'[x] = "closed"
        /\ \A e \in Endpoint \ {x} : endpoint'[e] = endpoint[e]
        /\ EndpointType'
    BY <1>5, <1>7, <2>1 DEF EndpointType
  <2>3. Holds(at[t], x)
    BY <1>7 DEF Holds
  <2>4. /\ of_socket[x] = at[t].s /\ x \notin listed[at[t].s]
        /\ \A u \in Thread \ {t} : ~Holds(at[u], x)
    BY <2>1, <2>3 DEF EndInv, HeldIsOwn
  <2>5. \A s \in Sock : x \notin listed[s]
    BY <2>4 DEF EndInv, ListedIsMade
  <2>6. \A e \in Endpoint \ {x} : ~Holds(at[t], e)
    BY DEF Holds
  <2>7. at[t].step # "unlist" /\ "closed" \notin Live
    BY <1>7 DEF Holding, Live
  <2>8. TablesKept /\ GoesOnWith(c)
    BY <1>3, <1>4 DEF TablesKept, GoesOnWith, Holding
  <2>9. EndpointsKept(t, c, x)
    BY <1>5, <2>2, <2>6 DEF EndpointsKept
  <2>10. MayBecome(t, c, x)
    BY <1>1, <1>5, <2>2, <2>4, <2>5, <2>7 DEF MayBecome
  <2>11. QED
    BY <1>2, <2>2, <2>7, <2>8, <2>9, <2>10, OneEndpoint
<1>8. QED
  BY <1>6, <1>7

(* nng makes an endpoint, which the call holds from then on.               *)
LEMMA MadeEndpoint ==
  ASSUME CallOK, MakerOK, EndInv, NEW t \in Thread,
         NEW state \in Live, NEW next \in Holding, NngMakes(t, state, next)
  PROVE  EndInv'
<1>1. /\ at[t] \in CallType /\ at \in [Thread -> CallType] /\ at[t].s \in Sock
      /\ at[t].step = "endpoint"
  BY DEF CallOK, NngMakes, At
<1>2. CASE Raises(t) /\ UNCHANGED <<endpoint, of_socket>>
  BY <1>1, <1>2, RaisesEndpoint DEF NngMakes
<1>3. ASSUME NngHas(at[t].s), NEW x \in Endpoint, endpoint[x] = "none",
             endpoint' = [endpoint EXCEPT ![x] = state],
             of_socket' = [of_socket EXCEPT ![x] = at[t].s],
             at' = [at EXCEPT ![t].e = x, ![t].step = next],
             UNCHANGED sock
      PROVE  EndInv'
  <2> DEFINE c == [at[t] EXCEPT !.e = x, !.step = next]
             r == at[t].s
  <2>1. /\ next \in {"set_tls", "start_or_not", "list"}
        /\ state \in {"created", "started"}
    BY DEF Holding, Live
  <2>2. c.e = x /\ c.s = r /\ c.step = next
    BY <1>1, <2>1 DEF CallType
  <2>3. at' = [at EXCEPT ![t] = c]
    BY <1>1, <1>3
  <2> HIDE DEF c
  <2>4. sock[r] # "closed"
    BY <1>3 DEF NngHas
  <2>5. /\ endpoint'[x] = state /\ of_socket'[x] = r
        /\ \A e \in Endpoint \ {x} : endpoint'[e] = endpoint[e] /\ of_socket'[e] = of_socket[e]
        /\ EndpointType'
    <3>1. EndpointType /\ listed' = listed
      BY DEF EndInv, NngMakes
    <3>2. QED
      BY <1>1, <1>3, <2>1, <3>1 DEF EndpointType
  <2>6. /\ \A u \in Thread : ~Holds(at[u], x)
        /\ \A s \in Sock : x \notin listed[s]
    BY <1>3 DEF EndInv, HeldIsOwn, ListedIsMade
  <2>7. \A e \in Endpoint \ {x} : ~Holds(at[t], e) /\ ~Holds(c, e)
    BY <1>1, <2>2 DEF Holds, Holding
  <2>8. Holds(c, x) /\ state # "none" /\ endpoint[x] # "closed"
    BY <1>3, <2>1, <2>2 DEF Holds
  <2>9. listed' = listed /\ UNCHANGED sock
    BY <1>3 DEF NngMakes
  <2>10. \A s \in Sock : Young(s)' => Young(s)
    BY <1>3 DEF Young
  <2>11. at[t].step # "unlist" /\ c.step # "unlist"
    BY <1>1, <2>1, <2>2
  <2> HIDE DEF r
  <2>12. r \in Sock
    BY <1>1 DEF r
  <2>13. /\ of_socket'[x] \in Sock /\ endpoint'[x] # "none" /\ endpoint'[x] \in Live
         /\ of_socket'[x] = c.s /\ c.s \in Sock /\ x \notin listed[c.s]
         /\ sock[of_socket'[x]] # "closed" /\ c.e \in Endpoint
    BY <2>2, <2>4, <2>5, <2>6, <2>8, <2>12
  <2>14. TablesKept /\ GoesOnWith(c)
    BY <2>9, <2>10, <2>11, <2>13 DEF TablesKept, GoesOnWith
  <2>15. EndpointsKept(t, c, x)
    BY <2>5, <2>7 DEF EndpointsKept
  <2>16. MayBecome(t, c, x)
    BY <2>6, <2>8, <2>13 DEF MayBecome
  <2>17. QED
    BY <2>3, <2>5, <2>11, <2>14, <2>15, <2>16, OneEndpoint
<1>4. QED
  BY <1>2, <1>3 DEF NngMakes

(* A call goes on with the endpoint that it holds.                         *)
LEMMA KeepsEndpoint ==
  ASSUME CallOK, EndInv, NEW t \in Thread, NEW next \in Holding, Goes(t, next),
         at[t].step \in Holding, UNCHANGED <<sock, of_socket, listed>>,
         \/ UNCHANGED endpoint
         \/ /\ endpoint[at[t].e] = "created"
            /\ endpoint' = [endpoint EXCEPT ![at[t].e] = "started"]
  PROVE  EndInv'
<1> DEFINE c == [at[t] EXCEPT !.step = next]
           x == at[t].e
           r == at[t].s
<1>1. /\ at[t] \in CallType /\ at \in [Thread -> CallType] /\ r \in Sock
      /\ next \in {"set_tls", "start_or_not", "list"}
  BY DEF CallOK, Holding
<1>2. c.e = x /\ c.s = r /\ c.step = next
  BY <1>1 DEF CallType
<1>3. at' = [at EXCEPT ![t] = c]
  BY <1>1 DEF Goes
<1> HIDE DEF c
<1>4. x \in Endpoint /\ Holds(at[t], x) /\ EndpointType
  BY DEF EndInv, HeldIsOwn, Holds
<1>5. /\ of_socket[x] = r /\ endpoint[x] # "none"
      /\ sock[r] # "closed" => endpoint[x] \in Live
      /\ \A u \in Thread \ {t} : ~Holds(at[u], x)
      /\ \A s \in Sock : x \notin listed[s]
  <2>1. /\ of_socket[x] = r /\ x \notin listed[r] /\ endpoint[x] # "none"
        /\ sock[r] # "closed" => endpoint[x] \in Live
        /\ \A u \in Thread \ {t} : ~Holds(at[u], x)
    BY <1>4 DEF EndInv, HeldIsOwn
  <2>2. QED
    BY <2>1 DEF EndInv, ListedIsMade
<1>6. /\ \/ endpoint'[x] = endpoint[x]
         \/ endpoint'[x] = "started" /\ endpoint[x] = "created"
      /\ \A e \in Endpoint \ {x} : endpoint'[e] = endpoint[e]
      /\ EndpointType'
  <2>1. CASE UNCHANGED endpoint
    BY <1>4, <2>1 DEF EndpointType
  <2>2. CASE endpoint[x] = "created" /\ endpoint' = [endpoint EXCEPT ![x] = "started"]
    BY <1>4, <2>2 DEF EndpointType
  <2>3. QED
    BY <2>1, <2>2
<1>7. endpoint'[x] \in Live => sock[r] # "closed"
  BY <1>4, <1>5, <1>6 DEF EndInv, ClosedIsDead, Live
<1>8. Holds(c, x) /\ c.step # "unlist" /\ at[t].step # "unlist"
  BY <1>1, <1>2 DEF Holds, Holding
<1>9. \A e \in Endpoint \ {x} : ~Holds(at[t], e) /\ ~Holds(c, e)
  BY <1>2 DEF Holds
<1>10. \A s \in Sock : Young(s)' => Young(s)
  BY DEF Young
<1>11. /\ endpoint[x] = "closed" => endpoint'[x] = "closed"
       /\ endpoint'[x] # "none"
       /\ sock[r] # "closed" => endpoint'[x] \in Live
  BY <1>5, <1>6 DEF Live
<1> HIDE DEF x, r
<1>12. /\ of_socket'[x] = c.s /\ c.s \in Sock /\ of_socket'[x] \in Sock /\ c.e \in Endpoint
       /\ sock[c.s] # "closed" => endpoint'[x] \in Live
       /\ endpoint'[x] \in Live => sock[of_socket'[x]] # "closed"
       /\ x \notin listed[c.s]
       /\ \A s \in Sock : sock'[s] = "closed" <=> sock[s] = "closed"
  BY <1>1, <1>2, <1>4, <1>5, <1>7, <1>11
<1>13. TablesKept /\ GoesOnWith(c)
  BY <1>8, <1>10, <1>12 DEF TablesKept, GoesOnWith
<1>14. EndpointsKept(t, c, x)
  BY <1>6, <1>9 DEF EndpointsKept
<1>15. MayBecome(t, c, x)
  BY <1>5, <1>8, <1>11, <1>12 DEF MayBecome
<1>16. QED
  BY <1>3, <1>6, <1>8, <1>13, <1>14, <1>15, OneEndpoint

(* dial(block=None) gives up an endpoint to make another one.              *)
LEMMA RetriesEndpoint ==
  ASSUME CallOK, EndInv, NEW t \in Thread, at[t].step \in Holding,
         endpoint' = [endpoint EXCEPT ![at[t].e] = "closed"],
         at' = [at EXCEPT ![t].step = "endpoint", ![t].block = "no", ![t].e = Nobody],
         UNCHANGED <<sock, of_socket, listed>>
  PROVE  EndInv'
<1> DEFINE c == [at[t] EXCEPT !.step = "endpoint", !.block = "no", !.e = Nobody]
           x == at[t].e
<1>1. at[t] \in CallType /\ at \in [Thread -> CallType] /\ at[t].s \in Sock
  BY DEF CallOK, Holding
<1>2. c.step = "endpoint"
  BY <1>1 DEF CallType
<1>3. at' = [at EXCEPT ![t] = c]
  BY <1>1
<1> HIDE DEF c
<1>4. x \in Endpoint /\ Holds(at[t], x) /\ EndpointType
  BY DEF EndInv, HeldIsOwn, Holds
<1>5. /\ of_socket[x] = at[t].s
      /\ \A u \in Thread \ {t} : ~Holds(at[u], x)
      /\ \A s \in Sock : x \notin listed[s]
  <2>1. /\ of_socket[x] = at[t].s /\ x \notin listed[at[t].s]
        /\ \A u \in Thread \ {t} : ~Holds(at[u], x)
    BY <1>4 DEF EndInv, HeldIsOwn
  <2>2. QED
    BY <2>1 DEF EndInv, ListedIsMade
<1>6. /\ endpoint'[x] = "closed"
      /\ \A e \in Endpoint \ {x} : endpoint'[e] = endpoint[e]
      /\ EndpointType'
  BY <1>4 DEF EndpointType
<1>7. at[t].step # "unlist" /\ "closed" \notin Live
  BY DEF Holding, Live
<1>8. /\ \A e : ~Holds(c, e)
      /\ \A e \in Endpoint \ {x} : ~Holds(at[t], e)
  BY <1>2 DEF Holds, Holding
<1>9. \A s \in Sock : Young(s)' => Young(s)
  BY DEF Young
<1> HIDE DEF x
<1>10. c.step \notin Holding /\ c.step # "unlist" /\ of_socket'[x] \in Sock
  BY <1>1, <1>2, <1>5 DEF Holding
<1>11. TablesKept /\ GoesOnWith(c)
  BY <1>9, <1>10 DEF TablesKept, GoesOnWith
<1>12. EndpointsKept(t, c, x)
  BY <1>6, <1>8 DEF EndpointsKept
<1>13. MayBecome(t, c, x)
  BY <1>5, <1>6, <1>7, <1>8, <1>10 DEF MayBecome
<1>14. QED
  BY <1>3, <1>6, <1>7, <1>11, <1>12, <1>13, OneEndpoint

(* A call lists the endpoint that it held.                                 *)
LEMMA ListEndpoint ==
  ASSUME CallOK, MakerOK, EndInv, NEW t \in Thread, List(t) PROVE EndInv'
<1> DEFINE x == at[t].e
           r == at[t].s
<1>1. /\ at[t] \in CallType /\ at \in [Thread -> CallType] /\ r \in Sock
      /\ at[t].step = "list" /\ listed' = [listed EXCEPT ![r] = @ \cup {x}]
      /\ UNCHANGED <<endpoint, of_socket>>
  BY DEF CallOK, List, At
<1>2. PICK c : at' = [at EXCEPT ![t] = c] /\ c.step \in {"endpoint", "idle"}
  <2> DEFINE d == [at[t] EXCEPT !.step = "endpoint", !.block = "auto",
                                !.e = Nobody, !.dials = 1]
  <2>1. d.step = "endpoint" /\ Idle.step = "idle"
    BY <1>1 DEF CallType, Idle
  <2>2. at' = [at EXCEPT ![t] = d] \/ at' = [at EXCEPT ![t] = Idle]
    BY <1>1 DEF List, Returns
  <2> HIDE DEF d
  <2>3. QED
    BY <2>1, <2>2
<1>3. at'[t] = c /\ \A u \in Thread \ {t} : at'[u] = at[u]
  BY <1>2, OtherCalls
<1>4. /\ \A s \in Sock : sock'[s] = "closed" <=> sock[s] = "closed"
      /\ \A s \in Sock : Young(s)' => Young(s)
  <2>1. CASE UNCHANGED sock
    BY <2>1 DEF Young
  <2>2. CASE at[t].new /\ sock' = [sock EXCEPT ![r] = "open"]
    BY <1>1, <2>2, MakerSock DEF Making, Makes
  <2>3. QED
    BY <2>1, <2>2 DEF List
<1>5. EndpointType /\ x \in Endpoint /\ Holds(at[t], x)
  BY <1>1 DEF EndInv, HeldIsOwn, Holds, Holding
<1>6. /\ of_socket[x] = r /\ endpoint[x] # "none"
      /\ sock[r] # "closed" => endpoint[x] \in Live
      /\ \A u \in Thread \ {t} : ~Holds(at[u], x)
  BY <1>5 DEF EndInv, HeldIsOwn
<1>7. /\ listed'[r] = listed[r] \cup {x}
      /\ \A s \in Sock \ {r} : listed'[s] = listed[s]
      /\ EndpointType'
  BY <1>1, <1>5 DEF EndpointType
<1>8. \A e : ~Holds(c, e) /\ (Holds(at[t], e) => e = x)
  BY <1>2 DEF Holds, Holding
<1> HIDE DEF x, r
<1>9. ListedIsMade'
  BY <1>1, <1>6, <1>7 DEF EndInv, ListedIsMade
<1>10. HeldIsOwn'
  <2>1. ASSUME NEW u \in Thread, at'[u].step \in Holding PROVE at'[u].e \in Endpoint
    BY <1>2, <1>3, <2>1 DEF EndInv, HeldIsOwn, Holding
  <2>2. ASSUME NEW u \in Thread, NEW e \in Endpoint, Holds(at'[u], e)
        PROVE  /\ of_socket'[e] = at'[u].s /\ e \notin listed'[at'[u].s]
               /\ endpoint'[e] # "none"
               /\ sock'[at'[u].s] # "closed" => endpoint'[e] \in Live
               /\ \A v \in Thread : Holds(at'[v], e) => v = u
    <3>1. u # t /\ at'[u] = at[u] /\ Holds(at[u], e)
      BY <1>3, <1>8, <2>2
    <3>2. e # x
      BY <1>6, <3>1
    <3>3. at[u].s \in Sock
      BY <3>1 DEF CallOK, Holds, Holding
    <3>4. /\ of_socket[e] = at[u].s /\ e \notin listed[at[u].s] /\ endpoint[e] # "none"
          /\ sock[at[u].s] # "closed" => endpoint[e] \in Live
          /\ \A v \in Thread : Holds(at[v], e) => v = u
      BY <3>1 DEF EndInv, HeldIsOwn
    <3>5. e \notin listed'[at[u].s]
      BY <1>7, <3>2, <3>3, <3>4
    <3>6. \A v \in Thread : Holds(at'[v], e) => v = u
      BY <1>3, <1>8, <3>4
    <3>7. QED
      BY <1>1, <1>4, <3>1, <3>3, <3>4, <3>5, <3>6
  <2>3. QED
    BY <2>1, <2>2 DEF HeldIsOwn
<1>11. RemovedIsClosed'
  BY <1>1, <1>2, <1>3 DEF EndInv, RemovedIsClosed
<1>12. ListedLives'
  <2> SUFFICES ASSUME NEW s \in Sock, Young(s)', NEW e \in listed'[s],
                      endpoint[e] \notin Live
               PROVE  \E u \in Thread : Unlists(at'[u], s, e)
    BY <1>1 DEF ListedLives
  <2>1. Young(s) /\ sock[s] # "closed"
    BY <1>4 DEF Young
  <2>2. e \in listed[s]
    BY <1>6, <1>7, <2>1
  <2>3. PICK u \in Thread : Unlists(at[u], s, e)
    BY <2>1, <2>2 DEF EndInv, ListedLives
  <2>4. u # t
    BY <1>1, <2>3 DEF Unlists
  <2>5. QED
    BY <1>3, <2>3, <2>4
<1>13. LiveIsListed'
  <2> SUFFICES ASSUME NEW s \in Sock, Young(s)', NEW e \in Endpoint,
                      of_socket[e] = s, endpoint[e] \in Live, e \notin listed'[s]
               PROVE  \E u \in Thread : Holds(at'[u], e)
    BY <1>1 DEF LiveIsListed
  <2>1. Young(s) /\ e \notin listed[s]
    BY <1>4, <1>7
  <2>2. PICK u \in Thread : Holds(at[u], e)
    BY <2>1 DEF EndInv, LiveIsListed
  <2>3. u # t
    BY <1>6, <1>7, <1>8, <2>2
  <2>4. QED
    BY <1>3, <2>2, <2>3
<1>14. ClosedIsDead'
  BY <1>1, <1>4 DEF EndInv, ClosedIsDead
<1>15. QED
  BY <1>7, <1>9, <1>10, <1>11, <1>12, <1>13, <1>14 DEF EndInv

(* A call removes a closed endpoint, or all of a socket that closes.       *)
LEMMA UnlistEndpoint ==
  ASSUME CallOK, MakerOK, EndInv, NEW t \in Thread, Unlist(t) \/ Clear(t)
  PROVE  EndInv'
<1> DEFINE x == at[t].e
           r == at[t].s
<1>1. /\ r \in Sock /\ EndpointType /\ UNCHANGED <<endpoint, of_socket, sock>>
      /\ at[t].step \in {"unlist", "clear"}
      /\ at[t].step = "unlist" => listed' = [listed EXCEPT ![r] = @ \ {x}]
      /\ at[t].step = "clear" => listed' = [listed EXCEPT ![r] = {}]
  BY DEF CallOK, EndInv, Unlist, Clear, At, sockVars
<1>2. at' = [at EXCEPT ![t] = Idle] /\ Idle.step = "idle"
  BY DEF Unlist, Clear, Returns, Idle
<1>3. at'[t] = Idle /\ \A u \in Thread \ {t} : at'[u] = at[u]
  BY <1>2, OtherCalls
<1>4. /\ at[t].step = "unlist" => x \in Endpoint /\ endpoint[x] = "closed"
      /\ at[t].step = "clear" => ~Young(r)
  BY DEF EndInv, RemovedIsClosed, MakerOK, Closes, Young
<1>5. /\ \A s \in Sock : listed'[s] \subseteq listed[s]
      /\ EndpointType'
  BY <1>1 DEF EndpointType
<1>6. \A s \in Sock : Young(s) => \/ listed'[s] = listed[s]
                                  \/ at[t].step = "unlist" /\ s = r
                                     /\ listed'[s] = listed[s] \ {x}
  <2>1. CASE at[t].step = "unlist"
    BY <1>1, <2>1 DEF EndpointType
  <2>2. CASE at[t].step = "clear"
    BY <1>1, <1>4, <2>2 DEF EndpointType
  <2>3. QED
    BY <1>1, <2>1, <2>2
<1>7. \A e : ~Holds(Idle, e) /\ ~Holds(at[t], e)
  BY <1>1, <1>2 DEF Holds, Holding
<1> HIDE DEF x, r
<1>8. ListedIsMade'
  BY <1>1, <1>5 DEF EndInv, ListedIsMade
<1>9. HeldIsOwn'
  <2>1. ASSUME NEW u \in Thread, at'[u].step \in Holding PROVE at'[u].e \in Endpoint
    BY <1>2, <1>3, <2>1 DEF EndInv, HeldIsOwn, Holding
  <2>2. ASSUME NEW u \in Thread, NEW e \in Endpoint, Holds(at'[u], e)
        PROVE  /\ of_socket'[e] = at'[u].s /\ e \notin listed'[at'[u].s]
               /\ endpoint'[e] # "none"
               /\ sock'[at'[u].s] # "closed" => endpoint'[e] \in Live
               /\ \A v \in Thread : Holds(at'[v], e) => v = u
    <3>1. at'[u] = at[u] /\ Holds(at[u], e)
      BY <1>3, <1>7, <2>2
    <3>2. at[u].s \in Sock
      BY <3>1 DEF CallOK, Holds, Holding
    <3>3. /\ of_socket[e] = at[u].s /\ e \notin listed[at[u].s] /\ endpoint[e] # "none"
          /\ sock[at[u].s] # "closed" => endpoint[e] \in Live
          /\ \A v \in Thread : Holds(at[v], e) => v = u
      BY <3>1 DEF EndInv, HeldIsOwn
    <3>4. \A v \in Thread : Holds(at'[v], e) => v = u
      BY <1>3, <1>7, <3>3
    <3>5. QED
      BY <1>1, <1>5, <3>1, <3>2, <3>3, <3>4
  <2>3. QED
    BY <2>1, <2>2 DEF HeldIsOwn
<1>10. RemovedIsClosed'
  BY <1>1, <1>2, <1>3 DEF EndInv, RemovedIsClosed
<1>11. ListedLives'
  <2> SUFFICES ASSUME NEW s \in Sock, Young(s), NEW e \in listed'[s],
                      endpoint[e] \notin Live
               PROVE  \E u \in Thread : Unlists(at'[u], s, e)
    BY <1>1 DEF ListedLives, Young
  <2>1. e \in listed[s]
    BY <1>5
  <2>2. PICK u \in Thread : Unlists(at[u], s, e)
    BY <2>1 DEF EndInv, ListedLives
  <2>3. CASE u = t
    <3>1. s = r /\ e = x /\ at[t].step = "unlist"
      BY <2>2, <2>3 DEF Unlists, r, x
    <3>2. listed'[s] = listed[s] \ {x}
      BY <1>1, <3>1 DEF EndpointType
    <3>3. QED
      BY <3>1, <3>2
  <2>4. CASE u # t
    BY <1>3, <2>2, <2>4
  <2>5. QED
    BY <2>3, <2>4
<1>12. LiveIsListed'
  <2> SUFFICES ASSUME NEW s \in Sock, Young(s), NEW e \in Endpoint,
                      of_socket[e] = s, endpoint[e] \in Live, e \notin listed'[s]
               PROVE  \E u \in Thread : Holds(at'[u], e)
    BY <1>1 DEF LiveIsListed, Young
  <2>1. at[t].step = "unlist" => e # x
    BY <1>4 DEF Live
  <2>2. e \notin listed[s]
    BY <1>6, <2>1
  <2>3. PICK u \in Thread : Holds(at[u], e)
    BY <2>2 DEF EndInv, LiveIsListed
  <2>4. QED
    BY <1>3, <1>7, <2>3
<1>13. ClosedIsDead'
  BY <1>1 DEF EndInv, ClosedIsDead
<1>14. QED
  BY <1>5, <1>8, <1>9, <1>10, <1>11, <1>12, <1>13 DEF EndInv

(* nng closes the endpoints of a socket with it.                           *)
LEMMA CloseFnEndpoints ==
  ASSUME CallOK, MakerOK, EndInv, NEW t \in Thread, CloseFn(t) PROVE EndInv'
<1> DEFINE r == at[t].s
           c == [at[t] EXCEPT !.step = "clear"]
<1>1. /\ at[t] \in CallType /\ at \in [Thread -> CallType] /\ r \in Sock
      /\ sock \in [Sock -> {"unmade", "making", "open", "closing", "closed"}]
      /\ at[t].step = "close_fn" /\ EndpointType
      /\ UNCHANGED <<of_socket, listed>>
  BY DEF CallOK, EndInv, CloseFn, At
<1>2. c.step = "clear" /\ at' = [at EXCEPT ![t] = c]
  BY <1>1 DEF CallType, CloseFn, Goes, After
<1> HIDE DEF c
<1>3. at'[t] = c /\ \A u \in Thread \ {t} : at'[u] = at[u]
  BY <1>2, OtherCalls
<1>4. ~Young(r)
  BY <1>1 DEF MakerOK, Closes, Young
<1>5. sock'[r] = "closed" /\ \A s \in Sock \ {r} : sock'[s] = sock[s]
  BY <1>1 DEF CloseFn
<1>6. \A e \in Endpoint : endpoint'[e] = IF of_socket[e] = r THEN "closed" ELSE endpoint[e]
  BY DEF CloseFn
<1>7. EndpointType'
  BY <1>1 DEF EndpointType, CloseFn
<1>8. \A e : ~Holds(c, e) /\ ~Holds(at[t], e)
  BY <1>1, <1>2 DEF Holds, Holding
<1> HIDE DEF r
<1>9. ListedIsMade'
  BY <1>1, <1>6 DEF EndInv, ListedIsMade, EndpointType
<1>10. HeldIsOwn'
  <2>1. ASSUME NEW u \in Thread, at'[u].step \in Holding PROVE at'[u].e \in Endpoint
    BY <1>2, <1>3, <2>1 DEF EndInv, HeldIsOwn, Holding
  <2>2. ASSUME NEW u \in Thread, NEW e \in Endpoint, Holds(at'[u], e)
        PROVE  /\ of_socket'[e] = at'[u].s /\ e \notin listed'[at'[u].s]
               /\ endpoint'[e] # "none"
               /\ sock'[at'[u].s] # "closed" => endpoint'[e] \in Live
               /\ \A v \in Thread : Holds(at'[v], e) => v = u
    <3>1. at'[u] = at[u] /\ Holds(at[u], e)
      BY <1>3, <1>8, <2>2
    <3>2. at[u].s \in Sock
      BY <3>1 DEF CallOK, Holds, Holding
    <3>3. /\ of_socket[e] = at[u].s /\ e \notin listed[at[u].s] /\ endpoint[e] # "none"
          /\ sock[at[u].s] # "closed" => endpoint[e] \in Live
          /\ \A v \in Thread : Holds(at[v], e) => v = u
      BY <3>1 DEF EndInv, HeldIsOwn
    <3>4. \A v \in Thread : Holds(at'[v], e) => v = u
      BY <1>3, <1>8, <3>3
    <3>5. endpoint'[e] # "none" /\ (sock'[at[u].s] # "closed" => endpoint'[e] \in Live)
      BY <1>5, <1>6, <3>2, <3>3
    <3>6. QED
      BY <1>1, <3>1, <3>3, <3>4, <3>5
  <2>3. QED
    BY <2>1, <2>2 DEF HeldIsOwn
<1>11. RemovedIsClosed'
  BY <1>2, <1>3, <1>6 DEF EndInv, RemovedIsClosed
<1>12. \A s \in Sock : Young(s)' => Young(s) /\ s # r
  BY <1>5 DEF Young
<1>13. ListedLives'
  <2> SUFFICES ASSUME NEW s \in Sock, Young(s)', NEW e \in listed[s],
                      endpoint'[e] \notin Live
               PROVE  \E u \in Thread : Unlists(at'[u], s, e)
    BY <1>1 DEF ListedLives
  <2>1. of_socket[e] = s /\ e \in Endpoint
    BY <1>1 DEF EndInv, ListedIsMade, EndpointType
  <2>2. endpoint'[e] = endpoint[e]
    BY <1>6, <1>12, <2>1
  <2>3. PICK u \in Thread : Unlists(at[u], s, e)
    BY <1>12, <2>2 DEF EndInv, ListedLives
  <2>4. u # t
    BY <1>1, <2>3 DEF Unlists
  <2>5. QED
    BY <1>3, <2>3, <2>4
<1>14. LiveIsListed'
  <2> SUFFICES ASSUME NEW s \in Sock, Young(s)', NEW e \in Endpoint,
                      of_socket[e] = s, endpoint'[e] \in Live, e \notin listed[s]
               PROVE  \E u \in Thread : Holds(at'[u], e)
    BY <1>1 DEF LiveIsListed
  <2>1. endpoint[e] \in Live
    BY <1>6, <1>12
  <2>2. PICK u \in Thread : Holds(at[u], e)
    BY <1>12, <2>1 DEF EndInv, LiveIsListed
  <2>3. QED
    BY <1>3, <1>8, <2>2
<1>15. ClosedIsDead'
  <2> SUFFICES ASSUME NEW e \in Endpoint, endpoint'[e] \in Live
               PROVE  of_socket[e] \in Sock /\ sock'[of_socket[e]] # "closed"
    BY <1>1 DEF ClosedIsDead
  <2>1. of_socket[e] # r /\ endpoint[e] \in Live
    BY <1>6 DEF Live
  <2>2. QED
    BY <1>5, <2>1 DEF EndInv, ClosedIsDead
<1>16. QED
  BY <1>7, <1>9, <1>10, <1>11, <1>13, <1>14, <1>15 DEF EndInv

(* start of an endpoint, and the first half of its close.                  *)
LEMMA EndpointCalls ==
  ASSUME CallOK, MakerOK, EndInv, NEW t \in Thread,
         StartEndpoint(t) \/ CloseEndpoint(t)
  PROVE  EndInv'
<1>1. EndpointType /\ at[t] = Idle /\ at \in [Thread -> CallType]
  BY DEF EndInv, StartEndpoint, CloseEndpoint, Calls, MayCall, Ready, CallOK
<1>2. at[t].step = "idle" /\ UNCHANGED <<sock, of_socket, listed>>
  <2>1. at[t].step = "idle"
    BY <1>1 DEF Idle
  <2>2. CASE StartEndpoint(t)
    BY <2>1, <2>2 DEF StartEndpoint, sockVars
  <2>3. CASE CloseEndpoint(t)
    BY <2>1, <2>3 DEF CloseEndpoint, sockVars
  <2>4. QED
    BY <2>2, <2>3
<1>3. /\ \A s \in Sock : Young(s)' => Young(s)
      /\ \A s \in Sock : sock'[s] = "closed" <=> sock[s] = "closed"
  BY <1>2 DEF Young
<1>4. ASSUME NEW r \in Sock, NEW x \in listed[r],
             \/ endpoint[x] = "created" /\ endpoint' = [endpoint EXCEPT ![x] = "started"]
             \/ endpoint' = [endpoint EXCEPT ![x] = "closed"],
             NEW c, at' = [at EXCEPT ![t] = c],
             endpoint'[x] = "started" => c.step = "idle",
             endpoint'[x] = "closed" => Unlists(c, r, x)
      PROVE  EndInv'
  <2>1. x \in Endpoint /\ of_socket[x] = r /\ endpoint[x] # "none"
    BY <1>1 DEF EndpointType, EndInv, ListedIsMade
  <2>2. \A u \in Thread : ~Holds(at[u], x)
    BY <2>1 DEF EndInv, HeldIsOwn
  <2>3. /\ EndpointType' /\ \A e \in Endpoint \ {x} : endpoint'[e] = endpoint[e]
        /\ \/ endpoint'[x] = "started" /\ endpoint[x] = "created"
           \/ endpoint'[x] = "closed"
    <3>1. CASE endpoint[x] = "created" /\ endpoint' = [endpoint EXCEPT ![x] = "started"]
      BY <1>1, <1>2, <2>1, <3>1 DEF EndpointType
    <3>2. CASE endpoint' = [endpoint EXCEPT ![x] = "closed"]
      BY <1>1, <1>2, <2>1, <3>2 DEF EndpointType
    <3>3. QED
      BY <1>4, <3>1, <3>2
  <2>4. c.step \in {"idle", "unlist"} /\ (c.step = "unlist" => c.e = x /\ endpoint'[x] = "closed")
    BY <1>4, <2>3 DEF Unlists
  <2>5. \A e : ~Holds(c, e) /\ ~Holds(at[t], e)
    BY <1>2, <2>4 DEF Holds, Holding
  <2>6. \A s \in Sock : x \in listed[s] => s = r
    BY <2>1 DEF EndInv, ListedIsMade
  <2>7. /\ of_socket'[x] = r /\ endpoint'[x] # "none"
        /\ endpoint[x] = "closed" => endpoint'[x] = "closed"
        /\ endpoint'[x] \in Live \/ Unlists(c, r, x)
    BY <1>2, <1>4, <2>1, <2>3 DEF Live
  <2>8. endpoint'[x] \in Live => sock[r] # "closed"
    BY <2>1, <2>3 DEF EndInv, ClosedIsDead, Live
  <2>9. c.step \notin Holding /\ at[t].step # "unlist"
    BY <1>2, <2>4 DEF Holding
  <2>10. EndpointsKept(t, c, x)
    BY <1>2, <2>3, <2>5 DEF EndpointsKept
  <2>11. GoesOnWith(c) /\ TablesKept
    BY <1>2, <1>3, <2>1, <2>4, <2>9 DEF GoesOnWith, TablesKept
  <2>12. \A s \in Sock : x \in listed[s] /\ Young(s) =>
           endpoint'[x] \in Live \/ endpoint'[x] = endpoint[x] \/ Unlists(c, s, x)
    BY <2>6, <2>7
  <2>13. /\ of_socket'[x] \in Sock
         /\ endpoint'[x] \in Live =>
              sock[of_socket'[x]] # "closed" /\ x \in listed[of_socket'[x]]
    BY <2>7, <2>8
  <2>14. MayBecome(t, c, x)
    BY <2>2, <2>5, <2>6, <2>7, <2>12, <2>13 DEF MayBecome
  <2>15. QED
    BY <1>4, <2>3, <2>9, <2>10, <2>11, <2>14, OneEndpoint
<1>5. CASE StartEndpoint(t)
  <2>1. PICK r \in Sock : \E e \in listed[r] :
          endpoint[e] = "created" /\ endpoint' = [endpoint EXCEPT ![e] = "started"]
    BY <1>5 DEF StartEndpoint
  <2>2. PICK x \in listed[r] :
          endpoint[x] = "created" /\ endpoint' = [endpoint EXCEPT ![x] = "started"]
    BY <2>1
  <2>3. x \in Endpoint
    BY <1>1 DEF EndpointType
  <2>4. endpoint'[x] = "started"
    BY <1>1, <2>2, <2>3 DEF EndpointType
  <2>5. at' = [at EXCEPT ![t] = Idle] /\ Idle.step = "idle"
    BY <1>1, <1>2, <1>5 DEF StartEndpoint
  <2>6. QED
    BY <1>4, <2>2, <2>4, <2>5
<1>6. CASE CloseEndpoint(t)
  <2>1. PICK r \in Sock : \E e \in listed[r] :
          /\ Calls(t, [Call("unlist", r) EXCEPT !.e = e])
          /\ endpoint' = [endpoint EXCEPT ![e] = "closed"]
    BY <1>6 DEF CloseEndpoint
  <2>2. PICK x \in listed[r] :
          /\ Calls(t, [Call("unlist", r) EXCEPT !.e = x])
          /\ endpoint' = [endpoint EXCEPT ![x] = "closed"]
    BY <2>1
  <2> DEFINE c == [Call("unlist", r) EXCEPT !.e = x]
  <2>3. x \in Endpoint
    BY <1>1 DEF EndpointType
  <2>4. endpoint'[x] = "closed"
    BY <1>1, <2>2, <2>3 DEF EndpointType
  <2>5. /\ Call("unlist", r) \in CallType /\ Call("unlist", r).step = "unlist"
        /\ Call("unlist", r).s = r
    BY CallRecord
  <2>6. Unlists(c, r, x)
    BY <2>5 DEF CallType, Unlists
  <2>7. at' = [at EXCEPT ![t] = c]
    BY <2>2 DEF Calls
  <2> HIDE DEF c
  <2>8. QED
    BY <1>4, <2>2, <2>4, <2>6, <2>7
<1>7. QED
  BY <1>5, <1>6

(* A step of the constructor, or of dial and listen.                       *)
LEMMA MakingEndpoint ==
  ASSUME CallOK, MakerOK, EndInv, NEW t \in Thread,
         \/ NewSocket(t) \/ Open(t) \/ Register(t) \/ Configure(t)
         \/ Dial(t) \/ CreateEndpoint(t) \/ DialAtOnce(t) \/ SetTls(t)
         \/ StartOrNot(t) \/ List(t)
  PROVE  EndInv'
<1>1. /\ at[t] \in CallType /\ at \in [Thread -> CallType]
      /\ sock \in [Sock -> {"unmade", "making", "open", "closing", "closed"}]
  BY DEF CallOK
<1>2. ASSUME NEW x \in {"register", "configure", "endpoint", "lookup"},
             Goes(t, x), Making(t), UNCHANGED <<endpoint, of_socket, listed>>,
             at[t].step \in {"open", "register", "configure"},
             \/ UNCHANGED sock
             \/ sock' = [sock EXCEPT ![at[t].s] = "closing"]
      PROVE  EndInv'
  <2> DEFINE c == [at[t] EXCEPT !.step = x]
  <2>1. c.step = x
    BY <1>1 DEF CallType
  <2>2. at' = [at EXCEPT ![t] = c]
    BY <1>1, <1>2 DEF Goes
  <2> HIDE DEF c
  <2>3. /\ \A s \in Sock : sock'[s] = "closed" <=> sock[s] = "closed"
        /\ \A s \in Sock : Young(s)' => Young(s)
    <3>1. CASE UNCHANGED sock
      BY <3>1 DEF Young
    <3>2. CASE sock' = [sock EXCEPT ![at[t].s] = "closing"]
      BY <1>2, <3>2, MakerSock
    <3>3. QED
      BY <1>2, <3>1, <3>2
  <2>4. QED
    BY <1>2, <2>1, <2>2, <2>3, NoEndpoint DEF Holding
<1>3. CASE NewSocket(t)
  <2>1. PICK s \in Sock, tls \in {"none", "default"}, dials \in {0, 1, 2} :
          /\ sock[s] = "unmade"
          /\ Calls(t, [Call("open", s) EXCEPT !.tls = tls, !.new = TRUE, !.dials = dials])
          /\ sock' = [sock EXCEPT ![s] = "making"]
    BY <1>3 DEF NewSocket
  <2> DEFINE c == [Call("open", s) EXCEPT !.tls = tls, !.new = TRUE, !.dials = dials]
  <2>2. Call("open", s) \in CallType /\ Call("open", s).step = "open"
    BY CallRecord
  <2>3. c.step = "open"
    BY <2>2 DEF CallType
  <2>4. at' = [at EXCEPT ![t] = c] /\ at[t].step = "idle"
    BY <2>1 DEF Calls, MayCall, Ready, Idle
  <2> HIDE DEF c
  <2>5. /\ \A r \in Sock : sock'[r] = "closed" <=> sock[r] = "closed"
        /\ \A r \in Sock : Young(r)' => Young(r)
    BY <1>1, <2>1 DEF Young
  <2>6. QED
    BY <1>3, <2>3, <2>4, <2>5, NoEndpoint DEF NewSocket, endpointVars, Holding
<1>4. CASE Open(t)
  BY <1>2, <1>4 DEF Open, At, Dropped, Making, Makes, endpointVars
<1>5. CASE Register(t)
  BY <1>2, <1>5 DEF Register, At, Dropped, Making, Makes, endpointVars
<1>6. CASE Configure(t)
  <2>1. /\ at[t].step = "configure" /\ Making(t)
        /\ UNCHANGED <<endpoint, of_socket, listed>>
    BY <1>6 DEF Configure, At, Making, Makes, endpointVars
  <2>2. CASE Goes(t, "endpoint") /\ UNCHANGED sock
    BY <1>2, <2>1, <2>2
  <2>3. CASE Returns(t) /\ sock' = [sock EXCEPT ![at[t].s] = "open"]
    <3>1. Idle.step = "idle" /\ at' = [at EXCEPT ![t] = Idle]
      BY <2>3 DEF Idle, Returns
    <3>2. QED
      BY <2>1, <2>3, <3>1, MakerSock, NoEndpoint DEF Holding
  <2>4. CASE Dropped(t)
    BY <1>2, <2>1, <2>4 DEF Dropped
  <2>5. QED
    BY <1>6, <2>2, <2>3, <2>4 DEF Configure
<1>7. CASE Dial(t)
  <2>1. PICK s \in Sock, tls \in {"default", "explicit"}, start \in {"now", "later"},
             block \in {"auto", "no"} :
          Calls(t, [Call("endpoint", s) EXCEPT !.tls = tls, !.start = start,
                                               !.block = block])
    BY <1>7 DEF Dial
  <2> DEFINE c == [Call("endpoint", s) EXCEPT !.tls = tls, !.start = start,
                                              !.block = block]
  <2>2. Call("endpoint", s) \in CallType /\ Call("endpoint", s).step = "endpoint"
    BY CallRecord
  <2>3. c.step = "endpoint"
    BY <2>2 DEF CallType
  <2>4. at' = [at EXCEPT ![t] = c] /\ at[t].step = "idle"
    BY <2>1 DEF Calls, MayCall, Ready, Idle
  <2> HIDE DEF c
  <2>5. UNCHANGED <<sock, endpoint, of_socket, listed>>
    BY <1>7 DEF Dial, sockVars, endpointVars
  <2>6. QED
    BY <2>3, <2>4, <2>5, NoEndpoint DEF Holding, Young
<1>8. CASE CreateEndpoint(t)
  <2>1. (IF HasTls(t) THEN "set_tls" ELSE "start_or_not") \in Holding /\ "created" \in Live
    BY DEF Holding, Live
  <2>2. QED
    BY <1>8, <2>1, MadeEndpoint DEF CreateEndpoint
<1>9. CASE DialAtOnce(t)
  <2>1. "list" \in Holding /\ "started" \in Live
    BY DEF Holding, Live
  <2>2. QED
    BY <1>9, <2>1, MadeEndpoint DEF DialAtOnce
<1>10. CASE SetTls(t)
  <2>1. at[t].step \in Holding /\ "start_or_not" \in Holding /\ UNCHANGED <<of_socket, listed>>
    BY <1>10 DEF SetTls, At, Holding
  <2>2. CASE Goes(t, "start_or_not") /\ UNCHANGED <<sock, endpoint>>
    BY <2>1, <2>2, KeepsEndpoint
  <2>3. CASE GivesUp(t)
    BY <2>1, <2>3, RaisesEndpoint DEF GivesUp
  <2>4. QED
    BY <1>10, <2>2, <2>3 DEF SetTls
<1>11. CASE StartOrNot(t)
  <2>1. at[t].step \in Holding /\ "list" \in Holding /\ UNCHANGED <<of_socket, listed>>
    BY <1>11 DEF StartOrNot, At, Holding
  <2>2. CASE /\ Goes(t, "list") /\ UNCHANGED sock
             /\ \/ UNCHANGED endpoint
                \/ /\ endpoint[at[t].e] = "created"
                   /\ endpoint' = [endpoint EXCEPT ![at[t].e] = "started"]
    BY <2>1, <2>2, KeepsEndpoint
  <2>3. CASE GivesUp(t)
    BY <2>1, <2>3, RaisesEndpoint DEF GivesUp
  <2>4. CASE /\ endpoint' = [endpoint EXCEPT ![at[t].e] = "closed"]
             /\ at' = [at EXCEPT ![t].step = "endpoint", ![t].block = "no",
                                 ![t].e = Nobody]
             /\ UNCHANGED sock
    BY <2>1, <2>4, RetriesEndpoint
  <2>5. QED
    BY <1>11, <2>2, <2>3, <2>4 DEF StartOrNot
<1>12. QED
  BY <1>3, <1>4, <1>5, <1>6, <1>7, <1>8, <1>9, <1>10, <1>11, ListEndpoint

(* A step of the call that closes a socket.                                *)
LEMMA ClosingEndpoint ==
  ASSUME CallOK, MakerOK, EndInv, NEW t \in Thread,
         CloseSocket(t) \/ LookUp(t) \/ Pop(t)
  PROVE  EndInv'
<1>1. /\ at[t] \in CallType /\ at \in [Thread -> CallType]
      /\ sock \in [Sock -> {"unmade", "making", "open", "closing", "closed"}]
  BY DEF CallOK
<1>2. UNCHANGED <<endpoint, of_socket, listed>>
  BY DEF CloseSocket, LookUp, Pop, endpointVars
<1>3. CASE CloseSocket(t)
  <2>1. PICK r \in Sock : /\ sock[r] = "open"
                          /\ Calls(t, Call("lookup", r))
                          /\ sock' = [sock EXCEPT ![r] = "closing"]
    BY <1>3 DEF CloseSocket
  <2>2. Call("lookup", r).step = "lookup"
    BY CallRecord
  <2>3. at' = [at EXCEPT ![t] = Call("lookup", r)] /\ at[t].step = "idle"
    BY <2>1 DEF Calls, MayCall, Ready, Idle
  <2>4. /\ \A s \in Sock : sock'[s] = "closed" <=> sock[s] = "closed"
        /\ \A s \in Sock : Young(s)' => Young(s)
    BY <1>1, <2>1 DEF Young
  <2>5. QED
    BY <1>2, <2>2, <2>3, <2>4, NoEndpoint DEF Holding
<1>4. CASE LookUp(t) \/ Pop(t)
  <2>1. UNCHANGED sock /\ at[t].step \in {"lookup", "pop"}
    BY <1>4 DEF LookUp, Pop, At, sockVars
  <2>2. PICK c : at' = [at EXCEPT ![t] = c] /\ c.step \in {"pop", "close_fn"}
    <3>1. CASE LookUp(t)
      <4>1. PICK found : at' = [at EXCEPT ![t].step = "pop", ![t].found = found]
        BY <3>1 DEF LookUp, After
      <4> DEFINE c == [at[t] EXCEPT !.step = "pop", !.found = found]
      <4>2. c.step = "pop" /\ at' = [at EXCEPT ![t] = c]
        BY <1>1, <4>1 DEF CallType
      <4> HIDE DEF c
      <4>3. QED
        BY <4>2
    <3>2. CASE Pop(t)
      <4> DEFINE c == [at[t] EXCEPT !.step = "close_fn"]
      <4>1. c.step = "close_fn" /\ at' = [at EXCEPT ![t] = c]
        BY <1>1, <3>2 DEF CallType, Pop, Goes, After
      <4> HIDE DEF c
      <4>2. QED
        BY <4>1
    <3>3. QED
      BY <1>4, <3>1, <3>2
  <2>3. QED
    BY <1>2, <2>1, <2>2, NoEndpoint DEF Holding, Young
<1>5. QED
  BY <1>3, <1>4

(* Any step.                                                               *)
LEMMA EndpointStep ==
  ASSUME CallOK, MakerOK, EndInv, SocketsNext PROVE EndInv'
<1>1. ASSUME UNCHANGED <<at, sock, endpoint, of_socket, listed>> PROVE EndInv'
  BY <1>1 DEF EndInv, EndpointType, ListedIsMade, HeldIsOwn, RemovedIsClosed,
              ListedLives, LiveIsListed, ClosedIsDead, Young
<1>2. ASSUME NEW t \in Thread,
             \/ SetEndpointTls(t) \/ SetSocketTls(t)
             \/ TlsCall(t) \/ TlsGoesOn(t) \/ SubCall(t) \/ SubGoesOn(t)
      PROVE  EndInv'
  <2>1. UNCHANGED <<at, sock, endpoint, of_socket, listed>>
    BY <1>2 DEF SetEndpointTls, SetSocketTls, TlsCall, TlsGoesOn, SubCall,
                SubGoesOn, others, sockVars, endpointVars
  <2>2. QED
    BY <1>1, <2>1
<1>3. CASE DropTls \/ Import
  <2>1. UNCHANGED <<at, sock, endpoint, of_socket, listed>>
    BY <1>3 DEF DropTls, Import, others, sockVars, endpointVars
  <2>2. QED
    BY <1>1, <2>1
<1>4. QED
  BY <1>2, <1>3, MakingEndpoint, EndpointCalls, ClosingEndpoint, UnlistEndpoint,
     CloseFnEndpoints DEF SocketsNext

(* Socket.dialers and Socket.listeners are the live endpoints that nng has *)
(* of the socket, whatever dial, listen, a constructor or a close did or   *)
(* failed to do at the same time: EndpointsListed.                         *)
THEOREM EndpointsAreListed == SocketsSpec => []EndpointsListed
<1> DEFINE EInv == Inv /\ EndInv
<1>1. SocketsInit => EInv
  <2> SUFFICES ASSUME SocketsInit PROVE EndInv
    BY InitInv
  <2>1. \A t \in Thread : at[t].step = "idle"
    BY DEF SocketsInit, Idle
  <2>2. EndpointType /\ ListedIsMade /\ ListedLives /\ LiveIsListed /\ ClosedIsDead
    BY DEF SocketsInit, EndpointType, ListedIsMade, ListedLives, LiveIsListed,
           ClosedIsDead, Live
  <2>3. HeldIsOwn /\ RemovedIsClosed
    BY <2>1 DEF HeldIsOwn, RemovedIsClosed, Holds, Holding
  <2>4. QED
    BY <2>2, <2>3 DEF EndInv
<1>2. EInv /\ [SocketsNext \/ AllIdle]_vars => EInv'
  <2> SUFFICES ASSUME EInv, [SocketsNext \/ AllIdle]_vars PROVE EInv'
    OBVIOUS
  <2>1. Inv'
    BY InvStep
  <2>2. CASE SocketsNext
    BY <2>1, <2>2, EndpointStep DEF Inv
  <2>3. CASE AllIdle \/ UNCHANGED vars
    <3>1. UNCHANGED <<at, sock, endpoint, of_socket, listed>>
      BY <2>3 DEF AllIdle, vars, sockVars, endpointVars
    <3>2. EndInv'
      BY <3>1 DEF EndInv, EndpointType, ListedIsMade, HeldIsOwn, RemovedIsClosed,
                  ListedLives, LiveIsListed, ClosedIsDead, Young
    <3>3. QED
      BY <2>1, <3>2
  <2>4. QED
    BY <2>2, <2>3
<1>3. EInv => EndpointsListed
  <2> SUFFICES ASSUME EInv, NEW s \in Sock
               PROVE  /\ (sock[s] = "open" /\ ~InUse(s)) =>
                           listed[s] = {e \in Endpoint : of_socket[e] = s /\ endpoint[e] \in Live}
                      /\ sock[s] = "closed" =>
                           \A e \in Endpoint : of_socket[e] = s => endpoint[e] \notin Live
    BY DEF EndpointsListed
  <2>1. ASSUME sock[s] = "open", ~InUse(s), NEW e \in Endpoint
        PROVE  e \in listed[s] <=> of_socket[e] = s /\ endpoint[e] \in Live
    <3>1. Young(s)
      BY <2>1 DEF Young
    <3>2. ASSUME e \in listed[s] PROVE of_socket[e] = s /\ endpoint[e] \in Live
      BY <2>1, <3>1, <3>2 DEF EndInv, ListedIsMade, ListedLives, Unlists, InUse
    <3>3. ASSUME of_socket[e] = s, endpoint[e] \in Live PROVE e \in listed[s]
      BY <2>1, <3>1, <3>3 DEF EndInv, LiveIsListed, HeldIsOwn, InUse
    <3>4. QED
      BY <3>2, <3>3
  <2>2. listed[s] \subseteq Endpoint
    BY DEF EndInv, EndpointType
  <2>3. sock[s] = "closed" => \A e \in Endpoint : of_socket[e] = s => endpoint[e] \notin Live
    BY DEF EndInv, ClosedIsDead
  <2>4. QED
    BY <2>1, <2>2, <2>3
<1>4. QED
  BY <1>1, <1>2, <1>3, PTL DEF SocketsSpec
=============================================================================
