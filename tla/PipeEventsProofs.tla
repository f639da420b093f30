--------------------------- MODULE PipeEventsProofs ---------------------------
(***************************************************************************)
(* Theorems about PipeEvents and PipeEventStream, for any set of pipes,    *)
(* connectors and tasks.  The dispatcher keeps the promises of             *)
(* PipeCallbacks, is silent about a pipe that its callback closed, and     *)
(* feeds the stream faithfully, as long as no id of a removed pipe is      *)
(* evicted (Remembers); that is never while there are MaxRemoved pipes or  *)
(* fewer.                                                                  *)
(***************************************************************************)
EXTENDS PipeEventStream, SequenceTheorems, FiniteSetTheorems, TLAPS

------------------------------------------------------------------------------
(* The sequences of callbacks.                                             *)

Kind == {"pre", "post", "remove"}

(* A sequence that has one element more is what Append and \o make it.     *)
LEMMA OneMore ==
  ASSUME NEW s \in Seq(Kind), NEW k \in Kind, NEW t \in Seq(Kind),
         Len(t) = Len(s) + 1, t[Len(s) + 1] = k,
         \A i \in 1..Len(s) : t[i] = s[i]
  PROVE  Append(s, k) = t /\ s \o <<k>> = t
<1>1. Append(s, k) = t
  <2>1. /\ Append(s, k) \in Seq(Kind) /\ Len(Append(s, k)) = Len(s) + 1
        /\ \A i \in 1..Len(s) : Append(s, k)[i] = s[i]
        /\ Append(s, k)[Len(s) + 1] = k
    BY AppendProperties
  <2>2. Len(s) \in Nat
    BY LenProperties, Zenon
  <2>3. ASSUME NEW i \in 1..Len(Append(s, k)) PROVE Append(s, k)[i] = t[i]
    <3>1. i \in 1..Len(s) \/ i = Len(s) + 1
      BY <2>1, <2>2
    <3> QED BY <2>1, <3>1, Zenon
  <2> QED BY <2>1, <2>3, SeqEqual, Zenon
<1>2. Append(s, k) = s \o <<k>>
  BY AppendIsConcat, Zenon
<1> QED BY <1>1, <1>2

(* What the dispatcher calls for one pipe.                                 *)
LEMMA CallSequences ==
  /\ <<>> \o <<"pre">> = <<"pre">> /\ Append(<<>>, "pre") = <<"pre">>
  /\ <<"pre">> \o <<"post">> = <<"pre", "post">>
  /\ Append(<<"pre">>, "post") = <<"pre", "post">>
  /\ <<"pre">> \o <<"remove">> = <<"pre", "remove">>
  /\ Append(<<"pre">>, "remove") = <<"pre", "remove">>
  /\ <<"pre", "post">> \o <<"remove">> = <<"pre", "post", "remove">>
  /\ Append(<<"pre", "post">>, "remove") = <<"pre", "post", "remove">>
  /\ <<"pre">> \o <<>> = <<"pre">>
  /\ <<"pre", "post">> \o <<>> = <<"pre", "post">>
<1>1. /\ <<>> \in Seq(Kind) /\ <<"pre">> \in Seq(Kind)
      /\ <<"pre", "post">> \in Seq(Kind) /\ <<"pre", "remove">> \in Seq(Kind)
      /\ <<"pre", "post", "remove">> \in Seq(Kind)
      /\ "pre" \in Kind /\ "post" \in Kind /\ "remove" \in Kind
  BY DEF Kind
<1>2. /\ <<>> \o <<"pre">> = <<"pre">>
      /\ Append(<<>>, "pre") = <<"pre">>
  <2> DEFINE s == <<>>
             t == <<"pre">>
  <2>1. /\ s \in Seq(Kind) /\ t \in Seq(Kind)
        /\ Len(t) = Len(s) + 1 /\ t[Len(s) + 1] = "pre"
        /\ \A i \in 1..Len(s) : t[i] = s[i]
    BY <1>1
  <2> HIDE DEF s, t
  <2>2. Append(s, "pre") = t /\ s \o <<"pre">> = t
    BY <1>1, <2>1, OneMore, Zenon
  <2> QED BY <2>2, Zenon DEF s, t
<1>3. /\ <<"pre">> \o <<"post">> = <<"pre", "post">>
      /\ Append(<<"pre">>, "post") = <<"pre", "post">>
  <2> DEFINE s == <<"pre">>
             t == <<"pre", "post">>
  <2>1. /\ s \in Seq(Kind) /\ t \in Seq(Kind)
        /\ Len(t) = Len(s) + 1 /\ t[Len(s) + 1] = "post"
        /\ \A i \in 1..Len(s) : t[i] = s[i]
    BY <1>1
  <2> HIDE DEF s, t
  <2>2. Append(s, "post") = t /\ s \o <<"post">> = t
    BY <1>1, <2>1, OneMore, Zenon
  <2> QED BY <2>2, Zenon DEF s, t
<1>4. /\ <<"pre">> \o <<"remove">> = <<"pre", "remove">>
      /\ Append(<<"pre">>, "remove") = <<"pre", "remove">>
  <2> DEFINE s == <<"pre">>
             t == <<"pre", "remove">>
  <2>1. /\ s \in Seq(Kind) /\ t \in Seq(Kind)
        /\ Len(t) = Len(s) + 1 /\ t[Len(s) + 1] = "remove"
        /\ \A i \in 1..Len(s) : t[i] = s[i]
    BY <1>1
  <2> HIDE DEF s, t
  <2>2. Append(s, "remove") = t /\ s \o <<"remove">> = t
    BY <1>1, <2>1, OneMore, Zenon
  <2> QED BY <2>2, Zenon DEF s, t
<1>5. /\ <<"pre", "post">> \o <<"remove">> = <<"pre", "post", "remove">>
      /\ Append(<<"pre", "post">>, "remove") = <<"pre", "post", "remove">>
  <2> DEFINE s == <<"pre", "post">>
             t == <<"pre", "post", "remove">>
  <2>1. /\ s \in Seq(Kind) /\ t \in Seq(Kind)
        /\ Len(t) = Len(s) + 1 /\ t[Len(s) + 1] = "remove"
        /\ \A i \in 1..Len(s) : t[i] = s[i]
    BY <1>1
  <2> HIDE DEF s, t
  <2>2. Append(s, "remove") = t /\ s \o <<"remove">> = t
    BY <1>1, <2>1, OneMore, Zenon
  <2> QED BY <2>2, Zenon DEF s, t
<1>6. <<"pre">> \o <<>> = <<"pre">> /\ <<"pre", "post">> \o <<>> = <<"pre", "post">>
  BY <1>1, ConcatEmptySeq
<1> QED BY <1>2, <1>3, <1>4, <1>5, <1>6

(* They are different.                                                     *)
LEMMA CallsDiffer ==
  /\ <<>> # <<"pre">> /\ <<"pre">> # <<"pre", "post">>
  /\ <<>> # <<"pre", "post">>
OBVIOUS

------------------------------------------------------------------------------
(* The inductive invariant.                                                *)

InCallbacks(c) == c \in {"pre_callbacks", "post_callbacks"}

(* The threads that run callbacks of a pipe: one at most.                  *)
RunningOK(p) ==
  /\ running[p] = (IF InCallbacks(connector[p]) THEN {"connector"} ELSE {})
                    \cup (IF reaper[p] = "callbacks" THEN {"reaper"} ELSE {})
  /\ reaper[p] = "callbacks" => ~InCallbacks(connector[p])

(* When a pipe has its _PipeState, and what the flags of it say.           *)
StateOK(p) ==
  /\ connector[p] \in {"idle", "add_pre"} => p \notin pipe_states
  /\ connector[p] = "pre_callbacks" => p \in pipe_states \ (added \cup rejected)
  /\ connector[p] = "post_callbacks" => p \in pipe_states \cap added
  /\ p \in pipes <=> p \in pipe_states \ rejected
  /\ p \in pipe_states \cap rejected => p \notin added
  /\ p \in pipe_states \cap added => connector[p] \in {"post_callbacks", "done"}
  /\ reaper[p] \in {"waiting", "woken", "callbacks"} => p \in pipe_states
  /\ reaper[p] = "done" => p \notin pipe_states

(* What was called for it.                                                 *)
CalledOK(p) ==
  /\ connector[p] \in {"idle", "add_pre"} => called[p] = <<>>
  /\ p \in pipe_states /\ reaper[p] # "callbacks" =>
       called[p] = IF p \in added THEN <<"pre", "post">> ELSE <<"pre">>
  /\ reaper[p] = "callbacks" =>
       IF p \in rejected THEN called[p] = <<"pre">>
       ELSE called[p] \in {<<"pre", "remove">>, <<"pre", "post", "remove">>}

(* No ADD event comes late: the id of a pipe that the reaper has met is    *)
(* remembered, unless the connector is past its last event.                *)
LateOK(p) ==
  /\ reaper[p] # "idle" =>
       \/ IsRemoved(p)
       \/ p \in added /\ connector[p] \in {"post_callbacks", "done"}
  /\ connector[p] \in {"between", "add_post"} /\ ~IsRemoved(p) => p \in pipe_states

PipeOK(p) == RunningOK(p) /\ StateOK(p) /\ CalledOK(p) /\ LateOK(p)

PipesOK == \A p \in Pipe : PipeOK(p)

(* A pipe that its pre-connect callback has closed, and whose other        *)
(* callbacks will not be called.                                           *)
Silent(p) ==
  /\ p \in pipe_closed \ added
  /\ called[p] = <<"pre">>
  /\ \/ connector[p] = "pre_callbacks"
     \/ p \in rejected /\ connector[p] \notin {"idle", "add_pre"}

------------------------------------------------------------------------------
(* Types.                                                                  *)

(* _removed_pipe_ids: the new id is in it, and it stays within its bound.  *)
LEMMA Remembering ==
  ASSUME TypeOK, NEW p \in Pipe, Remember(p)
  PROVE  /\ removed_pipe_ids' \in Seq(Pipe) /\ Len(removed_pipe_ids') <= MaxRemoved
         /\ p \in Range(removed_pipe_ids')
<1> DEFINE ids == Append(removed_pipe_ids, p)
<1>1. removed_pipe_ids \in Seq(Pipe) /\ Len(removed_pipe_ids) <= MaxRemoved
  BY DEF TypeOK
<1>2. /\ ids \in Seq(Pipe) /\ ids # <<>> /\ Len(ids) = Len(removed_pipe_ids) + 1
      /\ ids[Len(removed_pipe_ids) + 1] = p
  BY <1>1, AppendProperties
<1>3. Len(removed_pipe_ids) \in Nat /\ MaxRemoved \in Nat \ {0}
  BY <1>1, LenProperties, RemovedAssumption
<1>4. removed_pipe_ids' = IF Len(ids) > MaxRemoved THEN Tail(ids) ELSE ids
  BY DEF Remember
<1> HIDE DEF ids
<1>5. CASE Len(ids) > MaxRemoved
  <2>1. /\ Tail(ids) \in Seq(Pipe) /\ Len(Tail(ids)) = Len(removed_pipe_ids)
        /\ \A i \in 1..Len(Tail(ids)) : Tail(ids)[i] = ids[i + 1]
    BY <1>2, <1>3, HeadTailProperties
  <2>2. Len(removed_pipe_ids) \in 1..Len(Tail(ids))
    BY <1>1, <1>2, <1>3, <1>5, <2>1
  <2>3. Tail(ids)[Len(removed_pipe_ids)] = p /\ Len(removed_pipe_ids) \in DOMAIN Tail(ids)
    BY <1>2, <2>1, <2>2
  <2> QED BY <1>1, <1>4, <1>5, <2>1, <2>3 DEF Range
<1>6. CASE ~(Len(ids) > MaxRemoved)
  <2>1. Len(removed_pipe_ids) + 1 \in DOMAIN ids
    BY <1>2, <1>3
  <2> QED BY <1>2, <1>3, <1>4, <1>6, <2>1 DEF Range
<1> QED BY <1>5, <1>6

(* A handler that starts on the callbacks calls those of its event.        *)
LEMMA StartType ==
  ASSUME TypeOK, NEW p \in Pipe, NEW thread \in {"connector", "reaper"},
         NEW kinds \in Seq(Kind), StartCallbacks(p, thread, kinds)
  PROVE  /\ running' \in [Pipe -> SUBSET {"connector", "reaper"}]
         /\ called' \in [Pipe -> Seq(Kind)]
<1>1. called \in [Pipe -> Seq(Kind)]
  BY DEF TypeOK, Kind
<1>2. called[p] \o kinds \in Seq(Kind)
  BY <1>1, ConcatProperties
<1>3. called' \in [Pipe -> Seq(Kind)]
  BY <1>1, <1>2 DEF StartCallbacks
<1> QED BY <1>3 DEF TypeOK, StartCallbacks

(* One that has run them wakes the reapers that wait.                      *)
LEMMA StopType ==
  ASSUME TypeOK, NEW p \in Pipe, NEW thread \in {"connector", "reaper"},
         StopCallbacks(p, thread)
  PROVE  /\ running' \in [Pipe -> SUBSET {"connector", "reaper"}]
         /\ reaper' \in [Pipe -> {"idle", "waiting", "woken", "callbacks", "done"}]
<1>1. running' \in [Pipe -> SUBSET {"connector", "reaper"}]
  BY DEF StopCallbacks, TypeOK
<1>2. \A q \in Pipe : reaper[q] \in {"idle", "waiting", "woken", "callbacks", "done"}
  BY DEF TypeOK
<1> QED BY <1>1, <1>2 DEF StopCallbacks

(* A step keeps the types.                                                 *)
LEMMA TypeStep ==
  ASSUME TypeOK, Next PROVE TypeOK'
<1> USE DEF stateVars, closeVars
<1>0. \A k \in Kind : <<k>> \in Seq(Kind)
  OBVIOUS
<1>1. ASSUME NEW p \in Pipe,
             SendAddPre(p) \/ AddPreDropped(p) \/ SendAddPost(p) \/ AddPostDropped(p)
      PROVE  TypeOK'
  BY <1>1 DEF TypeOK, SendAddPre, AddPreDropped, SendAddPost, AddPostDropped
<1>2. ASSUME NEW p \in Pipe, AddPre(p) PROVE TypeOK'
  <2>1. /\ running' \in [Pipe -> SUBSET {"connector", "reaper"}]
        /\ called' \in [Pipe -> Seq(Kind)]
    BY <1>0, <1>2, StartType DEF AddPre, Kind
  <2> QED BY <1>2, <2>1 DEF TypeOK, AddPre, StateOf, Kind
<1>3. ASSUME NEW p \in Pipe, AddPost(p) PROVE TypeOK'
  <2>1. /\ running' \in [Pipe -> SUBSET {"connector", "reaper"}]
        /\ called' \in [Pipe -> Seq(Kind)]
    BY <1>0, <1>3, StartType DEF AddPost, Kind
  <2> QED BY <1>3, <2>1 DEF TypeOK, AddPost, StateOf, Kind
<1>4. ASSUME NEW p \in Pipe, AddPreDone(p) \/ AddPostDone(p) PROVE TypeOK'
  BY <1>4, StopType DEF TypeOK, AddPreDone, AddPostDone
<1>5. ASSUME NEW p \in Pipe, WaitOrRemove(p), p \in Pipe
      PROVE  /\ running' \in [Pipe -> SUBSET {"connector", "reaper"}]
             /\ called' \in [Pipe -> Seq({"pre", "post", "remove"})]
             /\ reaper' \in [Pipe -> {"idle", "waiting", "woken", "callbacks", "done"}]
  <2>1. CASE MustWait(p) /\ UNCHANGED <<running, called>>
    BY <1>5, <2>1 DEF TypeOK, WaitOrRemove
  <2>2. CASE StartCallbacks(p, "reaper", IF p \in rejected THEN <<>> ELSE <<"remove">>)
    <3>1. (IF p \in rejected THEN <<>> ELSE <<"remove">>) \in Seq(Kind)
      <4>1. <<>> \in Seq(Kind) /\ <<"remove">> \in Seq(Kind)
        BY <1>0, EmptySeq DEF Kind
      <4> QED BY <4>1
    <3>2. /\ running' \in [Pipe -> SUBSET {"connector", "reaper"}]
          /\ called' \in [Pipe -> Seq(Kind)]
      BY <2>2, <3>1, StartType, Zenon
    <3> QED BY <1>5, <3>2 DEF WaitOrRemove, TypeOK, Kind
  <2> QED BY <1>5, <2>1, <2>2 DEF WaitOrRemove
<1>6. ASSUME NEW p \in Pipe, RemPost(p) PROVE TypeOK'
  <2>1. removed_pipe_ids' \in Seq(Pipe) /\ Len(removed_pipe_ids') <= MaxRemoved
    <3>1. CASE p \in added
      BY <1>6, <3>1 DEF RemPost, TypeOK
    <3>2. CASE p \notin added
      BY <1>6, <3>2, Remembering DEF RemPost
    <3> QED BY <3>1, <3>2
  <2> QED BY <1>5, <1>6, <2>1 DEF TypeOK, RemPost
<1>7. ASSUME NEW p \in Pipe, RemPostWoken(p) PROVE TypeOK'
  BY <1>5, <1>7 DEF TypeOK, RemPostWoken
<1>8. ASSUME NEW p \in Pipe, RemPostUnseen(p) PROVE TypeOK'
  BY <1>8, Remembering DEF TypeOK, RemPostUnseen
<1>9. ASSUME NEW p \in Pipe, RemPostDone(p) PROVE TypeOK'
  BY <1>9, StopType DEF TypeOK, RemPostDone
<1>10. ASSUME NEW p \in Pipe, PipeLost(p) \/ PipeClose(p) \/ PipeClosed(p) PROVE TypeOK'
  BY <1>10 DEF TypeOK, PipeLost, PipeClose, PipeClosed
<1>11. ASSUME NEW t, SocketClose(t) PROVE TypeOK'
  BY <1>11 DEF TypeOK, SocketClose, InCallback, Nobody
<1>12. CASE CloseFnStart \/ CloseFnReturn
  BY <1>12 DEF TypeOK, CloseFnStart, CloseFnReturn
<1> QED BY <1>1, <1>2, <1>3, <1>4, <1>6, <1>7, <1>8, <1>9, <1>10, <1>11, <1>12
           DEF Next, Connector, Reaper

(* The first state has them.                                               *)
LEMMA TypeInit ==
  ASSUME Init PROVE TypeOK
<1>1. removed_pipe_ids \in Seq(Pipe) /\ Len(removed_pipe_ids) <= MaxRemoved
  <2>1. <<>> \in Seq(Pipe) /\ Len(<<>>) = 0
    BY EmptySeq
  <2>2. removed_pipe_ids = <<>>
    BY DEF Init
  <2> QED BY <2>1, <2>2, RemovedAssumption
<1>2. called \in [Pipe -> Seq({"pre", "post", "remove"})]
  <2>1. <<>> \in Seq({"pre", "post", "remove"})
    BY EmptySeq
  <2>2. called = [p \in Pipe |-> <<>>]
    BY DEF Init
  <2> QED BY <2>1, <2>2
<1> QED BY <1>1, <1>2 DEF Init, TypeOK, Nobody

(* Types, and the memory of removed ids within its bound.                  *)
THEOREM TypeCorrect == Spec => []TypeOK
<1>1. Init => TypeOK
  BY TypeInit
<1>2. TypeOK /\ [Next \/ Finished]_vars => TypeOK'
  <2>1. ASSUME TypeOK, UNCHANGED vars PROVE TypeOK'
    BY <2>1 DEF TypeOK, vars
  <2> QED BY <2>1, TypeStep DEF Finished
<1> QED BY <1>1, <1>2, PTL DEF Spec

------------------------------------------------------------------------------
(* The invariant is kept, as long as no id is evicted.                     *)

(* No step makes _removed_pipe_ids forget an id.                           *)
Remembers == Range(removed_pipe_ids) \subseteq Range(removed_pipe_ids')

(* What a step leaves alone: all but that a reaper is woken.               *)
LeavesAlone(q) ==
  /\ connector'[q] = connector[q]
  /\ reaper'[q] = reaper[q] \/ (reaper[q] = "waiting" /\ reaper'[q] = "woken")
  /\ running'[q] = running[q]
  /\ called'[q] = called[q]
  /\ q \in pipe_states' <=> q \in pipe_states
  /\ q \in pipes' <=> q \in pipes
  /\ q \in added' <=> q \in added
  /\ q \in rejected' <=> q \in rejected

(* A pipe that is left alone is as it was.                                 *)
LEMMA OtherPipe ==
  ASSUME Remembers, NEW q \in Pipe, PipeOK(q), LeavesAlone(q)
  PROVE  PipeOK(q)'
<1>1. IsRemoved(q) => IsRemoved(q)'
  BY DEF Remembers, IsRemoved
<1> QED BY <1>1 DEF LeavesAlone, PipeOK, RunningOK, StateOK, CalledOK, LateOK

(* A step of one pipe leaves the others alone.                             *)
LEMMA OnePipe ==
  ASSUME PipesOK, Remembers, NEW p \in Pipe, PipeOK(p)',
         \A q \in Pipe : q # p => LeavesAlone(q)
  PROVE  PipesOK'
BY OtherPipe DEF PipesOK

(* A step that changes nothing of any pipe.                                *)
LEMMA NoPipe ==
  ASSUME PipesOK, Remembers, \A q \in Pipe : LeavesAlone(q)
  PROVE  PipesOK'
BY OtherPipe DEF PipesOK

(* The steps of the connector and of nng that call nothing.                *)
LEMMA ConnectorQuiet ==
  ASSUME TypeOK, PipesOK, Remembers, NEW p \in Pipe,
         SendAddPre(p) \/ AddPreDropped(p) \/ SendAddPost(p) \/ AddPostDropped(p)
  PROVE  PipesOK'
<1> DEFINE quiet == <<pipe_states, pipes, removed_pipe_ids, added, rejected, running,
                      reaper, called>>
<1>1. UNCHANGED quiet /\ \A q \in Pipe : q # p => connector'[q] = connector[q]
  BY DEF SendAddPre, AddPreDropped, SendAddPost, AddPostDropped, stateVars, closeVars, TypeOK
<1>2. \/ connector[p] = "idle" /\ connector'[p] = "add_pre"
      \/ /\ connector[p] = "add_pre" /\ connector'[p] = "between"
         /\ IsRemoved(p) \/ p \in pipe_states
      \/ connector[p] = "between" /\ connector'[p] \in {"add_post", "done"}
      \/ connector[p] = "add_post" /\ connector'[p] = "done"
  BY DEF SendAddPre, AddPreDropped, SendAddPost, AddPostDropped, TypeOK
<1>3. PipeOK(p) /\ (IsRemoved(p) <=> IsRemoved(p)')
  BY <1>1 DEF PipesOK, IsRemoved
<1>4. PipeOK(p)'
  BY <1>1, <1>2, <1>3, CallsDiffer
     DEF PipeOK, RunningOK, StateOK, CalledOK, LateOK, InCallbacks
<1>5. \A q \in Pipe : q # p => LeavesAlone(q)
  BY <1>1 DEF LeavesAlone
<1> QED BY <1>4, <1>5, OnePipe

(* ADD_PRE and the return of its callbacks.                                *)
LEMMA ConnectorPre ==
  ASSUME TypeOK, PipesOK, Remembers, NEW p \in Pipe, AddPre(p) \/ AddPreDone(p)
  PROVE  PipesOK'
<1>1. PipeOK(p)
  BY DEF PipesOK
<1>2. CASE AddPre(p)
  <2>1. /\ p \in pipe_states' /\ p \in pipes' /\ p \notin added' /\ p \notin rejected'
        /\ running'[p] = running[p] \cup {"connector"} /\ called'[p] = called[p] \o <<"pre">>
        /\ connector[p] = "add_pre" /\ connector'[p] = "pre_callbacks" /\ reaper' = reaper
        /\ ~IsRemoved(p) /\ removed_pipe_ids' = removed_pipe_ids
    BY <1>2 DEF AddPre, StateOf, StartCallbacks, TypeOK
  <2>2. \A q \in Pipe : q # p => LeavesAlone(q)
    BY <1>2 DEF AddPre, StateOf, StartCallbacks, TypeOK, LeavesAlone
  <2>3. called'[p] = <<"pre">> /\ reaper[p] = "idle"
    BY <1>1, <2>1, CallSequences DEF PipeOK, CalledOK, LateOK
  <2>4. PipeOK(p)'
    BY <1>1, <2>1, <2>3 DEF PipeOK, RunningOK, StateOK, CalledOK, LateOK, InCallbacks
  <2> QED BY <2>2, <2>4, OnePipe
<1>3. CASE AddPreDone(p)
  <2>1. /\ UNCHANGED <<pipe_states, removed_pipe_ids, added, called>>
        /\ running'[p] = running[p] \ {"connector"}
        /\ connector[p] = "pre_callbacks" /\ connector'[p] = "between"
        /\ reaper'[p] = IF reaper[p] = "waiting" THEN "woken" ELSE reaper[p]
    BY <1>3 DEF AddPreDone, StopCallbacks, TypeOK
  <2>2. \/ p \in rejected' /\ p \notin pipes'
        \/ rejected' = rejected /\ pipes' = pipes
    BY <1>3 DEF AddPreDone
  <2>3. \A q \in Pipe : q # p => LeavesAlone(q)
    BY <1>3 DEF AddPreDone, StopCallbacks, TypeOK, LeavesAlone
  <2>4. IsRemoved(p) <=> IsRemoved(p)'
    BY <2>1 DEF IsRemoved
  <2>5. PipeOK(p)'
    BY <1>1, <2>1, <2>2, <2>4 DEF PipeOK, RunningOK, StateOK, CalledOK, LateOK, InCallbacks
  <2> QED BY <2>3, <2>5, OnePipe
<1> QED BY <1>2, <1>3

(* An ADD_POST that is not dropped finds the pipe as ADD_PRE has left it.  *)
LEMMA PostFinds ==
  ASSUME PipesOK, NEW p \in Pipe, AddPost(p)
  PROVE  /\ called[p] = <<"pre">> /\ reaper[p] = "idle"
         /\ p \in pipe_states \cap pipes /\ p \notin rejected /\ running[p] = {}
<1>1. /\ connector[p] = "add_post" /\ ~IsRemoved(p) /\ PipeOK(p)
      /\ p \in pipe_states => p \notin added \cup rejected
  BY DEF AddPost, DropsAddPost, PipesOK
<1> QED BY <1>1 DEF PipeOK, RunningOK, StateOK, CalledOK, LateOK, InCallbacks

(* ADD_POST and the return of its callbacks.                               *)
LEMMA ConnectorPost ==
  ASSUME TypeOK, PipesOK, Remembers, NEW p \in Pipe, AddPost(p) \/ AddPostDone(p)
  PROVE  PipesOK'
<1>1. PipeOK(p)
  BY DEF PipesOK
<1>2. CASE AddPost(p)
  <2>1. /\ p \in pipe_states' /\ p \in pipes' /\ p \in added' /\ p \notin rejected'
        /\ running'[p] = running[p] \cup {"connector"} /\ called'[p] = called[p] \o <<"post">>
        /\ connector'[p] = "post_callbacks" /\ reaper' = reaper
    BY <1>2 DEF AddPost, StateOf, StartCallbacks, TypeOK
  <2>2. \A q \in Pipe : q # p => LeavesAlone(q)
    BY <1>2 DEF AddPost, StateOf, StartCallbacks, TypeOK, LeavesAlone
  <2>3. called'[p] = <<"pre", "post">> /\ reaper[p] = "idle" /\ running[p] = {}
    BY <1>2, <2>1, PostFinds, CallSequences
  <2>4. PipeOK(p)'
    BY <2>1, <2>3 DEF PipeOK, RunningOK, StateOK, CalledOK, LateOK, InCallbacks
  <2> QED BY <2>2, <2>4, OnePipe
<1>3. CASE AddPostDone(p)
  <2>1. /\ UNCHANGED <<pipe_states, pipes, removed_pipe_ids, added, rejected, called>>
        /\ running'[p] = running[p] \ {"connector"}
        /\ connector[p] = "post_callbacks" /\ connector'[p] = "done"
        /\ reaper'[p] = IF reaper[p] = "waiting" THEN "woken" ELSE reaper[p]
    BY <1>3 DEF AddPostDone, StopCallbacks, TypeOK
  <2>2. \A q \in Pipe : q # p => LeavesAlone(q)
    BY <1>3 DEF AddPostDone, StopCallbacks, TypeOK, LeavesAlone
  <2>3. IsRemoved(p) <=> IsRemoved(p)'
    BY <2>1 DEF IsRemoved
  <2>4. PipeOK(p)'
    BY <1>1, <2>1, <2>3 DEF PipeOK, RunningOK, StateOK, CalledOK, LateOK, InCallbacks
  <2> QED BY <2>2, <2>4, OnePipe
<1> QED BY <1>2, <1>3

(* REM_POST, and a reaper that was woken: it waits for the callbacks of    *)
(* the connector or runs its own.                                          *)
LEMMA ReaperGoesOn ==
  ASSUME TypeOK, PipesOK, Remembers, NEW p \in Pipe, p \in pipe_states,
         reaper[p] \in {"idle", "woken"}, WaitOrRemove(p),
         UNCHANGED <<pipe_states, pipes, added, rejected, connector>>,
         IsRemoved(p)' \/ p \in added
  PROVE  PipesOK'
<1>1. PipeOK(p)
  BY DEF PipesOK
<1>2. MustWait(p) <=> InCallbacks(connector[p])
  BY <1>1 DEF PipeOK, RunningOK, MustWait
<1>3. CASE MustWait(p)
  <2>1. UNCHANGED <<running, called>> /\ reaper' = [reaper EXCEPT ![p] = "waiting"]
    BY <1>3 DEF WaitOrRemove
  <2>2. reaper'[p] = "waiting" /\ \A q \in Pipe : q # p => LeavesAlone(q)
    BY <2>1 DEF LeavesAlone, TypeOK
  <2>3. PipeOK(p)'
    BY <1>1, <1>2, <1>3, <2>1, <2>2
       DEF PipeOK, RunningOK, StateOK, CalledOK, LateOK, InCallbacks
  <2> QED BY <2>2, <2>3, OnePipe
<1>4. CASE ~MustWait(p)
  <2>1. /\ reaper' = [reaper EXCEPT ![p] = "callbacks"]
        /\ running' = [running EXCEPT ![p] = @ \cup {"reaper"}]
        /\ called' = [called EXCEPT ![p] = @ \o (IF p \in rejected THEN <<>> ELSE <<"remove">>)]
    BY <1>4 DEF WaitOrRemove, StartCallbacks
  <2>2. /\ reaper'[p] = "callbacks" /\ running'[p] = running[p] \cup {"reaper"}
        /\ called'[p] = called[p] \o (IF p \in rejected THEN <<>> ELSE <<"remove">>)
        /\ \A q \in Pipe : q # p => LeavesAlone(q)
    BY <2>1 DEF LeavesAlone, TypeOK
  <2>3. CalledOK(p)'
    <3>1. called[p] = IF p \in added THEN <<"pre", "post">> ELSE <<"pre">>
      BY <1>1 DEF PipeOK, CalledOK
    <3>2. CASE p \in rejected
      <4>1. called'[p] = <<"pre">>
        BY <1>1, <2>2, <3>1, <3>2, CallSequences DEF PipeOK, StateOK
      <4> QED BY <1>1, <2>2, <3>2, <4>1 DEF PipeOK, StateOK, CalledOK
    <3>3. CASE p \notin rejected
      <4>1. called'[p] \in {<<"pre", "remove">>, <<"pre", "post", "remove">>}
        BY <2>2, <3>1, <3>3, CallSequences
      <4> QED BY <1>1, <2>2, <3>3, <4>1 DEF PipeOK, StateOK, CalledOK
    <3> QED BY <3>2, <3>3
  <2>4. RunningOK(p)' /\ StateOK(p)' /\ LateOK(p)'
    BY <1>1, <1>2, <1>4, <2>2 DEF PipeOK, RunningOK, StateOK, LateOK, InCallbacks
  <2>5. PipeOK(p)'
    BY <2>3, <2>4 DEF PipeOK
  <2> QED BY <2>2, <2>5, OnePipe
<1> QED BY <1>3, <1>4

(* The steps of the reaper.                                                *)
LEMMA ReaperStep ==
  ASSUME TypeOK, PipesOK, Remembers, NEW p \in Pipe, Reaper(p)
  PROVE  PipesOK'
<1>1. PipeOK(p)
  BY DEF PipesOK
<1>2. CASE RemPost(p)
  <2>1. IsRemoved(p)' \/ p \in added
    BY <1>2, Remembering DEF RemPost, IsRemoved
  <2> QED BY <1>2, <2>1, ReaperGoesOn DEF RemPost
<1>3. CASE RemPostWoken(p)
  <2>1. p \in pipe_states /\ (IsRemoved(p)' \/ p \in added)
    BY <1>1, <1>3 DEF RemPostWoken, PipeOK, StateOK, LateOK, IsRemoved
  <2> QED BY <1>3, <2>1, ReaperGoesOn DEF RemPostWoken
<1>4. CASE RemPostUnseen(p)
  <2>1. /\ UNCHANGED <<pipe_states, pipes, added, rejected, connector, running, called>>
        /\ reaper[p] = "idle" /\ reaper'[p] = "done" /\ p \notin pipe_states /\ IsRemoved(p)'
    BY <1>4, Remembering DEF RemPostUnseen, IsRemoved, TypeOK
  <2>2. \A q \in Pipe : q # p => LeavesAlone(q)
    BY <1>4 DEF RemPostUnseen, LeavesAlone, TypeOK
  <2>3. PipeOK(p)'
    BY <1>1, <2>1 DEF PipeOK, RunningOK, StateOK, CalledOK, LateOK, InCallbacks
  <2> QED BY <2>2, <2>3, OnePipe
<1>5. CASE RemPostDone(p)
  <2>1. /\ UNCHANGED <<removed_pipe_ids, added, rejected, connector, called>>
        /\ reaper[p] = "callbacks" /\ reaper'[p] = "done"
        /\ running'[p] = running[p] \ {"reaper"}
        /\ p \notin pipe_states' /\ p \notin pipes'
    BY <1>5 DEF RemPostDone, StopCallbacks, TypeOK
  <2>2. \A q \in Pipe : q # p => LeavesAlone(q)
    BY <1>5 DEF RemPostDone, StopCallbacks, LeavesAlone, TypeOK
  <2>3. IsRemoved(p) <=> IsRemoved(p)'
    BY <2>1 DEF IsRemoved
  <2>4. PipeOK(p)'
    BY <1>1, <2>1, <2>3 DEF PipeOK, RunningOK, StateOK, CalledOK, LateOK, InCallbacks
  <2> QED BY <2>2, <2>4, OnePipe
<1> QED BY <1>2, <1>3, <1>4, <1>5 DEF Reaper

dispatchVars == <<stateVars, connector, reaper, called>>

(* The steps of Pipe.close, Socket.close and nng touch nothing of it.      *)
LEMMA OutsideUnchanged ==
  ASSUME Next
  PROVE  \/ UNCHANGED dispatchVars
         \/ \E p \in Pipe : SendAddPre(p) \/ Connector(p) \/ Reaper(p)
BY DEF Next, dispatchVars, closeVars, stateVars, PipeLost, PipeClose, PipeClosed,
       SocketClose, CloseFnStart, CloseFnReturn

(* A step, whoever makes it.                                               *)
LEMMA PipesStep ==
  ASSUME TypeOK, PipesOK, Remembers, Next PROVE PipesOK'
<1>1. CASE UNCHANGED dispatchVars
  BY <1>1, NoPipe DEF dispatchVars, stateVars, LeavesAlone
<1>2. ASSUME NEW p \in Pipe, SendAddPre(p) \/ Connector(p) \/ Reaper(p) PROVE PipesOK'
  BY <1>2, ConnectorQuiet, ConnectorPre, ConnectorPost, ReaperStep DEF Connector
<1> QED BY <1>1, <1>2, OutsideUnchanged

(* The first state.                                                        *)
LEMMA PipesInit ==
  ASSUME Init PROVE PipesOK
<1>1. \A p \in Pipe :
        /\ connector[p] = "idle" /\ reaper[p] = "idle" /\ running[p] = {}
        /\ called[p] = <<>> /\ p \notin pipe_states /\ p \notin pipes
  BY DEF Init
<1> QED BY <1>1 DEF PipesOK, PipeOK, RunningOK, StateOK, CalledOK, LateOK, InCallbacks

(* A step, or none.                                                        *)
LEMMA PipesNext ==
  ASSUME TypeOK, PipesOK, [Next \/ Finished]_vars, [Remembers]_vars
  PROVE  PipesOK'
<1>1. CASE UNCHANGED vars
  BY <1>1, NoPipe DEF vars, LeavesAlone, Remembers
<1>2. CASE Next /\ ~UNCHANGED vars
  BY <1>2, PipesStep
<1> QED BY <1>1, <1>2 DEF Finished

(* The invariant of every behaviour in which no id is evicted.             *)
THEOREM PipesAlways == Spec /\ [][Remembers]_vars => []PipesOK
<1>1. Init => PipesOK
  BY PipesInit
<1>2. TypeOK /\ PipesOK /\ [Next \/ Finished]_vars /\ [Remembers]_vars => PipesOK'
  BY PipesNext
<1> QED BY <1>1, <1>2, TypeCorrect, PTL DEF Spec

------------------------------------------------------------------------------
(* No id is evicted while there are MaxRemoved pipes or fewer.             *)

(* No id is twice in _removed_pipe_ids.                                    *)
RemovedOnce ==
  \A i, j \in 1..Len(removed_pipe_ids) :
    removed_pipe_ids[i] = removed_pipe_ids[j] => i = j

(* There are no more ids without repetition than there are pipes.          *)
LEMMA DistinctIsShort ==
  ASSUME NEW s \in Seq(Pipe), \A i, j \in 1..Len(s) : s[i] = s[j] => i = j
  PROVE  Len(s) <= Cardinality(Pipe)
<1>1. Len(s) \in Nat /\ s \in [1..Len(s) -> Pipe]
  BY LenProperties
<1>2. s \in Injection(1..Len(s), Pipe)
  BY <1>1 DEF Injection, IsInjective
<1>3. IsFiniteSet(1..Len(s)) /\ Cardinality(1..Len(s)) = Len(s)
  BY <1>1, FS_Interval
<1>4. Cardinality(1..Len(s)) <= Cardinality(Pipe)
  BY <1>2, PipeAssumption, FS_Injection
<1> QED BY <1>3, <1>4

(* A new id finds room.                                                    *)
LEMMA RemembersOne ==
  ASSUME Cardinality(Pipe) <= MaxRemoved, TypeOK, RemovedOnce,
         NEW p \in Pipe, ~IsRemoved(p), Remember(p)
  PROVE  RemovedOnce' /\ Remembers
<1> DEFINE ids == Append(removed_pipe_ids, p)
<1>1. removed_pipe_ids \in Seq(Pipe)
  BY DEF TypeOK
<1>2. /\ ids \in Seq(Pipe) /\ Len(ids) = Len(removed_pipe_ids) + 1
      /\ \A i \in 1..Len(removed_pipe_ids) : ids[i] = removed_pipe_ids[i]
      /\ ids[Len(removed_pipe_ids) + 1] = p
  BY <1>1, AppendProperties
<1>3. Len(removed_pipe_ids) \in Nat /\ MaxRemoved \in Nat /\ Cardinality(Pipe) \in Nat
      /\ DOMAIN removed_pipe_ids = 1..Len(removed_pipe_ids)
  BY <1>1, LenProperties, RemovedAssumption, PipeAssumption, FS_CardinalityType
<1>4. removed_pipe_ids' = IF Len(ids) > MaxRemoved THEN Tail(ids) ELSE ids
  BY DEF Remember
<1> HIDE DEF ids
<1>5. \A i \in 1..Len(removed_pipe_ids) : removed_pipe_ids[i] # p
  BY <1>3 DEF IsRemoved, Range
<1>6. \A i, j \in 1..Len(ids) : ids[i] = ids[j] => i = j
  <2> SUFFICES ASSUME NEW i \in 1..Len(ids), NEW j \in 1..Len(ids), ids[i] = ids[j]
               PROVE  i = j
    OBVIOUS
  <2>1. \A k \in 1..Len(ids) : k \in 1..Len(removed_pipe_ids) \/ k = Len(removed_pipe_ids) + 1
    BY <1>2, <1>3
  <2> QED BY <1>2, <1>5, <2>1 DEF RemovedOnce
<1>7. removed_pipe_ids' = ids
  BY <1>2, <1>3, <1>4, <1>6, DistinctIsShort
<1>8. \A i \in 1..Len(removed_pipe_ids) : i \in DOMAIN ids
  BY <1>2, <1>3, LenProperties
<1> QED BY <1>2, <1>3, <1>6, <1>7, <1>8 DEF RemovedOnce, Remembers, Range

(* Nor does any other step evict one.                                      *)
LEMMA RemembersStep ==
  ASSUME Cardinality(Pipe) <= MaxRemoved, TypeOK, RemovedOnce, [Next \/ Finished]_vars
  PROVE  RemovedOnce' /\ [Remembers]_vars
<1>1. CASE UNCHANGED removed_pipe_ids
  BY <1>1 DEF RemovedOnce, Remembers
<1>2. \/ UNCHANGED removed_pipe_ids
      \/ \E p \in Pipe : ~IsRemoved(p) /\ Remember(p)
  BY DEF Next, Finished, vars, stateVars, Connector, Reaper, SendAddPre, AddPre,
         AddPreDropped, AddPreDone, SendAddPost, AddPost, AddPostDropped, AddPostDone,
         RemPost, RemPostWoken, RemPostUnseen, RemPostDone, PipeLost, PipeClose,
         PipeClosed, SocketClose, CloseFnStart, CloseFnReturn
<1> QED BY <1>1, <1>2, RemembersOne

(* _MAX_REMOVED_PIPE_IDS pipes, or fewer, are all remembered.              *)
THEOREM NoIdEvicted ==
  ASSUME Cardinality(Pipe) <= MaxRemoved
  PROVE  Spec => [][Remembers]_vars
<1>1. Init => RemovedOnce
  BY DEF Init, RemovedOnce
<1>2. TypeOK /\ RemovedOnce /\ [Next \/ Finished]_vars => RemovedOnce' /\ [Remembers]_vars
  BY RemembersStep
<1> QED BY <1>1, <1>2, TypeCorrect, PTL DEF Spec

------------------------------------------------------------------------------
(* The dispatcher implements PipeCallbacks.                                *)

RunningNow == [p \in Pipe |-> Running(p)]

(* What a step that leaves a pipe alone does to what runs for it.          *)
LEMMA AloneRuns ==
  ASSUME NEW q \in Pipe, LeavesAlone(q) PROVE Running(q)' = Running(q)
BY DEF LeavesAlone, Running

(* A step of one pipe changes what runs for that pipe at most.             *)
LEMMA RunningMoves ==
  ASSUME NEW p \in Pipe, \A q \in Pipe : q # p => LeavesAlone(q)
  PROVE  RunningNow' = [RunningNow EXCEPT ![p] = Running(p)']
<1>1. \A q \in Pipe : q # p => Running(q)' = Running(q)
  BY AloneRuns
<1> QED BY <1>1 DEF RunningNow

(* A step that calls nothing and ends nothing is none of PipeCallbacks.    *)
LEMMA Stutters ==
  ASSUME NEW p \in Pipe, \A q \in Pipe : q # p => LeavesAlone(q),
         Running(p)' = Running(p), UNCHANGED <<called, pipes>>
  PROVE  UNCHANGED Callbacks!cvars
<1>1. RunningNow' = RunningNow
  BY RunningMoves DEF RunningNow
<1> QED BY <1>1 DEF Callbacks!cvars, RunningNow

(* A step that calls something calls what PipeCallbacks does.              *)
LEMMA CallsAs ==
  ASSUME TypeOK, NEW p \in Pipe, \A q \in Pipe : q # p => LeavesAlone(q),
         Running(p) = "none", NEW kind, Running(p)' = kind,
         called' = [called EXCEPT ![p] = Append(called[p], kind)]
  PROVE  Callbacks!Call(p, kind)
<1>1. RunningNow' = [RunningNow EXCEPT ![p] = kind] /\ RunningNow[p] = "none"
  BY RunningMoves DEF RunningNow
<1> QED BY <1>1 DEF Callbacks!Call, RunningNow

(* The callbacks of a pipe return.                                         *)
LEMMA ReturnsAs ==
  ASSUME NEW p \in Pipe, \A q \in Pipe : q # p => LeavesAlone(q),
         Running(p) # "none", Running(p)' = "none", UNCHANGED called,
         \/ Running(p) # "remove" /\ UNCHANGED pipes
         \/ Running(p) # "post" /\ pipes' = pipes \ {p}
  PROVE  Callbacks!Return(p)
<1>1. RunningNow' = [RunningNow EXCEPT ![p] = "none"] /\ RunningNow[p] = Running(p)
  BY RunningMoves DEF RunningNow
<1> QED BY <1>1 DEF Callbacks!Return, RunningNow

(* The connector's steps.                                                  *)
LEMMA ConnectorRefines ==
  ASSUME TypeOK, PipesOK, PipesOK', NEW p \in Pipe, SendAddPre(p) \/ Connector(p)
  PROVE  [Callbacks!Next]_Callbacks!cvars
<1>1. PipeOK(p) /\ PipeOK(p)'
  BY DEF PipesOK
<1>2. CASE SendAddPre(p) \/ AddPreDropped(p) \/ SendAddPost(p) \/ AddPostDropped(p)
  <2>1. /\ UNCHANGED <<called, pipes, rejected, reaper>>
        /\ ~InCallbacks(connector[p]) /\ ~InCallbacks(connector'[p])
        /\ \A q \in Pipe : q # p => LeavesAlone(q)
    BY <1>2 DEF SendAddPre, AddPreDropped, SendAddPost, AddPostDropped, stateVars,
                closeVars, TypeOK, InCallbacks, LeavesAlone
  <2>2. Running(p)' = Running(p)
    BY <2>1 DEF Running, InCallbacks
  <2> QED BY <2>1, <2>2, Stutters
<1>3. CASE AddPre(p)
  <2>1. /\ pipes' = pipes \cup {p} /\ called' = [called EXCEPT ![p] = called[p] \o <<"pre">>]
        /\ connector[p] = "add_pre" /\ connector'[p] = "pre_callbacks"
        /\ UNCHANGED reaper
    BY <1>3 DEF AddPre, StartCallbacks, TypeOK
  <2>2. \A q \in Pipe : q # p => LeavesAlone(q)
    BY <1>3 DEF AddPre, StateOf, StartCallbacks, TypeOK, LeavesAlone
  <2>3. called[p] = <<>> /\ reaper[p] # "callbacks"
    BY <1>1, <2>1 DEF PipeOK, CalledOK, StateOK
  <2>4. called' = [called EXCEPT ![p] = Append(called[p], "pre")]
    BY <2>1, <2>3, CallSequences
  <2>5. Running(p) = "none" /\ Running(p)' = "pre"
    BY <2>1, <2>3 DEF Running
  <2>6. Callbacks!Call(p, "pre")
    BY <2>2, <2>4, <2>5, CallsAs
  <2> QED BY <2>1, <2>3, <2>6 DEF Callbacks!Next, Callbacks!Connecting
<1>4. CASE AddPost(p)
  <2>1. /\ pipes' = pipes \cup {p} /\ called' = [called EXCEPT ![p] = called[p] \o <<"post">>]
        /\ connector[p] = "add_post" /\ connector'[p] = "post_callbacks"
        /\ UNCHANGED reaper
    BY <1>4 DEF AddPost, StartCallbacks, TypeOK
  <2>2. \A q \in Pipe : q # p => LeavesAlone(q)
    BY <1>4 DEF AddPost, StateOf, StartCallbacks, TypeOK, LeavesAlone
  <2>3. called[p] = <<"pre">> /\ reaper[p] = "idle" /\ p \in pipes
    BY <1>4, PostFinds
  <2>4. called' = [called EXCEPT ![p] = Append(called[p], "post")]
    BY <2>1, <2>3, CallSequences
  <2>5. Running(p) = "none" /\ Running(p)' = "post"
    BY <2>1, <2>3 DEF Running
  <2>6. Callbacks!Call(p, "post")
    BY <2>2, <2>4, <2>5, CallsAs
  <2>7. pipes' = pipes
    BY <2>1, <2>3
  <2> QED BY <2>3, <2>6, <2>7 DEF Callbacks!Next, Callbacks!Connected
<1>5. CASE AddPreDone(p) \/ AddPostDone(p)
  <2>1. /\ UNCHANGED called
        /\ \/ connector[p] = "pre_callbacks" /\ pipes' \in {pipes, pipes \ {p}}
           \/ connector[p] = "post_callbacks" /\ UNCHANGED pipes
        /\ connector'[p] \in {"between", "done"}
        /\ reaper'[p] = IF reaper[p] = "waiting" THEN "woken" ELSE reaper[p]
    BY <1>5 DEF AddPreDone, AddPostDone, StopCallbacks, TypeOK
  <2>2. \A q \in Pipe : q # p => LeavesAlone(q)
    BY <1>5 DEF AddPreDone, AddPostDone, StopCallbacks, TypeOK, LeavesAlone
  <2>3. reaper'[p] # "callbacks"
    BY <1>1, <2>1 DEF PipeOK, RunningOK, InCallbacks
  <2>4. /\ Running(p) = IF connector[p] = "pre_callbacks" THEN "pre" ELSE "post"
        /\ Running(p)' = "none"
    BY <2>1, <2>3 DEF Running
  <2>5. Callbacks!Return(p)
    BY <2>1, <2>2, <2>4, ReturnsAs
  <2> QED BY <2>5 DEF Callbacks!Next
<1> QED BY <1>2, <1>3, <1>4, <1>5 DEF Connector

(* A reaper that waits or starts on the callbacks.                         *)
LEMMA GoingOnRefines ==
  ASSUME TypeOK, PipesOK, NEW p \in Pipe, p \in pipe_states,
         reaper[p] \in {"idle", "woken"}, WaitOrRemove(p),
         UNCHANGED <<pipe_states, pipes, added, rejected, connector>>
  PROVE  [Callbacks!Next]_Callbacks!cvars
<1>1. PipeOK(p)
  BY DEF PipesOK
<1>2. MustWait(p) <=> InCallbacks(connector[p])
  BY <1>1 DEF PipeOK, RunningOK, MustWait
<1>3. \A q \in Pipe : q # p => LeavesAlone(q)
  BY DEF WaitOrRemove, StartCallbacks, LeavesAlone, TypeOK
<1>4. CASE MustWait(p)
  <2>1. UNCHANGED called /\ reaper'[p] = "waiting"
    BY <1>4 DEF WaitOrRemove, TypeOK
  <2>2. Running(p)' = Running(p)
    BY <2>1 DEF Running
  <2> QED BY <1>3, <2>1, <2>2, Stutters
<1>5. CASE ~MustWait(p)
  <2>1. /\ reaper'[p] = "callbacks"
        /\ called' = [called EXCEPT ![p] =
                         called[p] \o (IF p \in rejected THEN <<>> ELSE <<"remove">>)]
    BY <1>5 DEF WaitOrRemove, StartCallbacks, TypeOK
  <2>2. called[p] = IF p \in added THEN <<"pre", "post">> ELSE <<"pre">>
    BY <1>1 DEF PipeOK, CalledOK
  <2>3. Running(p) = "none" /\ Running(p)' = IF p \in rejected THEN "none" ELSE "remove"
    BY <1>2, <1>5, <2>1 DEF Running, InCallbacks
  <2>4. CASE p \in rejected
    <3>1. called[p] \o <<>> = called[p]
      BY <2>2, CallSequences
    <3>2. called' = called
      BY <2>1, <2>4, <3>1 DEF TypeOK
    <3> QED BY <1>3, <2>3, <2>4, <3>2, Stutters
  <2>5. CASE p \notin rejected
    <3>1. called[p] \o <<"remove">> = Append(called[p], "remove")
      BY <2>2, CallSequences
    <3>2. called' = [called EXCEPT ![p] = Append(called[p], "remove")]
      BY <2>1, <2>5, <3>1
    <3>3. Callbacks!Call(p, "remove")
      BY <1>3, <2>3, <2>5, <3>2, CallsAs
    <3>4. p \in pipes
      BY <1>1, <2>5 DEF PipeOK, StateOK
    <3> QED BY <2>2, <3>3, <3>4 DEF Callbacks!Next, Callbacks!Removed
  <2> QED BY <2>4, <2>5
<1> QED BY <1>4, <1>5

(* The reaper's steps.                                                     *)
LEMMA ReaperRefines ==
  ASSUME TypeOK, PipesOK, NEW p \in Pipe, Reaper(p)
  PROVE  [Callbacks!Next]_Callbacks!cvars
<1>1. PipeOK(p)
  BY DEF PipesOK
<1>2. CASE RemPost(p)
  BY <1>2, GoingOnRefines DEF RemPost
<1>3. CASE RemPostWoken(p)
  <2>1. p \in pipe_states
    BY <1>1, <1>3 DEF RemPostWoken, PipeOK, StateOK
  <2> QED BY <1>3, <2>1, GoingOnRefines DEF RemPostWoken
<1>4. CASE RemPostUnseen(p)
  <2>1. /\ UNCHANGED <<called, pipes, connector, rejected>>
        /\ reaper[p] = "idle" /\ reaper'[p] = "done"
        /\ \A q \in Pipe : q # p => LeavesAlone(q)
    BY <1>4 DEF RemPostUnseen, LeavesAlone, TypeOK
  <2>2. Running(p)' = Running(p)
    BY <2>1 DEF Running
  <2> QED BY <2>1, <2>2, Stutters
<1>5. CASE RemPostDone(p)
  <2>1. /\ UNCHANGED <<called, connector, rejected>> /\ pipes' = pipes \ {p}
        /\ reaper[p] = "callbacks" /\ reaper'[p] = "done"
        /\ \A q \in Pipe : q # p => LeavesAlone(q)
    BY <1>5 DEF RemPostDone, StopCallbacks, LeavesAlone, TypeOK
  <2>2. ~InCallbacks(connector[p])
    BY <1>1, <2>1 DEF PipeOK, RunningOK
  <2>3. Running(p) = (IF p \in rejected THEN "none" ELSE "remove") /\ Running(p)' = "none"
    BY <2>1, <2>2 DEF Running, InCallbacks
  <2>4. CASE p \in rejected
    <3>1. pipes' = pipes
      BY <1>1, <2>1, <2>4 DEF PipeOK, StateOK
    <3> QED BY <2>1, <2>3, <2>4, <3>1, Stutters
  <2>5. CASE p \notin rejected
    <3>1. Callbacks!Return(p)
      BY <2>1, <2>3, <2>5, ReturnsAs
    <3> QED BY <3>1 DEF Callbacks!Next
  <2> QED BY <2>4, <2>5
<1> QED BY <1>2, <1>3, <1>4, <1>5 DEF Reaper

(* Every step is one of PipeCallbacks or none.                             *)
LEMMA DispatcherStep ==
  ASSUME TypeOK, PipesOK, PipesOK', [Next \/ Finished]_vars
  PROVE  [Callbacks!Next]_Callbacks!cvars
<1>1. CASE UNCHANGED dispatchVars
  BY <1>1 DEF dispatchVars, stateVars, Callbacks!cvars, Running
<1>2. ASSUME NEW p \in Pipe, SendAddPre(p) \/ Connector(p) \/ Reaper(p)
      PROVE  [Callbacks!Next]_Callbacks!cvars
  BY <1>2, ConnectorRefines, ReaperRefines
<1>3. UNCHANGED vars => UNCHANGED dispatchVars
  BY DEF vars, dispatchVars, stateVars
<1> QED BY <1>1, <1>2, <1>3, OutsideUnchanged DEF Finished

(* What PipeCallbacks promises holds as long as no id is evicted ...       *)
THEOREM DispatcherRefines == Spec /\ [][Remembers]_vars => RefinesCallbacks
<1>1. Init => Callbacks!Init
  <2> SUFFICES ASSUME Init PROVE Callbacks!Init
    OBVIOUS
  <2>1. \A p \in Pipe : Running(p) = "none"
    BY DEF Init, Running
  <2> QED BY <2>1 DEF Init, Callbacks!Init
<1>2. TypeOK /\ PipesOK /\ PipesOK' /\ [Next \/ Finished]_vars
        => [Callbacks!Next]_Callbacks!cvars
  BY DispatcherStep
<1> QED BY <1>1, <1>2, TypeCorrect, PipesAlways, PTL DEF Spec, RefinesCallbacks, Callbacks!Spec

(* ... which is always with _MAX_REMOVED_PIPE_IDS pipes or fewer.          *)
THEOREM DispatcherKeepsPromises ==
  ASSUME Cardinality(Pipe) <= MaxRemoved
  PROVE  Spec => RefinesCallbacks
BY DispatcherRefines, NoIdEvicted, PTL

------------------------------------------------------------------------------
(* A pipe that its pre-connect callback has closed.                        *)

(* A step of the dispatcher about one pipe leaves the others alone.        *)
LEMMA OthersAlone ==
  ASSUME TypeOK, NEW p \in Pipe, SendAddPre(p) \/ Connector(p) \/ Reaper(p)
  PROVE  \A q \in Pipe : q # p => LeavesAlone(q)
<1>1. CASE SendAddPre(p) \/ AddPreDropped(p) \/ SendAddPost(p) \/ AddPostDropped(p)
  BY <1>1 DEF SendAddPre, AddPreDropped, SendAddPost, AddPostDropped, stateVars,
              LeavesAlone, TypeOK
<1>2. CASE AddPre(p) \/ AddPost(p)
  BY <1>2 DEF AddPre, AddPost, StateOf, StartCallbacks, LeavesAlone, TypeOK
<1>3. CASE AddPreDone(p) \/ AddPostDone(p) \/ RemPostDone(p)
  BY <1>3 DEF AddPreDone, AddPostDone, RemPostDone, StopCallbacks, LeavesAlone, TypeOK
<1>4. CASE RemPost(p) \/ RemPostWoken(p) \/ RemPostUnseen(p)
  BY <1>4 DEF RemPost, RemPostWoken, RemPostUnseen, WaitOrRemove, StartCallbacks,
              LeavesAlone, TypeOK
<1> QED BY <1>1, <1>2, <1>3, <1>4 DEF Connector, Reaper

(* Once silent, for ever silent.                                           *)
LEMMA SilentStays ==
  ASSUME TypeOK, PipesOK, [Next \/ Finished]_vars, NEW p \in Pipe, Silent(p)
  PROVE  Silent(p)'
<1>1. PipeOK(p)
  BY DEF PipesOK
<1>2. pipe_closed \subseteq pipe_closed'
  BY DEF Next, Finished, vars, stateVars, Connector, Reaper, SendAddPre, AddPre,
         AddPreDropped, AddPreDone, SendAddPost, AddPost, AddPostDropped, AddPostDone,
         RemPost, RemPostWoken, RemPostUnseen, RemPostDone, PipeLost, PipeClose,
         PipeClosed, SocketClose, CloseFnStart, CloseFnReturn
<1>3. LeavesAlone(p) => Silent(p)'
  BY <1>2 DEF LeavesAlone, Silent
<1>4. UNCHANGED dispatchVars => LeavesAlone(p)
  BY DEF dispatchVars, stateVars, LeavesAlone
<1>5. UNCHANGED vars => UNCHANGED dispatchVars
  BY DEF vars, dispatchVars, stateVars
<1>6. CASE SendAddPre(p) \/ AddPre(p) \/ AddPreDropped(p)
  BY <1>6 DEF SendAddPre, AddPre, AddPreDropped, Silent
<1>7. CASE AddPreDone(p)
  <2>1. p \in pipe_states /\ p \notin added
    BY <1>1, <1>7 DEF AddPreDone, PipeOK, StateOK
  <2>2. p \in rejected'
    BY <1>7, <2>1 DEF AddPreDone, Rejects, Silent
  <2>3. UNCHANGED <<added, called>> /\ connector'[p] = "between"
    BY <1>7 DEF AddPreDone, TypeOK
  <2> QED BY <1>2, <2>2, <2>3 DEF Silent
<1>8. CASE AddPost(p)
  BY <1>8, PostFinds DEF AddPost, Silent
<1>9. CASE SendAddPost(p) \/ AddPostDropped(p) \/ AddPostDone(p)
  <2>1. UNCHANGED <<added, rejected, called>>
    BY <1>9 DEF SendAddPost, AddPostDropped, AddPostDone, stateVars
  <2>2. /\ connector[p] # "pre_callbacks"
        /\ connector'[p] \notin {"idle", "add_pre"}
    BY <1>9 DEF SendAddPost, AddPostDropped, AddPostDone, TypeOK
  <2> QED BY <1>2, <2>1, <2>2 DEF Silent
<1>10. CASE RemPost(p) \/ RemPostWoken(p)
  <2>1. UNCHANGED <<added, rejected, connector>> /\ WaitOrRemove(p)
    BY <1>10 DEF RemPost, RemPostWoken
  <2>2. called'[p] = <<"pre">>
    <3>1. CASE MustWait(p)
      BY <2>1, <3>1 DEF WaitOrRemove, Silent
    <3>2. CASE ~MustWait(p)
      <4>1. connector[p] # "pre_callbacks"
        BY <1>1, <3>2 DEF PipeOK, RunningOK, InCallbacks, MustWait
      <4>2. called'[p] = called[p] \o <<>>
        BY <2>1, <3>2, <4>1 DEF WaitOrRemove, StartCallbacks, Silent, TypeOK
      <4> QED BY <4>2, CallSequences DEF Silent
    <3> QED BY <3>1, <3>2
  <2> QED BY <1>2, <2>1, <2>2 DEF Silent
<1>11. CASE RemPostUnseen(p) \/ RemPostDone(p)
  BY <1>2, <1>11 DEF RemPostUnseen, RemPostDone, Silent
<1>12. ASSUME NEW q \in Pipe, q # p, SendAddPre(q) \/ Connector(q) \/ Reaper(q)
       PROVE  Silent(p)'
  BY <1>3, <1>12, OthersAlone
<1> QED BY <1>3, <1>4, <1>5, <1>6, <1>7, <1>8, <1>9, <1>10, <1>11, <1>12, OutsideUnchanged
           DEF Connector, Reaper, Finished

(* "If the pipe is closed, the callbacks for post_pipe_connect and         *)
(* post_pipe_remove will not be called": RejectedIsSilent, as long as no   *)
(* id is evicted ...                                                       *)
THEOREM ClosedPipeIsSilent == Spec /\ [][Remembers]_vars => RejectedIsSilent
<1>1. ASSUME NEW p \in Pipe
      PROVE  Spec /\ [][Remembers]_vars =>
               [](connector[p] = "pre_callbacks" /\ p \in pipe_closed
                    => [](called[p] = <<"pre">>))
  <2>1. PipesOK => (connector[p] = "pre_callbacks" /\ p \in pipe_closed => Silent(p))
    BY DEF PipesOK, PipeOK, RunningOK, StateOK, CalledOK, InCallbacks, Silent
  <2>2. TypeOK /\ PipesOK /\ [Next \/ Finished]_vars /\ Silent(p) => Silent(p)'
    BY SilentStays
  <2>3. Silent(p) => called[p] = <<"pre">>
    BY DEF Silent
  <2> QED BY <2>1, <2>2, <2>3, TypeCorrect, PipesAlways, PTL DEF Spec
<1> QED BY <1>1 DEF RejectedIsSilent

(* ... which is always with _MAX_REMOVED_PIPE_IDS pipes or fewer.          *)
THEOREM RejectedPipeIsSilent ==
  ASSUME Cardinality(Pipe) <= MaxRemoved
  PROVE  Spec => RejectedIsSilent
BY ClosedPipeIsSilent, NoIdEvicted, PTL

------------------------------------------------------------------------------
(* Events of one pipe in a sequence.                                       *)

(* Where they are.                                                         *)
Places(s, p, n) == {i \in 1..n : IsOf(s[i], p)}

(* The count is a number, of a finite set.                                 *)
LEMMA AheadType ==
  ASSUME NEW s, NEW p, NEW n \in Nat
  PROVE  /\ IsFiniteSet(Places(s, p, n)) /\ Ahead(s, p, n) = Cardinality(Places(s, p, n))
         /\ Ahead(s, p, n) \in Nat
<1>1. IsFiniteSet(1..n) /\ Places(s, p, n) \in SUBSET (1..n)
  BY FS_Interval DEF Places
<1>2. IsFiniteSet(Places(s, p, n))
  BY <1>1, FS_Subset
<1>3. Ahead(s, p, n) = Cardinality(Places(s, p, n))
  BY DEF Ahead, Places
<1> QED BY <1>2, <1>3, FS_CardinalityType

(* One element more.                                                       *)
LEMMA AheadStep ==
  ASSUME NEW s, NEW p, NEW n \in Nat
  PROVE  Ahead(s, p, n + 1) = Ahead(s, p, n) + (IF IsOf(s[n + 1], p) THEN 1 ELSE 0)
<1>1. IsFiniteSet(Places(s, p, n)) /\ n + 1 \notin Places(s, p, n)
  <2>1. IsFiniteSet(Places(s, p, n))
    BY AheadType
  <2>2. n + 1 \notin 1..n
    OBVIOUS
  <2> QED BY <2>1, <2>2, Zenon DEF Places
<1>2. Places(s, p, n + 1) = IF IsOf(s[n + 1], p) THEN Places(s, p, n) \cup {n + 1}
                            ELSE Places(s, p, n)
  <2>1. 1..(n + 1) = (1..n) \cup {n + 1}
    OBVIOUS
  <2>2. Places(s, p, n + 1) = {i \in (1..n) \cup {n + 1} : IsOf(s[i], p)}
    BY <2>1, Zenon DEF Places
  <2> QED BY <2>2, Zenon DEF Places
<1>3. Cardinality(Places(s, p, n) \cup {n + 1}) = Cardinality(Places(s, p, n)) + 1
  BY <1>1, FS_AddElement
<1>4. Cardinality(Places(s, p, n + 1)) =
        Cardinality(Places(s, p, n)) + (IF IsOf(s[n + 1], p) THEN 1 ELSE 0)
  <2>1. Cardinality(Places(s, p, n)) \in Nat
    BY AheadType
  <2> QED BY <1>2, <1>3, <2>1
<1> QED BY <1>4, AheadType

(* It depends on the first elements alone.                                 *)
LEMMA AheadSame ==
  ASSUME NEW s, NEW r, NEW p, NEW n \in Nat, \A i \in 1..n : s[i] = r[i]
  PROVE  Ahead(s, p, n) = Ahead(r, p, n)
<1>1. Places(s, p, n) = Places(r, p, n)
  BY DEF Places
<1> QED BY <1>1, AheadType

(* More elements, more events.                                             *)
LEMMA AheadMonotonic ==
  ASSUME NEW s, NEW p, NEW m \in Nat, NEW n \in Nat, m <= n
  PROVE  Ahead(s, p, m) <= Ahead(s, p, n)
<1>1. Places(s, p, m) \in SUBSET Places(s, p, n)
  BY DEF Places
<1> QED BY <1>1, AheadType, FS_Subset

(* No event, no count.                                                     *)
LEMMA AheadNone ==
  ASSUME NEW s, NEW p, NEW n \in Nat, \A i \in 1..n : ~IsOf(s[i], p)
  PROVE  Ahead(s, p, n) = 0
<1>1. Places(s, p, n) = {}
  BY DEF Places
<1> QED BY <1>1, AheadType, FS_EmptySet

(* The first.                                                              *)
LEMMA AheadFirst ==
  ASSUME NEW s, NEW p, IsOf(s[1], p) PROVE Ahead(s, p, 1) = 1
<1>1. Ahead(s, p, 0) = 0
  BY AheadNone
<1>2. Ahead(s, p, 0 + 1) = Ahead(s, p, 0) + 1
  BY AheadStep
<1> QED BY <1>1, <1>2

(* Without the first element.                                              *)
LEMMA AheadShift ==
  ASSUME NEW s, NEW r, NEW p, NEW n \in Nat, \A i \in 1..n : r[i] = s[i + 1]
  PROVE  Ahead(s, p, n + 1) = Ahead(r, p, n) + (IF IsOf(s[1], p) THEN 1 ELSE 0)
<1> DEFINE P == Places(r, p, n)
           Q == Places(s, p, n + 1)
           f == [i \in P |-> i + 1]
<1>1. IsFiniteSet(P) /\ IsFiniteSet(Q)
  BY AheadType
<1>2. f \in Bijection(P, Q \ {1})
  <2>1. \A i \in P : i + 1 \in Q \ {1}
    BY DEF Places
  <2>2. \A j \in Q \ {1} : j - 1 \in P /\ f[j - 1] = j
    BY DEF Places
  <2>3. \A i \in P : i \in Int /\ f[i] = i + 1
    BY DEF Places
  <2>4. \A i, j \in P : f[i] = f[j] => i = j
    BY <2>3
  <2>5. f \in [P -> Q \ {1}]
    BY <2>1
  <2>6. f \in Surjection(P, Q \ {1})
    BY <2>2, <2>5 DEF Surjection
  <2>7. f \in Injection(P, Q \ {1})
    BY <2>4, <2>5 DEF Injection, IsInjective
  <2> QED BY <2>6, <2>7 DEF Bijection
<1>3. Cardinality(Q \ {1}) = Cardinality(P)
  BY <1>1, <1>2, FS_Bijection DEF ExistsBijection
<1>4. 1 \in Q <=> IsOf(s[1], p)
  BY DEF Places
<1>5. Cardinality(Q) = Cardinality(P) + (IF IsOf(s[1], p) THEN 1 ELSE 0)
  <2>1. Cardinality(Q \ {1}) = IF 1 \in Q THEN Cardinality(Q) - 1 ELSE Cardinality(Q)
    BY <1>1, FS_RemoveElement
  <2>2. Cardinality(Q) \in Nat /\ Cardinality(P) \in Nat
    BY <1>1, FS_CardinalityType
  <2> HIDE DEF P, Q
  <2> QED BY <1>3, <1>4, <2>1, <2>2
<1> QED BY <1>5, AheadType

------------------------------------------------------------------------------
(* What is coming of a pipe, what was received of it and what was called   *)
(* for it, as StreamFaithful relates them.                                 *)

(* The sequence r is s with e behind it, or s without its head.            *)
Longer(r, s, e) ==
  Len(r) = Len(s) + 1 /\ (\A i \in 1..Len(s) : r[i] = s[i]) /\ r[Len(s) + 1] = e
Shorter(r, s) == Len(s) = Len(r) + 1 /\ \A i \in 1..Len(r) : r[i] = s[i + 1]

(* Append does the first.                                                  *)
LEMMA AppendIsLonger ==
  ASSUME NEW S, NEW s \in Seq(S), NEW e \in S
  PROVE  Longer(Append(s, e), s, e)
BY AppendProperties DEF Longer

(* The sequence s holds, in order, what is called after g and no more.     *)
Feeds(s, g, c, p) ==
  /\ Len(g) + Ahead(s, p, Len(s)) <= Len(c)
  /\ \A i \in 1..Len(g) : g[i] = c[i]
  /\ \A i \in 1..Len(s) : IsOf(s[i], p) => s[i][2] = c[Len(g) + Ahead(s, p, i)]

(* Something is put behind it, that is of another pipe ...                 *)
LEMMA FeedsOther ==
  ASSUME NEW s \in Seq(Item), NEW r \in Seq(Item), NEW g \in Seq(Kind),
         NEW c \in Seq(Kind), NEW p, NEW e, Feeds(s, g, c, p),
         Longer(r, s, e), ~IsOf(e, p)
  PROVE  /\ Feeds(r, g, c, p)
         /\ Ahead(r, p, Len(r)) = Ahead(s, p, Len(s))
<1> USE DEF Longer
<1>1. Len(s) \in Nat /\ Len(r) \in Nat /\ Len(g) \in Nat /\ Len(c) \in Nat
  BY LenProperties
<1>2. \A n \in 0..Len(s) : Ahead(r, p, n) = Ahead(s, p, n)
  <2>1. TAKE n \in 0..Len(s)
  <2>2. n \in Nat /\ \A i \in 1..n : r[i] = s[i]
    BY <1>1
  <2> QED BY <2>2, AheadSame
<1>3. Ahead(r, p, Len(r)) = Ahead(s, p, Len(s))
  <2>1. Ahead(r, p, Len(s) + 1) = Ahead(r, p, Len(s)) + 0
    BY <1>1, AheadStep
  <2>2. Ahead(r, p, Len(s)) = Ahead(s, p, Len(s)) /\ Ahead(r, p, Len(s)) \in Nat
    BY <1>1, <1>2, AheadType
  <2> QED BY <2>1, <2>2
<1>4. ASSUME NEW i \in 1..Len(r), IsOf(r[i], p)
      PROVE  r[i][2] = c[Len(g) + Ahead(r, p, i)]
  <2>1. i \in 1..Len(s) /\ i \in 0..Len(s)
    BY <1>1, <1>4
  <2> QED BY <1>2, <1>4, <2>1 DEF Feeds
<1> QED BY <1>3, <1>4 DEF Feeds

(* The event e of p is the last that was called, and all before it are fed. *)
IsNext(e, s, g, c, p) ==
  IsOf(e, p) /\ e[2] = c[Len(c)] /\ Len(c) = Len(g) + Ahead(s, p, Len(s)) + 1

(* ... or the next that was called.                                        *)
LEMMA FeedsOwn ==
  ASSUME NEW s \in Seq(Item), NEW r \in Seq(Item), NEW g \in Seq(Kind),
         NEW c \in Seq(Kind), NEW p, NEW e, Feeds(s, g, c, p),
         Longer(r, s, e), IsNext(e, s, g, c, p)
  PROVE  /\ Feeds(r, g, c, p)
         /\ Len(c) = Len(g) + Ahead(r, p, Len(r))
<1> USE DEF Longer, IsNext
<1>1. Len(s) \in Nat /\ Len(r) \in Nat /\ Len(g) \in Nat /\ Len(c) \in Nat
  BY LenProperties
<1>2. \A n \in 0..Len(s) : Ahead(r, p, n) = Ahead(s, p, n)
  <2>1. TAKE n \in 0..Len(s)
  <2>2. n \in Nat /\ \A i \in 1..n : r[i] = s[i]
    BY <1>1
  <2> QED BY <2>2, AheadSame
<1>3. Len(c) = Len(g) + Ahead(r, p, Len(r))
  <2>1. Ahead(r, p, Len(s) + 1) = Ahead(r, p, Len(s)) + 1
    BY <1>1, AheadStep
  <2>2. Ahead(r, p, Len(s)) = Ahead(s, p, Len(s)) /\ Ahead(r, p, Len(s)) \in Nat
    BY <1>1, <1>2, AheadType
  <2> QED BY <1>1, <2>1, <2>2
<1>4. ASSUME NEW i \in 1..Len(r), IsOf(r[i], p)
      PROVE  r[i][2] = c[Len(g) + Ahead(r, p, i)]
  <2>1. CASE i = Len(s) + 1
    BY <1>3, <2>1
  <2>2. CASE i # Len(s) + 1
    <3>1. i \in 1..Len(s) /\ i \in 0..Len(s)
      BY <1>1, <2>2
    <3> QED BY <1>2, <1>4, <3>1 DEF Feeds
  <2> QED BY <2>1, <2>2
<1>5. Len(c) <= Len(c)
  BY <1>1
<1> QED BY <1>3, <1>4, <1>5 DEF Feeds

(* Its head is taken: it is of another pipe ...                            *)
LEMMA FeedsSkip ==
  ASSUME NEW s \in Seq(Item), NEW r \in Seq(Item), NEW g \in Seq(Kind),
         NEW c \in Seq(Kind), NEW p, Feeds(s, g, c, p), Shorter(r, s),
         ~IsOf(s[1], p)
  PROVE  /\ Feeds(r, g, c, p)
         /\ Ahead(r, p, Len(r)) = Ahead(s, p, Len(s))
<1> USE DEF Shorter
<1>1. Len(s) \in Nat /\ Len(r) \in Nat /\ Len(g) \in Nat /\ Len(c) \in Nat
  BY LenProperties
<1>2. \A n \in 0..Len(r) : Ahead(s, p, n + 1) = Ahead(r, p, n)
  <2>1. TAKE n \in 0..Len(r)
  <2>2. n \in Nat /\ \A i \in 1..n : r[i] = s[i + 1]
    BY <1>1
  <2>3. Ahead(s, p, n + 1) = Ahead(r, p, n) + 0
    BY <2>2, AheadShift, SMTT(30)
  <2> QED BY <2>2, <2>3, AheadType
<1>3. Ahead(r, p, Len(r)) = Ahead(s, p, Len(s))
  BY <1>1, <1>2
<1>4. ASSUME NEW i \in 1..Len(r), IsOf(r[i], p)
      PROVE  r[i][2] = c[Len(g) + Ahead(r, p, i)]
  <2>1. i + 1 \in 1..Len(s) /\ i \in 0..Len(r) /\ r[i] = s[i + 1]
    BY <1>1, <1>4
  <2> QED BY <1>2, <1>4, <2>1 DEF Feeds
<1> QED BY <1>3, <1>4 DEF Feeds

(* ... or the next of p.                                                   *)
LEMMA FeedsTake ==
  ASSUME NEW s \in Seq(Item), NEW r \in Seq(Item), NEW g \in Seq(Kind),
         NEW h \in Seq(Kind), NEW c \in Seq(Kind), NEW p, Feeds(s, g, c, p),
         Shorter(r, s), IsOf(s[1], p), Longer(h, g, s[1][2])
  PROVE  /\ Feeds(r, h, c, p)
         /\ Len(h) + Ahead(r, p, Len(r)) = Len(g) + Ahead(s, p, Len(s))
<1> USE DEF Shorter, Longer
<1>1. Len(s) \in Nat /\ Len(r) \in Nat /\ Len(g) \in Nat /\ Len(c) \in Nat
  BY LenProperties
<1>2. \A n \in 0..Len(r) : Len(g) + Ahead(s, p, n + 1) = Len(h) + Ahead(r, p, n)
  <2>1. TAKE n \in 0..Len(r)
  <2>2. n \in Nat /\ \A i \in 1..n : r[i] = s[i + 1]
    BY <1>1
  <2>3. Ahead(s, p, n + 1) = Ahead(r, p, n) + 1
    BY <2>2, AheadShift
  <2>4. Ahead(r, p, n) \in Nat
    BY <2>2, AheadType
  <2> QED BY <1>1, <2>3, <2>4
<1>3. Len(h) + Ahead(r, p, Len(r)) = Len(g) + Ahead(s, p, Len(s))
  <2>1. Len(r) \in 0..Len(r)
    BY <1>1
  <2> QED BY <1>2, <2>1, Zenon
<1>4. ASSUME NEW i \in 1..Len(r), IsOf(r[i], p)
      PROVE  r[i][2] = c[Len(h) + Ahead(r, p, i)]
  <2>1. i + 1 \in 1..Len(s) /\ i \in 0..Len(r) /\ r[i] = s[i + 1]
    BY <1>1, <1>4
  <2> QED BY <1>2, <1>4, <2>1 DEF Feeds
<1>5. ASSUME NEW i \in 1..Len(h) PROVE h[i] = c[i]
  <2>1. CASE i \in 1..Len(g)
    BY <2>1 DEF Feeds
  <2>2. CASE i = Len(g) + 1
    <3>1. Ahead(s, p, 1) = 1
      BY AheadFirst
    <3>2. s[1][2] = c[Len(g) + 1]
      BY <1>1, <3>1 DEF Feeds
    <3> QED BY <2>2, <3>2
  <2> QED BY <1>1, <2>1, <2>2
<1> QED BY <1>3, <1>4, <1>5 DEF Feeds

(* More is called.                                                         *)
LEMMA FeedsMore ==
  ASSUME NEW s \in Seq(Item), NEW g \in Seq(Kind), NEW c \in Seq(Kind),
         NEW d \in Seq(Kind), NEW p, Feeds(s, g, c, p),
         Len(c) <= Len(d), \A i \in 1..Len(c) : d[i] = c[i]
  PROVE  Feeds(s, g, d, p)
<1>1. Len(s) \in Nat /\ Len(g) \in Nat /\ Len(c) \in Nat /\ Len(d) \in Nat
  BY LenProperties
<1>2. \A n \in 0..Len(s) : Ahead(s, p, n) \in Nat /\ Len(g) + Ahead(s, p, n) <= Len(c)
  <2>1. TAKE n \in 0..Len(s)
  <2>2. n \in Nat /\ n <= Len(s)
    BY <1>1
  <2>3. Ahead(s, p, n) <= Ahead(s, p, Len(s))
    BY <1>1, <2>2, AheadMonotonic
  <2>4. Ahead(s, p, n) \in Nat /\ Ahead(s, p, Len(s)) \in Nat
    BY <1>1, <2>2, AheadType
  <2> QED BY <1>1, <2>3, <2>4 DEF Feeds
<1>3. ASSUME NEW i \in 1..Len(s), IsOf(s[i], p)
      PROVE  s[i][2] = d[Len(g) + Ahead(s, p, i)]
  <2>1. i - 1 \in Nat /\ i \in 0..Len(s) /\ i - 1 \in 0..Len(s)
    BY <1>1
  <2>2. Ahead(s, p, i) = Ahead(s, p, i - 1) + 1
    BY <1>3, <2>1, AheadStep
  <2>3. Len(g) + Ahead(s, p, i) \in 1..Len(c)
    BY <1>1, <1>2, <2>1, <2>2
  <2> QED BY <1>3, <2>3 DEF Feeds
<1>4. \A i \in 1..Len(g) : g[i] = d[i]
  <2>1. 0 \in 0..Len(s)
    BY <1>1
  <2>2. Len(g) + Ahead(s, p, 0) <= Len(c) /\ Ahead(s, p, 0) \in Nat
    BY <1>2, <2>1
  <2>3. Len(g) <= Len(c)
    BY <1>1, <2>2
  <2> QED BY <1>1, <2>3 DEF Feeds
<1>5. Len(g) + Ahead(s, p, Len(s)) <= Len(d)
  <2>1. Len(s) \in 0..Len(s)
    BY <1>1
  <2> QED BY <1>1, <1>2, <2>1
<1> QED BY <1>3, <1>4, <1>5 DEF Feeds

(* Only a beginning of it is coming.                                       *)
LEMMA FeedsLess ==
  ASSUME NEW s \in Seq(Item), NEW r \in Seq(Item), NEW g \in Seq(Kind),
         NEW c \in Seq(Kind), NEW p, Feeds(s, g, c, p),
         Len(r) <= Len(s), \A i \in 1..Len(r) : r[i] = s[i]
  PROVE  Feeds(r, g, c, p)
<1>1. Len(s) \in Nat /\ Len(r) \in Nat /\ Len(g) \in Nat /\ Len(c) \in Nat
  BY LenProperties
<1>2. \A n \in 0..Len(r) : Ahead(r, p, n) = Ahead(s, p, n)
  <2>1. TAKE n \in 0..Len(r)
  <2>2. n \in Nat /\ \A i \in 1..n : r[i] = s[i]
    BY <1>1
  <2> QED BY <2>2, AheadSame
<1>3. Len(g) + Ahead(r, p, Len(r)) <= Len(c)
  <2>1. Ahead(r, p, Len(r)) = Ahead(s, p, Len(r))
    BY <1>1, <1>2
  <2>2. Ahead(s, p, Len(r)) <= Ahead(s, p, Len(s))
    BY <1>1, AheadMonotonic
  <2>3. Ahead(s, p, Len(r)) \in Nat /\ Ahead(s, p, Len(s)) \in Nat
    BY <1>1, AheadType
  <2> QED BY <1>1, <2>1, <2>2, <2>3 DEF Feeds
<1>4. ASSUME NEW i \in 1..Len(r), IsOf(r[i], p)
      PROVE  r[i][2] = c[Len(g) + Ahead(r, p, i)]
  <2>1. i \in 1..Len(s) /\ i \in 0..Len(r)
    BY <1>1
  <2> QED BY <1>2, <1>4, <2>1 DEF Feeds
<1> QED BY <1>3, <1>4 DEF Feeds

------------------------------------------------------------------------------
(* Types of the stream.                                                    *)

(* How far __init__ is; nobody was heard of before the stream is made.     *)
MakingOK ==
  /\ stage = "making" => /\ whole = {}
                         /\ registered \in {{}, {"pre"}, {"pre", "post"}}
  /\ stage = "open" => registered = Kind

(* Whatever the stream does, the dispatcher does what it does alone.       *)
LEMMA StreamStepIsDispatch ==
  ASSUME [StreamNext \/ StreamFinished]_allVars
  PROVE  Dispatch \/ UNCHANGED vars
BY DEF allVars, StreamNext, StreamFinished, TestClosed, HandOver, Register, Close,
       Unregister, Signal, RunScheduled, AskNext, TakeEvent, ChannelEnded

(* The stream is one of the programs the dispatcher can serve.             *)
THEOREM StreamUsesDispatcher == StreamSpec => Spec
<1>1. StreamInit => Init
  BY DEF StreamInit
<1>2. [StreamNext \/ StreamFinished]_allVars => [Next \/ Finished]_vars
  BY StreamStepIsDispatch DEF Dispatch
<1> QED BY <1>1, <1>2, PTL DEF StreamSpec, Spec

(* The three lists.                                                        *)
LEMMA KindsRange == Range(Kinds) = Kind /\ Item = (Pipe \X Kind) \cup {Sentinel}
<1>1. \A i \in 1..3 : Kinds[i] \in Kind
  BY DEF Kinds, Kind
<1>2. DOMAIN Kinds = 1..3 /\ Kinds[1] = "pre" /\ Kinds[2] = "post" /\ Kinds[3] = "remove"
  BY DEF Kinds
<1>3. Range(Kinds) = Kind
  BY <1>1, <1>2 DEF Range, Kind
<1> QED BY <1>3 DEF Item

(* __init__ adds itself to the first list it is not in.                    *)
LEMMA NextList ==
  ASSUME MakingOK, stage = "making"
  PROVE  /\ registered = {} => Kinds[Cardinality(registered) + 1] = "pre"
         /\ registered = {"pre"} => Kinds[Cardinality(registered) + 1] = "post"
         /\ registered = {"pre", "post"} => Kinds[Cardinality(registered) + 1] = "remove"
<1>1. Cardinality({}) = 0
  BY FS_EmptySet
<1>2. Cardinality({"pre"}) = 1 /\ IsFiniteSet({"pre"})
  BY FS_Singleton
<1>3. Cardinality({"pre"} \cup {"post"}) = 1 + 1
  BY <1>2, FS_AddElement
<1>4. {"pre"} \cup {"post"} = {"pre", "post"}
  OBVIOUS
<1>5. Kinds[0 + 1] = "pre" /\ Kinds[1 + 1] = "post" /\ Kinds[(1 + 1) + 1] = "remove"
  BY DEF Kinds
<1>6. Cardinality({"pre", "post"}) = 1 + 1
  BY <1>3, <1>4, Zenon
<1> QED BY <1>1, <1>2, <1>5, <1>6, Zenon

(* Making the stream.                                                      *)
LEMMA RegisterStep ==
  ASSUME StreamTypeOK, MakingOK, Register
  PROVE  /\ MakingOK' /\ registered' \in SUBSET Kind /\ whole' \in SUBSET Pipe
         /\ stage' \in {"making", "open"}
         /\ stage' = "open" => whole' = {p \in Pipe : called[p] = <<>>}
<1> DEFINE k == Kinds[Cardinality(registered) + 1]
<1>1. /\ stage = "making" /\ registered' = registered \cup {k}
      /\ stage' = (IF k = "remove" THEN "open" ELSE "making")
      /\ whole' = (IF k = "remove" THEN {p \in Pipe : called[p] = <<>>} ELSE {})
  BY DEF Register, AddCallback
<1>2. /\ registered = {} => k = "pre"
      /\ registered = {"pre"} => k = "post"
      /\ registered = {"pre", "post"} => k = "remove"
  BY <1>1, NextList
<1> HIDE DEF k
<1>3. CASE registered = {}
  BY <1>1, <1>2, <1>3 DEF MakingOK, Kind
<1>4. CASE registered = {"pre"}
  BY <1>1, <1>2, <1>4 DEF MakingOK, Kind
<1>5. CASE registered = {"pre", "post"}
  BY <1>1, <1>2, <1>5 DEF MakingOK, Kind
<1> QED BY <1>1, <1>3, <1>4, <1>5 DEF MakingOK

(* The dispatcher's steps.                                                 *)
LEMMA DispatchTypes ==
  ASSUME StreamTypeOK, Dispatch PROVE StreamTypeOK'
<1>1. TypeOK'
  BY TypeStep DEF StreamTypeOK, Dispatch
<1>2. putting' \in [Thread -> {"nothing", "called", "open"}]
  BY DEF StreamTypeOK, Dispatch
<1>3. ASSUME NEW t \in Thread, putting'[t] # "nothing" PROVE t[1] \in running'[t[2]]
  <2>1. CASE Starts(t)
    BY <2>1 DEF Starts
  <2>2. CASE ~Starts(t)
    BY <1>3, <2>2 DEF Dispatch, StreamTypeOK, Ends
  <2> QED BY <2>1, <2>2
<1> QED BY <1>1, <1>2, <1>3 DEF StreamTypeOK, Dispatch

(* Handing over.                                                           *)
LEMMA HandOverTypes ==
  ASSUME StreamTypeOK, NEW t \in Thread, HandOver(t)
  PROVE  /\ StreamTypeOK'
         /\ \E e \in Pipe \X Kind :
              /\ e[1] = t[2] /\ scheduled' = Append(scheduled, e)
              /\ e[2] = IF t[1] = "reaper" THEN "remove"
                        ELSE IF connector[t[2]] = "pre_callbacks" THEN "pre" ELSE "post"
<1> DEFINE k == IF t[1] = "reaper" THEN "remove"
                ELSE IF connector[t[2]] = "pre_callbacks" THEN "pre" ELSE "post"
           e == <<t[2], k>>
<1>1. t[2] \in Pipe /\ k \in Kind
  BY DEF Thread, Kind
<1>2. scheduled' = Append(scheduled, e)
  BY DEF HandOver
<1>3. e[1] = t[2] /\ e[2] = k /\ e \in Pipe \X Kind
  BY <1>1
<1> HIDE DEF e
<1>4. scheduled' \in Seq(Item)
  <2>1. e \in Item
    BY <1>3, KindsRange
  <2> QED BY <1>2, <2>1, AppendProperties DEF StreamTypeOK
<1>5. TypeOK'
  BY DEF StreamTypeOK, TypeOK, HandOver, vars
<1>6. StreamTypeOK'
  BY <1>4, <1>5 DEF StreamTypeOK, HandOver, vars
<1> QED BY <1>2, <1>3, <1>6

(* Every other step of the stream.                                         *)
LEMMA StreamTypes ==
  ASSUME StreamTypeOK, MakingOK, StreamNext PROVE StreamTypeOK'
<1>1. CASE Dispatch
  BY <1>1, DispatchTypes
<1>2. UNCHANGED vars => TypeOK' /\ running' = running
  BY DEF StreamTypeOK, TypeOK, vars
<1>3. ASSUME NEW t \in Thread, TestClosed(t) PROVE StreamTypeOK'
  BY <1>2, <1>3 DEF StreamTypeOK, TestClosed
<1>4. ASSUME NEW t \in Thread, HandOver(t) PROVE StreamTypeOK'
  BY <1>4, HandOverTypes
<1>5. CASE Register
  <2>1. registered' \in SUBSET Kind /\ whole' \in SUBSET Pipe /\ stage' \in {"making", "open"}
    BY <1>5, RegisterStep
  <2> QED BY <1>2, <1>5, <2>1, KindsRange DEF StreamTypeOK, Register
<1>6. CASE Close \/ Unregister
  BY <1>2, <1>6 DEF StreamTypeOK, Close, Unregister, RemoveCallback
<1>7. CASE Signal
  <2>1. Sentinel \in Item
    BY DEF Item
  <2>2. Append(scheduled, Sentinel) \in Seq(Item)
    BY <2>1, AppendProperties DEF StreamTypeOK
  <2>3. scheduled' \in Seq(Item)
    BY <1>7, <2>2 DEF StreamTypeOK, Signal
  <2> QED BY <1>2, <1>7, <2>3 DEF StreamTypeOK, Signal
<1>8. CASE RunScheduled
  <2>1. Head(scheduled) \in Item /\ Tail(scheduled) \in Seq(Item)
    BY <1>8, HeadTailProperties DEF StreamTypeOK, RunScheduled
  <2>2. Append(queue, Head(scheduled)) \in Seq(Item)
    BY <2>1, AppendProperties DEF StreamTypeOK
  <2>3. scheduled' \in Seq(Item) /\ queue' \in Seq(Item)
    BY <1>8, <2>1, <2>2 DEF StreamTypeOK, RunScheduled
  <2> QED BY <1>2, <1>8, <2>3 DEF StreamTypeOK, RunScheduled
<1>9. ASSUME NEW c \in Consumer, AskNext(c) \/ ChannelEnded(c) PROVE StreamTypeOK'
  BY <1>2, <1>9 DEF StreamTypeOK, AskNext, ChannelEnded
<1>10. ASSUME NEW c \in Consumer, TakeEvent(c) PROVE StreamTypeOK'
  <2>1. Head(queue) \in Item /\ Tail(queue) \in Seq(Item)
    BY <1>10, HeadTailProperties DEF StreamTypeOK, TakeEvent
  <2>2. queue' \in Seq(Item) /\ consumer' \in [Consumer -> {"idle", "waiting", "ended"}]
    BY <1>10, <2>1 DEF StreamTypeOK, TakeEvent
  <2>3. CASE Head(queue) = Sentinel
    BY <1>2, <1>10, <2>2, <2>3 DEF StreamTypeOK, TakeEvent
  <2>4. CASE Head(queue) # Sentinel
    <3>1. /\ Head(queue)[1] \in Pipe /\ Head(queue)[2] \in Range(Kinds)
          /\ got' = [got EXCEPT ![Head(queue)[1]] = Append(@, Head(queue)[2])]
          /\ UNCHANGED stopped
      BY <1>10, <2>1, <2>4 DEF Item, TakeEvent
    <3>2. \A p \in Pipe : \A k \in Range(Kinds) : Append(got[p], k) \in Seq(Range(Kinds))
      BY AppendProperties DEF StreamTypeOK
    <3>3. got' \in [Pipe -> Seq(Range(Kinds))]
      BY <3>1, <3>2 DEF StreamTypeOK
    <3> QED BY <1>2, <1>10, <2>2, <3>1, <3>3 DEF StreamTypeOK, TakeEvent
  <2> QED BY <2>3, <2>4
<1> QED BY <1>1, <1>3, <1>4, <1>5, <1>6, <1>7, <1>8, <1>9, <1>10 DEF StreamNext

(* A step keeps how far the making of the stream is.                       *)
LEMMA MakingStep ==
  ASSUME StreamTypeOK, MakingOK, StreamNext PROVE MakingOK'
<1>1. CASE Register
  BY <1>1, RegisterStep
<1>2. CASE Close
  BY <1>2 DEF MakingOK, Close
<1>3. CASE Unregister \/ Signal
  BY <1>3 DEF MakingOK, Unregister, Signal
<1>4. ASSUME UNCHANGED <<stage, registered, whole>> PROVE MakingOK'
  BY <1>4 DEF MakingOK
<1> QED BY <1>1, <1>2, <1>3, <1>4
        DEF StreamNext, Dispatch, TestClosed, HandOver, RunScheduled, AskNext, TakeEvent,
            ChannelEnded

(* The stream's first state.                                               *)
LEMMA StreamStarts ==
  ASSUME StreamInit PROVE StreamTypeOK /\ MakingOK
<1>1. TypeOK
  BY TypeInit DEF StreamInit
<1>2. <<>> \in Seq(Item) /\ <<>> \in Seq(Range(Kinds))
  BY EmptySeq
<1> QED BY <1>1, <1>2 DEF StreamInit, StreamTypeOK, MakingOK

(* Every variable of the stream and of the dispatcher below it stays in    *)
(* its range, and a put is under way only on a thread that runs callbacks. *)
THEOREM StreamTypeCorrect == StreamSpec => [](StreamTypeOK /\ MakingOK)
<1>1. StreamInit => StreamTypeOK /\ MakingOK
  BY StreamStarts
<1>2. StreamTypeOK /\ MakingOK /\ [StreamNext \/ StreamFinished]_allVars
        => (StreamTypeOK /\ MakingOK)'
  <2>1. ASSUME StreamTypeOK, MakingOK, UNCHANGED allVars PROVE (StreamTypeOK /\ MakingOK)'
    BY <2>1 DEF StreamTypeOK, TypeOK, MakingOK, allVars, vars, streamVars
  <2> QED BY <2>1, StreamTypes, MakingStep DEF StreamFinished
<1> QED BY <1>1, <1>2, PTL DEF StreamSpec

------------------------------------------------------------------------------
(* What the tasks may still receive.                                       *)

(* It is scheduled behind everything ...                                   *)
LEMMA PutBehind ==
  ASSUME NEW q \in Seq(Item), NEW s \in Seq(Item), NEW e \in Item
  PROVE  Longer(q \o Append(s, e), q \o s, e)
<1> DEFINE a == q \o s
<1>1. <<e>> \in Seq(Item) /\ a \in Seq(Item)
  BY ConcatProperties
<1>2. Append(s, e) = s \o <<e>>
  BY AppendIsConcat, Zenon
<1>3. q \o (s \o <<e>>) = a \o <<e>>
  BY <1>1, ConcatAssociative
<1>4. Append(a, e) = a \o <<e>>
  BY <1>1, AppendIsConcat, Zenon
<1>5. q \o Append(s, e) = Append(a, e)
  BY <1>2, <1>3, <1>4, Zenon
<1> HIDE DEF a
<1>6. Longer(Append(a, e), a, e)
  BY <1>1, AppendIsLonger
<1> QED BY <1>5, <1>6, Zenon DEF a

(* ... put into the queue when the loop comes to it ...                    *)
LEMMA PutInto ==
  ASSUME NEW q \in Seq(Item), NEW s \in Seq(Item), s # <<>>
  PROVE  Append(q, Head(s)) \o Tail(s) = q \o s
<1> DEFINE h == Head(s)
           t == Tail(s)
           u == <<h>>
<1>1. h \in Item /\ t \in Seq(Item) /\ Len(t) = Len(s) - 1 /\ h = s[1]
      /\ \A i \in 1..Len(t) : t[i] = s[i + 1]
  BY HeadTailProperties
<1>2. u \in Seq(Item) /\ Len(u) = 1 /\ u[1] = h
  BY <1>1
<1>3. Append(q, h) = q \o u
  BY <1>1, AppendIsConcat, Zenon
<1> HIDE DEF h, t, u
<1>4. u \o t = s
  <2>0. u \in Seq(Item) /\ t \in Seq(Item)
    BY <1>1, <1>2
  <2>1. /\ u \o t \in Seq(Item) /\ Len(u \o t) = Len(u) + Len(t)
        /\ \A i \in 1..(Len(u) + Len(t)) :
             (u \o t)[i] = IF i <= Len(u) THEN u[i] ELSE t[i - Len(u)]
    BY <2>0, ConcatProperties, Zenon
  <2>2. Len(s) \in Nat /\ Len(t) \in Nat
    BY <1>1, LenProperties
  <2>3. ASSUME NEW i \in 1..Len(u \o t) PROVE (u \o t)[i] = s[i]
    <3>1. i \in Int /\ 1 <= i /\ i <= Len(t) + 1
      BY <1>2, <2>1, <2>2
    <3>2. CASE i = 1
      BY <1>1, <1>2, <2>1, <3>1, <3>2
    <3>3. CASE i # 1
      <4>1. ~(i <= Len(u)) /\ i - 1 \in 1..Len(t) /\ (i - 1) + 1 = i /\ Len(u) = 1
        BY <1>2, <2>2, <3>1, <3>3
      <4>2. (u \o t)[i] = t[i - 1]
        BY <2>1, <2>3, <4>1
      <4>3. t[i - 1] = s[i]
        BY <1>1, <4>1
      <4> QED BY <4>2, <4>3
    <3> QED BY <3>2, <3>3
  <2>4. Len(u \o t) = Len(s)
    BY <1>1, <1>2, <2>1, <2>2
  <2> QED BY <2>1, <2>3, <2>4, SeqEqual, Zenon
<1>5. (q \o u) \o t = q \o (u \o t)
  <2>1. u \in Seq(Item) /\ t \in Seq(Item)
    BY <1>1, <1>2
  <2> QED BY <2>1, ConcatAssociative
<1>6. Append(q, h) \o t = q \o s
  BY <1>3, <1>4, <1>5, Zenon
<1> QED BY <1>6, Zenon DEF h, t

(* ... and taken from it.                                                  *)
LEMMA TakeFrom ==
  ASSUME NEW q \in Seq(Item), NEW s \in Seq(Item), q # <<>>
  PROVE  /\ Shorter(Tail(q) \o s, q \o s)
         /\ (q \o s)[1] = Head(q)
<1> DEFINE t == Tail(q)
<1>1. t \in Seq(Item) /\ Len(t) = Len(q) - 1 /\ Head(q) = q[1]
      /\ \A i \in 1..Len(t) : t[i] = q[i + 1]
  BY HeadTailProperties
<1>2. Len(q) \in Nat /\ Len(t) \in Nat /\ Len(s) \in Nat /\ Len(q) = Len(t) + 1
  BY <1>1, LenProperties
<1> HIDE DEF t
<1>3. /\ Len(q \o s) = Len(q) + Len(s) /\ Len(t \o s) = Len(t) + Len(s)
      /\ \A i \in 1..(Len(q) + Len(s)) :
           (q \o s)[i] = IF i <= Len(q) THEN q[i] ELSE s[i - Len(q)]
      /\ \A i \in 1..(Len(t) + Len(s)) :
           (t \o s)[i] = IF i <= Len(t) THEN t[i] ELSE s[i - Len(t)]
  BY <1>1, ConcatProperties, Zenon
<1>4. ASSUME NEW i \in 1..Len(t \o s) PROVE (t \o s)[i] = (q \o s)[i + 1]
  <2>1. i \in 1..(Len(t) + Len(s)) /\ i + 1 \in 1..(Len(q) + Len(s))
    BY <1>2, <1>3
  <2>2. (t \o s)[i] = IF i <= Len(t) THEN t[i] ELSE s[i - Len(t)]
    BY <1>3, <2>1, Zenon
  <2>3. (q \o s)[i + 1] = IF i + 1 <= Len(q) THEN q[i + 1] ELSE s[(i + 1) - Len(q)]
    BY <1>3, <2>1, Zenon
  <2>4. CASE i <= Len(t)
    BY <1>1, <1>2, <2>1, <2>2, <2>3, <2>4
  <2>5. CASE ~(i <= Len(t))
    <3>1. ~(i + 1 <= Len(q)) /\ (i + 1) - Len(q) = i - Len(t)
      BY <1>2, <2>1, <2>5
    <3> QED BY <2>2, <2>3, <2>5, <3>1, Zenon
  <2> QED BY <2>4, <2>5
<1>5. (q \o s)[1] = q[1]
  <2>1. 1 \in 1..(Len(q) + Len(s)) /\ 1 <= Len(q)
    BY <1>2
  <2> QED BY <1>3, <2>1, Zenon
<1>6. Len(q \o s) = Len(t \o s) + 1
  BY <1>2, <1>3
<1> QED BY <1>1, <1>4, <1>5, <1>6 DEF Shorter, t

(* What is coming is a sequence of events and the sentinel.                *)
LEMMA ComingType ==
  ASSUME StreamTypeOK PROVE Coming \in Seq(Item)
<1>1. queue \in Seq(Item) /\ scheduled \in Seq(Item)
  BY DEF StreamTypeOK
<1>2. queue \o scheduled \in Seq(Item)
  BY <1>1, ConcatProperties
<1> QED BY <1>1, <1>2 DEF Coming

(* It is one after the step, too.                                          *)
LEMMA ComingTypeNext ==
  ASSUME StreamTypeOK' PROVE Coming' \in Seq(Item)
<1>1. queue' \in Seq(Item) /\ scheduled' \in Seq(Item)
  BY DEF StreamTypeOK, Item
<1>2. queue' \o scheduled' \in Seq(Item)
  BY <1>1, ConcatProperties
<1> QED BY <1>1, <1>2 DEF Coming

(* A callback hands its event over: it is coming, or trio's channel is     *)
(* closed.                                                                 *)
LEMMA HandOverComes ==
  ASSUME StreamTypeOK, NEW t \in Thread, HandOver(t)
  PROVE  \/ backend = "trio" /\ stage = "closed" /\ Coming' = Coming
         \/ \E e \in Pipe \X Kind :
              /\ e[1] = t[2] /\ Longer(Coming', Coming, e)
              /\ e[2] = IF t[1] = "reaper" THEN "remove"
                        ELSE IF connector[t[2]] = "pre_callbacks" THEN "pre" ELSE "post"
<1>1. UNCHANGED <<backend, stage, queue>>
  BY DEF HandOver
<1>2. CASE backend = "trio" /\ stage = "closed"
  BY <1>1, <1>2 DEF Coming
<1>3. CASE ~(backend = "trio" /\ stage = "closed")
  <2>1. PICK e \in Pipe \X Kind :
              /\ e[1] = t[2] /\ scheduled' = Append(scheduled, e)
              /\ e[2] = IF t[1] = "reaper" THEN "remove"
                        ELSE IF connector[t[2]] = "pre_callbacks" THEN "pre" ELSE "post"
    BY HandOverTypes
  <2>2. Coming = queue \o scheduled /\ Coming' = queue \o Append(scheduled, e)
    BY <1>1, <1>3, <2>1 DEF Coming
  <2>3. e \in Item /\ queue \in Seq(Item) /\ scheduled \in Seq(Item)
    BY KindsRange DEF StreamTypeOK
  <2>4. Longer(queue \o Append(scheduled, e), queue \o scheduled, e)
    BY <2>3, PutBehind
  <2>5. Longer(Coming', Coming, e)
    BY <2>2, <2>4, Zenon
  <2> QED BY <2>1, <2>5
<1> QED BY <1>2, <1>3

(* The sentinel is behind the events handed over; trio drops those it has  *)
(* not come to.                                                            *)
LEMMA SignalComes ==
  ASSUME StreamTypeOK, Signal
  PROVE  \/ backend = "asyncio" /\ Longer(Coming', Coming, Sentinel)
         \/ /\ backend = "trio" /\ Len(Coming') <= Len(Coming)
            /\ \A i \in 1..Len(Coming') : Coming'[i] = Coming[i]
<1>1. queue \in Seq(Item) /\ scheduled \in Seq(Item)
  BY DEF StreamTypeOK
<1>2. Coming = queue \o scheduled
  BY DEF Coming, Signal
<1>3. CASE backend = "asyncio"
  <2>1. Sentinel \in Item
    BY DEF Item
  <2>2. Longer(queue \o Append(scheduled, Sentinel), queue \o scheduled, Sentinel)
    BY <1>1, <2>1, PutBehind
  <2>3. Coming' = queue \o Append(scheduled, Sentinel)
    BY <1>3 DEF Coming, Signal
  <2>4. Longer(Coming', Coming, Sentinel)
    BY <1>2, <2>2, <2>3, Zenon
  <2> QED BY <1>3, <2>4
<1>4. CASE backend = "trio"
  <2>1. Coming' = queue
    BY <1>4 DEF Coming, Signal
  <2>2. /\ Len(queue \o scheduled) = Len(queue) + Len(scheduled)
        /\ \A i \in 1..(Len(queue) + Len(scheduled)) :
             (queue \o scheduled)[i] = IF i <= Len(queue) THEN queue[i]
                                       ELSE scheduled[i - Len(queue)]
    BY <1>1, ConcatProperties
  <2>3. Len(queue) \in Nat /\ Len(scheduled) \in Nat
    BY <1>1, LenProperties
  <2>4. \A i \in 1..Len(queue) : i \in 1..(Len(queue) + Len(scheduled)) /\ i <= Len(queue)
    BY <2>3
  <2>5. \A i \in 1..Len(queue) : (queue \o scheduled)[i] = queue[i]
    BY <2>2, <2>4, Zenon
  <2>6. Len(queue) <= Len(queue \o scheduled)
    BY <2>2, <2>3
  <2>7. Len(Coming') <= Len(Coming) /\ \A i \in 1..Len(Coming') : Coming'[i] = Coming[i]
    BY <1>2, <2>1, <2>5, <2>6, Zenon
  <2> QED BY <1>4, <2>7
<1> QED BY <1>3, <1>4 DEF StreamTypeOK

(* The loop moves an event from what is scheduled to the queue.            *)
LEMMA RunComes ==
  ASSUME StreamTypeOK, RunScheduled PROVE Coming' = Coming
<1>1. queue \in Seq(Item) /\ scheduled \in Seq(Item) /\ scheduled # <<>>
  BY DEF StreamTypeOK, RunScheduled
<1>2. CASE backend = "trio" /\ stage = "closed"
  BY <1>2 DEF RunScheduled, Coming
<1>3. CASE ~(backend = "trio" /\ stage = "closed")
  <2>1. Coming = queue \o scheduled
    BY <1>3 DEF Coming
  <2>2. Coming' = Append(queue, Head(scheduled)) \o Tail(scheduled)
    BY <1>3 DEF Coming, RunScheduled
  <2>3. Append(queue, Head(scheduled)) \o Tail(scheduled) = queue \o scheduled
    BY <1>1, PutInto
  <2> QED BY <2>1, <2>2, <2>3, Zenon
<1> QED BY <1>2, <1>3

(* A task takes the head.                                                  *)
LEMMA TakeComes ==
  ASSUME StreamTypeOK, NEW c \in Consumer, TakeEvent(c)
  PROVE  Shorter(Coming', Coming) /\ Coming[1] = Head(queue)
<1>1. /\ queue \in Seq(Item) /\ scheduled \in Seq(Item) /\ queue # <<>>
      /\ queue' = Tail(queue) /\ UNCHANGED <<backend, stage, scheduled>>
  BY DEF StreamTypeOK, TakeEvent
<1>2. CASE backend = "trio" /\ stage = "closed"
  <2>1. Coming = queue /\ Coming' = Tail(queue)
    BY <1>1, <1>2 DEF Coming
  <2>2. Len(Tail(queue)) = Len(queue) - 1 /\ Head(queue) = queue[1]
        /\ \A i \in 1..Len(Tail(queue)) : Tail(queue)[i] = queue[i + 1]
    BY <1>1, HeadTailProperties
  <2>3. Len(queue) \in Nat
    BY <1>1, LenProperties
  <2>4. Shorter(Tail(queue), queue)
    BY <2>2, <2>3 DEF Shorter
  <2> QED BY <2>1, <2>2, <2>4, Zenon
<1>3. CASE ~(backend = "trio" /\ stage = "closed")
  <2>1. Coming = queue \o scheduled /\ Coming' = Tail(queue) \o scheduled
    BY <1>1, <1>3 DEF Coming
  <2>2. /\ Shorter(Tail(queue) \o scheduled, queue \o scheduled)
        /\ (queue \o scheduled)[1] = Head(queue)
    BY <1>1, TakeFrom
  <2> QED BY <2>1, <2>2, Zenon
<1> QED BY <1>2, <1>3

(* Nobody else touches it.                                                 *)
LEMMA OthersLeaveComing ==
  ASSUME StreamTypeOK,
         \/ Dispatch \/ Register \/ Close \/ Unregister \/ UNCHANGED allVars
         \/ \E t \in Thread : TestClosed(t)
         \/ \E c \in Consumer : AskNext(c) \/ ChannelEnded(c)
  PROVE  Coming' = Coming
<1>1. CASE UNCHANGED <<backend, stage, scheduled, queue>>
  BY <1>1 DEF Coming
<1>2. CASE Register \/ Close
  <2>1. stage # "closed" /\ stage' # "closed" /\ UNCHANGED <<backend, scheduled, queue>>
    BY <1>2 DEF Register, Close
  <2> QED BY <2>1 DEF Coming
<1> QED BY <1>1, <1>2 DEF Dispatch, Unregister, TestClosed, AskNext, ChannelEnded, allVars,
                          streamVars

------------------------------------------------------------------------------
(* A closed stream ends.                                                   *)

(* The sentinel is on its way, or a task has it.                           *)
SentinelOK ==
  stage = "closed" /\ backend = "asyncio" => Contains(Coming, Sentinel) \/ stopped # {}

(* Something is put behind the sentinel, or a task takes the head.         *)
LEMMA SentinelStep ==
  ASSUME StreamTypeOK, MakingOK, SentinelOK, StreamNext PROVE SentinelOK'
<1>1. Coming \in Seq(Item) /\ Len(Coming) \in Nat
  BY ComingType, LenProperties
<1>2. ASSUME Coming' = Coming, UNCHANGED <<stage, backend, stopped>> PROVE SentinelOK'
  BY <1>2 DEF SentinelOK, Contains
<1>3. CASE Register \/ Close
  BY <1>3 DEF SentinelOK, Register, Close
<1>4. ASSUME NEW t \in Thread, HandOver(t) PROVE SentinelOK'
  <2>1. UNCHANGED <<stage, backend, stopped>>
    BY <1>4 DEF HandOver
  <2>2. CASE Coming' = Coming
    BY <1>2, <2>1, <2>2
  <2>3. ASSUME NEW e, Longer(Coming', Coming, e) PROVE SentinelOK'
    BY <1>1, <2>1, <2>3 DEF SentinelOK, Contains, Longer
  <2> QED BY <1>4, <2>2, <2>3, HandOverComes
<1>5. CASE Signal
  <2>1. UNCHANGED backend
    BY <1>5 DEF Signal
  <2>2. CASE backend = "asyncio" /\ Longer(Coming', Coming, Sentinel)
    BY <1>1, <2>2 DEF SentinelOK, Contains, Longer
  <2>3. CASE backend = "trio"
    BY <2>1, <2>3 DEF SentinelOK
  <2> QED BY <1>5, <2>2, <2>3, SignalComes
<1>6. CASE RunScheduled
  BY <1>2, <1>6, RunComes DEF RunScheduled
<1>7. ASSUME NEW c \in Consumer, TakeEvent(c) PROVE SentinelOK'
  <2>1. Shorter(Coming', Coming) /\ Coming[1] = Head(queue) /\ UNCHANGED <<stage, backend>>
    BY <1>7, TakeComes DEF TakeEvent
  <2>2. CASE Head(queue) = Sentinel
    BY <1>7, <2>2 DEF SentinelOK, TakeEvent
  <2>3. CASE Head(queue) # Sentinel
    <3>1. UNCHANGED stopped
      BY <1>7, <2>3 DEF TakeEvent
    <3>2. ASSUME NEW i \in 1..Len(Coming), Coming[i] = Sentinel
          PROVE  \E j \in 1..Len(Coming') : Coming'[j] = Sentinel
      <4>1. i # 1
        BY <2>1, <2>3, <3>2
      <4>2. Len(Coming) = Len(Coming') + 1
        BY <2>1 DEF Shorter
      <4>3. Len(Coming') \in Nat
        BY StreamTypes, ComingTypeNext, LenProperties
      <4>4. i - 1 \in 1..Len(Coming') /\ (i - 1) + 1 = i
        BY <1>1, <4>1, <4>2, <4>3
      <4>5. Coming'[i - 1] = Coming[(i - 1) + 1]
        BY <2>1, <4>4 DEF Shorter
      <4> QED BY <3>2, <4>4, <4>5
    <3> QED BY <2>1, <3>1, <3>2 DEF SentinelOK, Contains
  <2> QED BY <2>2, <2>3
<1>8. CASE Dispatch \/ Unregister
  BY <1>2, <1>8, OthersLeaveComing DEF Dispatch, Unregister
<1>9. ASSUME NEW t \in Thread, TestClosed(t) PROVE SentinelOK'
  BY <1>2, <1>9, OthersLeaveComing DEF TestClosed
<1>10. ASSUME NEW c \in Consumer, AskNext(c) \/ ChannelEnded(c) PROVE SentinelOK'
  BY <1>2, <1>10, OthersLeaveComing DEF AskNext, ChannelEnded
<1> QED BY <1>3, <1>4, <1>5, <1>6, <1>7, <1>8, <1>9, <1>10 DEF StreamNext

(* While a task waits for a closed stream, the sentinel is on its way, or  *)
(* another task has taken it: ClosedStreamEnds, whichever order the loop,  *)
(* the callbacks and close are interleaved in.                             *)
THEOREM ClosedStreamReachesATask == StreamSpec => []ClosedStreamEnds
<1>1. StreamInit => SentinelOK
  BY DEF StreamInit, SentinelOK
<1>2. StreamTypeOK /\ MakingOK /\ SentinelOK /\ [StreamNext \/ StreamFinished]_allVars
        => SentinelOK'
  <2>1. ASSUME StreamTypeOK, SentinelOK, UNCHANGED allVars PROVE SentinelOK'
    <3>1. Coming' = Coming
      BY <2>1, OthersLeaveComing
    <3> QED BY <2>1, <3>1 DEF SentinelOK, allVars, streamVars, Contains
  <2> QED BY <2>1, SentinelStep DEF StreamFinished
<1>3. StreamTypeOK /\ SentinelOK => ClosedStreamEnds
  BY DEF StreamTypeOK, SentinelOK, ClosedStreamEnds
<1> QED BY <1>1, <1>2, <1>3, StreamTypeCorrect, PTL DEF StreamSpec

------------------------------------------------------------------------------
(* The callbacks of the stream.                                            *)

(* One callback more.                                                      *)
LEMMA OneCallMore ==
  ASSUME NEW c \in Seq(Kind), NEW k \in Kind
  PROVE  Longer(c \o <<k>>, c, k)
<1>1. Append(c, k) = c \o <<k>>
  BY AppendIsConcat
<1>2. Longer(Append(c, k), c, k)
  BY AppendIsLonger
<1> QED BY <1>1, <1>2

(* The dispatcher starts on the callbacks of a pipe when no thread runs    *)
(* any, and the reaper's are the remove callbacks.                         *)
LEMMA CallsOne ==
  ASSUME TypeOK, PipesOK, Next, NEW p \in Pipe, called'[p] # called[p]
  PROVE  /\ running[p] = {}
         /\ \E thread \in {"connector", "reaper"}, k \in Kind :
              /\ running'[p] = {thread} /\ Longer(called'[p], called[p], k)
              /\ thread = "reaper" => k = "remove"
<1>1. PipeOK(p) /\ called[p] \in Seq(Kind)
  BY DEF PipesOK, TypeOK, Kind
<1>2. ASSUME NEW thread \in {"connector", "reaper"}, NEW k \in Kind,
             StartCallbacks(p, thread, <<k>>), running[p] = {}
      PROVE  running'[p] = {thread} /\ Longer(called'[p], called[p], k)
  <2>1. called'[p] = called[p] \o <<k>> /\ running'[p] = {thread}
    BY <1>2 DEF StartCallbacks, TypeOK
  <2>2. Longer(called[p] \o <<k>>, called[p], k)
    BY <1>1, OneCallMore
  <2> QED BY <2>1, <2>2
<1>3. CASE AddPre(p)
  <2>1. running[p] = {} /\ StartCallbacks(p, "connector", <<"pre">>)
    BY <1>1, <1>3 DEF AddPre, PipeOK, RunningOK, LateOK, InCallbacks
  <2> QED BY <1>2, <2>1 DEF Kind
<1>4. CASE AddPost(p)
  <2>1. running[p] = {} /\ StartCallbacks(p, "connector", <<"post">>)
    BY <1>4, PostFinds DEF AddPost
  <2> QED BY <1>2, <2>1 DEF Kind
<1>5. CASE RemPost(p) \/ RemPostWoken(p)
  <2>1. WaitOrRemove(p) /\ reaper[p] \in {"idle", "woken"}
    BY <1>5 DEF RemPost, RemPostWoken
  <2>2. running[p] \ {"reaper"} = {}
    BY <2>1 DEF WaitOrRemove, MustWait
  <2>3. running[p] = {}
    BY <1>1, <2>1, <2>2 DEF PipeOK, RunningOK, InCallbacks
  <2>4. StartCallbacks(p, "reaper", IF p \in rejected THEN <<>> ELSE <<"remove">>)
    BY <2>1 DEF WaitOrRemove
  <2>5. CASE p \notin rejected
    <3>1. StartCallbacks(p, "reaper", <<"remove">>)
      BY <2>4, <2>5
    <3> QED BY <1>2, <2>3, <3>1 DEF Kind
  <2>6. CASE p \in rejected
    <3>1. called'[p] = called[p] \o <<>>
      BY <2>4, <2>6 DEF StartCallbacks, TypeOK
    <3>2. called[p] \o <<>> = called[p]
      BY <1>1, ConcatEmptySeq
    <3> QED BY <3>1, <3>2
  <2> QED BY <2>5, <2>6
<1>6. ASSUME NEW q \in Pipe, SendAddPre(q) \/ Connector(q) \/ Reaper(q) PROVE q = p
  <2>1. q # p => LeavesAlone(p)
    BY <1>6, OthersAlone
  <2> QED BY <2>1 DEF LeavesAlone
<1>7. SendAddPre(p) \/ Connector(p) \/ Reaper(p)
  <2>1. ~UNCHANGED dispatchVars
    BY DEF dispatchVars
  <2> QED BY <1>6, <2>1, OutsideUnchanged
<1>8. ~SendAddPre(p) /\ ~AddPreDropped(p) /\ ~AddPreDone(p) /\ ~SendAddPost(p)
      /\ ~AddPostDropped(p) /\ ~AddPostDone(p)
  BY DEF SendAddPre, AddPreDropped, AddPreDone, SendAddPost, AddPostDropped, AddPostDone
<1>9. ~RemPostUnseen(p) /\ ~RemPostDone(p)
  BY DEF RemPostUnseen, RemPostDone
<1> QED BY <1>3, <1>4, <1>5, <1>7, <1>8, <1>9 DEF Connector, Reaper

(* The reaper's put is one of a remove callback.                           *)
ReaperPuts ==
  \A t \in Thread : putting[t] # "nothing" /\ t[1] = "reaper" => called[t[2]] # <<"pre">>

(* One thread has something in hand for a pipe.                            *)
LEMMA OneInHand ==
  ASSUME StreamTypeOK, PipesOK, NEW p \in Pipe, NEW t \in InHand(p), NEW u \in InHand(p)
  PROVE  t = u
<1>1. /\ t \in Thread /\ t[2] = p /\ t[1] \in running[p]
      /\ u \in Thread /\ u[2] = p /\ u[1] \in running[p]
  BY DEF StreamTypeOK, InHand
<1>2. t[1] = u[1]
  BY <1>1 DEF PipesOK, PipeOK, RunningOK
<1> QED BY <1>1, <1>2 DEF Thread

(* It is the last that was called.                                         *)
LEMMA InHandIsLast ==
  ASSUME StreamTypeOK, PipesOK, ReaperPuts, NEW p \in Pipe, NEW t \in InHand(p)
  PROVE  /\ called[p] # <<>>
         /\ called[p][Len(called[p])] = IF t[1] = "reaper" THEN "remove"
                ELSE IF connector[t[2]] = "pre_callbacks" THEN "pre" ELSE "post"
<1>1. /\ t \in Thread /\ t[2] = p /\ t[1] \in running[p] /\ PipeOK(p)
      /\ t[1] = "reaper" => called[p] # <<"pre">>
  BY DEF StreamTypeOK, InHand, PipesOK, ReaperPuts
<1>2. t[1] \in {"connector", "reaper"}
  BY <1>1 DEF Thread
<1>3. CASE t[1] = "reaper"
  <2>1. called[p] \in {<<"pre", "remove">>, <<"pre", "post", "remove">>}
    BY <1>1, <1>3 DEF PipeOK, RunningOK, CalledOK, InCallbacks
  <2>2. CASE called[p] = <<"pre", "remove">>
    BY <1>3, <2>2
  <2>3. CASE called[p] = <<"pre", "post", "remove">>
    BY <1>3, <2>3
  <2> QED BY <2>1, <2>2, <2>3
<1>4. CASE t[1] = "connector"
  <2>1. \/ connector[p] = "pre_callbacks" /\ called[p] = <<"pre">>
        \/ connector[p] = "post_callbacks" /\ called[p] = <<"pre", "post">>
    BY <1>1, <1>4 DEF PipeOK, RunningOK, StateOK, CalledOK, InCallbacks
  <2>2. CASE connector[p] = "pre_callbacks" /\ called[p] = <<"pre">>
    BY <1>1, <1>4, <2>2
  <2>3. CASE connector[p] = "post_callbacks" /\ called[p] = <<"pre", "post">>
    BY <1>1, <1>4, <2>3
  <2> QED BY <2>1, <2>2, <2>3
<1> QED BY <1>2, <1>3, <1>4

(* Nothing is in hand for a pipe whose callbacks are about to start.       *)
LEMMA HandsEmpty ==
  ASSUME StreamTypeOK, NEW p \in Pipe, running[p] = {}
  PROVE  InHand(p) = {}
BY DEF StreamTypeOK, InHand

(* A dispatcher's step keeps it so.                                        *)
LEMMA ReaperPutsStep ==
  ASSUME StreamTypeOK, PipesOK, ReaperPuts, StreamNext PROVE ReaperPuts'
<1>1. CASE Dispatch
  <2>1. SUFFICES ASSUME NEW t \in Thread, putting'[t] # "nothing", t[1] = "reaper"
                 PROVE  called'[t[2]] # <<"pre">>
    BY DEF ReaperPuts
  <2>2. t[2] \in Pipe
    BY DEF Thread
  <2>3. CASE called'[t[2]] = called[t[2]]
    <3>1. putting[t] # "nothing"
      BY <1>1, <2>1, <2>3 DEF Dispatch, Starts, StreamTypeOK
    <3> QED BY <2>1, <2>3, <3>1 DEF ReaperPuts
  <2>4. CASE called'[t[2]] # called[t[2]]
    <3>1. TypeOK /\ Next
      BY <1>1 DEF StreamTypeOK, Dispatch
    <3>2. /\ running[t[2]] = {}
          /\ \E thread \in {"connector", "reaper"}, k \in Kind :
               /\ running'[t[2]] = {thread} /\ Longer(called'[t[2]], called[t[2]], k)
               /\ thread = "reaper" => k = "remove"
      BY <2>2, <2>4, <3>1, CallsOne
    <3>3. putting[t] = "nothing"
      BY <3>2 DEF StreamTypeOK
    <3>4. Starts(t)
      BY <1>1, <2>1, <3>3 DEF Dispatch, StreamTypeOK
    <3>5. Longer(called'[t[2]], called[t[2]], "remove")
      BY <2>1, <3>2, <3>4 DEF Starts
    <3>6. called'[t[2]][Len(called'[t[2]])] = "remove"
      BY <3>5 DEF Longer
    <3>7. <<"pre">>[Len(<<"pre">>)] = "pre"
      OBVIOUS
    <3> QED BY <3>6, <3>7
  <2> QED BY <2>3, <2>4
<1>2. ASSUME UNCHANGED vars, \A t \in Thread : putting'[t] # "nothing" => putting[t] # "nothing"
      PROVE  ReaperPuts'
  BY <1>2 DEF ReaperPuts, vars
<1>3. ASSUME NEW t \in Thread, TestClosed(t) \/ HandOver(t) PROVE ReaperPuts'
  <2>1. \A u \in Thread : putting'[u] # "nothing" => putting[u] # "nothing"
    BY <1>3 DEF TestClosed, HandOver, StreamTypeOK
  <2> QED BY <1>2, <1>3, <2>1 DEF TestClosed, HandOver
<1> QED BY <1>1, <1>2, <1>3 DEF StreamNext, Register, Close, Unregister, Signal,
           RunScheduled, AskNext, TakeEvent, ChannelEnded

------------------------------------------------------------------------------
(* The stream is faithful.                                                 *)

(* What trio's closed channel drops.                                       *)
Dropping == backend = "trio" /\ stage = "closed"

(* A pipe for which nothing was called is not heard of.                    *)
Unseen(p) ==
  called[p] = <<>> => got[p] = <<>> /\ \A i \in 1..Len(Coming) : ~IsOf(Coming[i], p)

(* All that was called is received or coming, but what is in hand; when it *)
(* is handed over after the stream was closed it still comes next.         *)
Fed(p) ==
  p \in whole =>
    /\ Feeds(Coming, got[p], called[p], p)
    /\ ~_closed /\ InHand(p) = {} => Len(called[p]) = HandedOver(p)
    /\ \A t \in InHand(p) : ~_closed \/ (putting[t] = "open" /\ ~Dropping)
                              => Len(called[p]) = HandedOver(p) + 1

FaithfulOK == ReaperPuts /\ \A p \in Pipe : Unseen(p) /\ Fed(p)

(* The sequences the lemmas are about.                                     *)
LEMMA StreamSequences ==
  ASSUME StreamTypeOK, NEW p \in Pipe
  PROVE  /\ Coming \in Seq(Item) /\ got[p] \in Seq(Kind) /\ called[p] \in Seq(Kind)
         /\ Len(Coming) \in Nat /\ Len(got[p]) \in Nat /\ Len(called[p]) \in Nat
<1>1. Coming \in Seq(Item) /\ got[p] \in Seq(Kind) /\ called[p] \in Seq(Kind)
  BY ComingType, KindsRange DEF StreamTypeOK, TypeOK, Kind
<1> QED BY <1>1, LenProperties

(* A pipe whose callbacks, events and tasks rest, while nothing new comes. *)
LEMMA FedRests ==
  ASSUME NEW p \in Pipe, Fed(p), Coming' = Coming, got'[p] = got[p],
         called'[p] = called[p], p \in whole' => p \in whole, _closed => _closed',
         Dropping => Dropping', InHand(p)' = InHand(p) \/ (InHand(p)' = {} /\ _closed'),
         \A t \in InHand(p)' : putting'[t] = "open" => putting[t] = "open" \/ ~_closed
  PROVE  Fed(p)'
<1>1. HandedOver(p)' = HandedOver(p)
  BY DEF HandedOver
<1>2. CASE p \notin whole'
  BY <1>2 DEF Fed
<1>3. CASE p \in whole'
  <2>1. Feeds(Coming, got[p], called[p], p)
    BY <1>3 DEF Fed
  <2>2. Feeds(Coming', got'[p], called'[p], p)
    BY <2>1
  <2>3. ~_closed' /\ InHand(p)' = {} => Len(called'[p]) = HandedOver(p)'
    BY <1>1, <1>3 DEF Fed
  <2>4. ASSUME NEW t \in InHand(p)', ~_closed' \/ (putting'[t] = "open" /\ ~Dropping')
        PROVE  Len(called'[p]) = HandedOver(p)' + 1
    <3>1. t \in InHand(p)
      BY <2>4
    <3>2. ~_closed \/ (putting[t] = "open" /\ ~Dropping)
      BY <2>4
    <3>3. Len(called[p]) = HandedOver(p) + 1
      BY <1>3, <3>1, <3>2 DEF Fed
    <3> QED BY <1>1, <3>3
  <2> QED BY <2>2, <2>3, <2>4 DEF Fed
<1> QED BY <1>2, <1>3

(* The same when the sequence that is coming changes and the count of what *)
(* is handed over does not.                                                *)
LEMMA FedShifts ==
  ASSUME NEW p \in Pipe, Fed(p), p \in whole => Feeds(Coming', got'[p], called[p], p),
         HandedOver(p)' = HandedOver(p) \/ (Dropping' /\ _closed'),
         called' = called, whole' = whole, _closed => _closed',
         Dropping => Dropping', putting' = putting
  PROVE  Fed(p)'
<1>1. InHand(p)' = InHand(p)
  BY DEF InHand
<1>2. CASE p \notin whole
  BY <1>2 DEF Fed
<1>3. CASE p \in whole
  <2>1. Feeds(Coming', got'[p], called'[p], p)
    BY <1>3
  <2>2. ~_closed' /\ InHand(p)' = {} => Len(called'[p]) = HandedOver(p)'
    BY <1>1, <1>3 DEF Fed
  <2>3. ASSUME NEW t \in InHand(p)', ~_closed' \/ (putting'[t] = "open" /\ ~Dropping')
        PROVE  Len(called'[p]) = HandedOver(p)' + 1
    <3>1. ~_closed \/ (putting[t] = "open" /\ ~Dropping)
      BY <2>3
    <3>2. Len(called[p]) = HandedOver(p) + 1
      BY <1>1, <1>3, <2>3, <3>1 DEF Fed
    <3>3. HandedOver(p)' = HandedOver(p)
      BY <2>3
    <3> QED BY <3>2, <3>3
  <2> QED BY <2>1, <2>2, <2>3 DEF Fed
<1> QED BY <1>2, <1>3

(* The dispatcher calls for a pipe what its stream will hear of.           *)
LEMMA FedDispatch ==
  ASSUME StreamTypeOK, StreamTypeOK', MakingOK, PipesOK, Dispatch,
         NEW p \in Pipe, Unseen(p), Fed(p)
  PROVE  Unseen(p)' /\ Fed(p)'
<1>1. Coming' = Coming /\ TypeOK /\ Next
      /\ UNCHANGED <<backend, stage, registered, got, whole>>
  BY OthersLeaveComing DEF Dispatch, StreamTypeOK
<1>2. \A t \in Thread : putting'[t] = IF Starts(t) /\ Last(called'[t[2]]) \in registered
                                      THEN "called" ELSE putting[t]
  BY DEF Dispatch
<1>3. CASE called'[p] = called[p]
  <2>1. \A t \in Thread : t[2] = p => putting'[t] = putting[t]
    BY <1>2, <1>3 DEF Starts
  <2>2. InHand(p)' = InHand(p)
    BY <2>1 DEF InHand
  <2>3. \A t \in InHand(p)' : putting'[t] = "open" => putting[t] = "open" \/ ~_closed
    BY <2>1 DEF InHand
  <2>4. (_closed => _closed') /\ (Dropping => Dropping')
    BY <1>1 DEF _closed, Dropping
  <2>5. Fed(p)'
    BY <1>1, <1>3, <2>2, <2>3, <2>4, FedRests
  <2>6. Unseen(p)'
    BY <1>1, <1>3 DEF Unseen
  <2> QED BY <2>5, <2>6
<1>4. CASE called'[p] # called[p]
  <2>1. PICK thread \in {"connector", "reaper"}, k \in Kind :
          running'[p] = {thread} /\ Longer(called'[p], called[p], k) /\ running[p] = {}
    BY <1>1, <1>4, CallsOne
  <2>2. InHand(p) = {} /\ \A t \in Thread : t[2] = p => putting[t] = "nothing"
    BY <2>1, HandsEmpty DEF InHand
  <2>3. called'[p] \in Seq(Kind) /\ Len(called'[p]) \in Nat
    <3>1. called'[p] \in Seq(Kind)
      BY DEF StreamTypeOK, TypeOK, Kind
    <3> QED BY <3>1, LenProperties
  <2>4. /\ Coming \in Seq(Item) /\ got[p] \in Seq(Kind) /\ called[p] \in Seq(Kind)
        /\ Len(called[p]) \in Nat
    BY StreamSequences
  <2>5. Unseen(p)'
    <3>1. Len(called'[p]) = Len(called[p]) + 1
      BY <2>1 DEF Longer
    <3>2. called'[p] # <<>>
      BY <2>3, <2>4, <3>1, EmptySeq
    <3> QED BY <3>2 DEF Unseen
  <2>6. CASE p \notin whole
    BY <1>1, <2>5, <2>6 DEF Fed
  <2>7. CASE p \in whole
    <3>1. Feeds(Coming, got[p], called'[p], p)
      <4>1. /\ Len(called[p]) <= Len(called'[p])
            /\ \A i \in 1..Len(called[p]) : called'[p][i] = called[p][i]
        BY <2>1, <2>4 DEF Longer
      <4>2. Feeds(Coming, got[p], called[p], p)
        BY <2>7 DEF Fed
      <4> QED BY <2>3, <2>4, <4>1, <4>2, FeedsMore
    <3>2. HandedOver(p)' = HandedOver(p)
      BY <1>1 DEF HandedOver
    <3>3. CASE _closed
      <4>1. _closed' /\ \A t \in InHand(p)' : putting'[t] # "open"
        BY <1>1, <1>2, <2>2, <3>3 DEF _closed, InHand
      <4> QED BY <1>1, <2>5, <3>1, <4>1 DEF Fed
    <3>4. CASE ~_closed
      <4>1. registered = Kind
        BY <2>7, <3>4 DEF MakingOK, StreamTypeOK, _closed
      <4>2. Last(called'[p]) = k
        BY <2>1 DEF Longer, Last
      <4>3. <<thread, p>> \in Thread
        BY DEF Thread
      <4>4. Starts(<<thread, p>>)
        BY <1>4, <2>1 DEF Starts
      <4>5. putting'[<<thread, p>>] = "called"
        BY <1>2, <2>1, <4>1, <4>2, <4>3, <4>4
      <4>6. InHand(p)' # {}
        <5>1. <<thread, p>> \in InHand(p)'
          BY <4>3, <4>5 DEF InHand
        <5> QED BY <5>1
      <4>7. Len(called[p]) = HandedOver(p)
        BY <2>2, <2>7, <3>4 DEF Fed
      <4>8. Len(called'[p]) = HandedOver(p)' + 1
        BY <2>1, <3>2, <4>7 DEF Longer
      <4> QED BY <1>1, <2>5, <3>1, <4>6, <4>8 DEF Fed
    <3> QED BY <3>3, <3>4
  <2> QED BY <2>6, <2>7
<1> QED BY <1>3, <1>4

(* A callback hands its event over: it is the next, and nothing is in hand *)
(* any more.                                                               *)
LEMMA FedHandOver ==
  ASSUME StreamTypeOK, StreamTypeOK', PipesOK, ReaperPuts, NEW t \in Thread, HandOver(t),
         NEW p \in Pipe, Unseen(p), Fed(p)
  PROVE  Unseen(p)' /\ Fed(p)'
<1>1. /\ UNCHANGED <<backend, stage, got, called, whole>>
      /\ putting[t] = "open" /\ putting' = [putting EXCEPT ![t] = "nothing"]
  BY DEF HandOver, vars
<1>2. (_closed' <=> _closed) /\ (Dropping' <=> Dropping)
  BY <1>1 DEF _closed, Dropping
<1>3. \A u \in Thread : putting'[u] = IF u = t THEN "nothing" ELSE putting[u]
  BY <1>1 DEF StreamTypeOK
<1>4. /\ Coming \in Seq(Item) /\ got[p] \in Seq(Kind) /\ called[p] \in Seq(Kind)
      /\ Len(Coming) \in Nat /\ Len(got[p]) \in Nat
  BY StreamSequences
<1>5. Coming' \in Seq(Item)
  BY ComingTypeNext
<1>6. CASE t[2] # p
  <2>1. InHand(p)' = InHand(p) /\ \A u \in InHand(p)' : putting'[u] = putting[u]
    BY <1>3, <1>6 DEF InHand
  <2>2. CASE Coming' = Coming
    <3>1. Fed(p)'
      BY <1>1, <1>2, <2>1, <2>2, FedRests
    <3> QED BY <1>1, <2>2, <3>1 DEF Unseen
  <2>3. ASSUME NEW e, e[1] = t[2], Longer(Coming', Coming, e) PROVE Unseen(p)' /\ Fed(p)'
    <3>1. /\ Len(Coming') = Len(Coming) + 1 /\ \A i \in 1..Len(Coming) : Coming'[i] = Coming[i]
          /\ Coming'[Len(Coming) + 1] = e /\ ~IsOf(e, p)
      BY <1>6, <2>3 DEF Longer, IsOf
    <3>2. Unseen(p)'
      BY <1>1, <1>4, <3>1 DEF Unseen
    <3>3. CASE p \notin whole
      BY <1>1, <3>2, <3>3 DEF Fed
    <3>4. CASE p \in whole
      <4>1. Feeds(Coming, got[p], called[p], p)
        BY <3>4 DEF Fed
      <4>2. Feeds(Coming', got[p], called[p], p) /\ HandedOver(p)' = HandedOver(p)
        <5>1. /\ Feeds(Coming', got[p], called[p], p)
              /\ Ahead(Coming', p, Len(Coming')) = Ahead(Coming, p, Len(Coming))
          BY <1>4, <1>5, <2>3, <3>1, <4>1, FeedsOther
        <5> QED BY <1>1, <5>1 DEF HandedOver
      <4>3. /\ ~_closed' /\ InHand(p)' = {} => Len(called'[p]) = HandedOver(p)'
            /\ \A u \in InHand(p)' : ~_closed' \/ (putting'[u] = "open" /\ ~Dropping')
                                      => Len(called'[p]) = HandedOver(p)' + 1
        BY <1>1, <1>2, <2>1, <3>4, <4>2 DEF Fed
      <4> QED BY <1>1, <3>2, <4>2, <4>3 DEF Fed
    <3> QED BY <3>3, <3>4
  <2> QED BY <2>2, <2>3, HandOverComes
<1>7. CASE t[2] = p
  <2>1. t \in InHand(p)
    BY <1>1, <1>7 DEF InHand
  <2>2. InHand(p)' = {}
    <3>1. ASSUME NEW u \in InHand(p)' PROVE FALSE
      <4>1. u \in InHand(p) /\ u # t
        BY <1>3, <3>1 DEF InHand
      <4> QED BY <2>1, <4>1, OneInHand
    <3> QED BY <3>1
  <2>3. /\ called[p] # <<>>
        /\ called[p][Len(called[p])] = IF t[1] = "reaper" THEN "remove"
                ELSE IF connector[t[2]] = "pre_callbacks" THEN "pre" ELSE "post"
    BY <2>1, InHandIsLast
  <2>4. Unseen(p)'
    BY <1>1, <2>3 DEF Unseen
  <2>5. CASE p \notin whole
    BY <1>1, <2>4, <2>5 DEF Fed
  <2>6. CASE p \in whole
    <3>1. Feeds(Coming, got[p], called[p], p)
      BY <2>6 DEF Fed
    <3>2. CASE Dropping /\ Coming' = Coming
      <4>1. _closed'
        BY <1>2, <3>2 DEF Dropping, _closed
      <4> QED BY <1>1, <2>2, <2>4, <3>1, <3>2, <4>1 DEF Fed
    <3>3. ASSUME NEW e \in Pipe \X Kind, e[1] = t[2], Longer(Coming', Coming, e),
                 e[2] = (IF t[1] = "reaper" THEN "remove"
                         ELSE IF connector[t[2]] = "pre_callbacks" THEN "pre" ELSE "post"),
                 ~Dropping
          PROVE  Unseen(p)' /\ Fed(p)'
      <4>1. IsOf(e, p)
        BY <1>7, <3>3, SentinelAssumption DEF IsOf, Kind
      <4>2. Len(called[p]) = HandedOver(p) + 1
        BY <1>1, <2>1, <2>6, <3>3 DEF Fed
      <4>3. /\ Feeds(Coming', got[p], called[p], p)
            /\ Len(called[p]) = Len(got[p]) + Ahead(Coming', p, Len(Coming'))
        <5>1. Len(called[p]) = Len(got[p]) + Ahead(Coming, p, Len(Coming)) + 1
          BY <4>2 DEF HandedOver
        <5>2. Longer(Coming', Coming, e) /\ e[2] = called[p][Len(called[p])]
          BY <2>3, <3>3
        <5>3. IsNext(e, Coming, got[p], called[p], p)
          BY <4>1, <5>1, <5>2 DEF IsNext
        <5> QED BY <1>4, <1>5, <3>1, <5>2, <5>3, FeedsOwn
      <4>4. HandedOver(p)' = Len(called[p])
        BY <1>1, <4>3 DEF HandedOver
      <4> QED BY <1>1, <2>2, <2>4, <4>3, <4>4 DEF Fed
    <3>4. CASE Dropping /\ Coming' # Coming
      BY <3>4, HandOverComes DEF Dropping, HandOver, Coming
    <3> QED BY <3>2, <3>3, <3>4, HandOverComes DEF Dropping
  <2> QED BY <2>5, <2>6
<1> QED BY <1>6, <1>7

(* _put_event tests _closed.                                               *)
LEMMA FedTest ==
  ASSUME StreamTypeOK, NEW t \in Thread, TestClosed(t), NEW p \in Pipe, Unseen(p), Fed(p)
  PROVE  Unseen(p)' /\ Fed(p)'
<1>1. /\ UNCHANGED <<backend, stage, got, called, whole>> /\ Coming' = Coming
      /\ putting[t] = "called"
      /\ putting' = [putting EXCEPT ![t] = IF _closed THEN "nothing" ELSE "open"]
  BY OthersLeaveComing DEF TestClosed, vars
<1>2. \A u \in Thread : putting'[u] = IF u = t THEN (IF _closed THEN "nothing" ELSE "open")
                                      ELSE putting[u]
  BY <1>1 DEF StreamTypeOK
<1>3. (_closed' <=> _closed) /\ (Dropping' <=> Dropping)
  BY <1>1 DEF _closed, Dropping
<1>4. Unseen(p)'
  BY <1>1 DEF Unseen
<1>5. CASE ~_closed
  <2>1. InHand(p)' = InHand(p)
    BY <1>1, <1>2, <1>5 DEF InHand
  <2> QED BY <1>1, <1>3, <1>4, <1>5, <2>1, FedRests
<1>6. CASE _closed
  <2>1. \A u \in InHand(p)' : u \in InHand(p) /\ putting'[u] = putting[u]
    BY <1>2, <1>6 DEF InHand
  <2>2. HandedOver(p)' = HandedOver(p)
    BY <1>1 DEF HandedOver
  <2>3. CASE p \in whole
    <3>1. Feeds(Coming', got'[p], called'[p], p)
      BY <1>1, <2>3 DEF Fed
    <3>2. \A u \in InHand(p)' : putting'[u] = "open" /\ ~Dropping'
                                 => Len(called'[p]) = HandedOver(p)' + 1
      BY <1>1, <1>3, <2>1, <2>2, <2>3 DEF Fed
    <3> QED BY <1>1, <1>3, <1>4, <1>6, <3>1, <3>2 DEF Fed
  <2> QED BY <1>1, <1>4, <2>3 DEF Fed
<1> QED BY <1>5, <1>6

(* __init__ is through: nothing was heard of the pipes that count.         *)
LEMMA FedRegister ==
  ASSUME StreamTypeOK, StreamTypeOK', MakingOK, PipesOK, ReaperPuts, Register,
         NEW p \in Pipe, Unseen(p)
  PROVE  Unseen(p)' /\ Fed(p)'
<1>1. Coming' = Coming /\ UNCHANGED <<backend, got, called, putting>> /\ stage = "making"
  BY OthersLeaveComing DEF Register, vars
<1>2. Unseen(p)'
  BY <1>1 DEF Unseen
<1>3. CASE p \notin whole'
  BY <1>2, <1>3 DEF Fed
<1>4. CASE p \in whole'
  <2>1. called[p] = <<>> /\ stage' = "open"
    <3>1. MakingOK'
      BY RegisterStep
    <3>2. stage' = "open"
      BY <1>4, <3>1, RegisterStep DEF MakingOK
    <3> QED BY <1>4, <3>2, RegisterStep
  <2>2. got[p] = <<>> /\ \A i \in 1..Len(Coming) : ~IsOf(Coming[i], p)
    BY <2>1 DEF Unseen
  <2>3. Len(Coming) \in Nat /\ Len(<<>>) = 0
    BY StreamSequences
  <2>4. \A n \in 0..Len(Coming) : Ahead(Coming, p, n) = 0
    <3>1. TAKE n \in 0..Len(Coming)
    <3>2. n \in Nat /\ \A i \in 1..n : ~IsOf(Coming[i], p)
      BY <2>2, <2>3
    <3> QED BY <3>2, AheadNone
  <2>5. HandedOver(p) = 0 /\ Ahead(Coming, p, Len(Coming)) = 0
    <3>1. Ahead(Coming, p, Len(Coming)) = 0
      BY <2>3, <2>4
    <3> QED BY <2>2, <2>3, <3>1 DEF HandedOver
  <2>6. InHand(p) = {}
    BY <2>1, InHandIsLast
  <2>7. Feeds(Coming, got[p], called[p], p)
    BY <2>1, <2>2, <2>3, <2>5 DEF Feeds
  <2>8. HandedOver(p)' = HandedOver(p) /\ InHand(p)' = InHand(p)
    BY <1>1 DEF HandedOver, InHand
  <2>9. Len(called'[p]) = HandedOver(p)'
    BY <1>1, <2>1, <2>3, <2>5, <2>8
  <2> QED BY <1>1, <1>2, <2>6, <2>7, <2>8, <2>9 DEF Fed
<1> QED BY <1>3, <1>4

(* close sets the flag, what is in hand stays next.                        *)
LEMMA FedClose ==
  ASSUME StreamTypeOK, Close, NEW p \in Pipe, Unseen(p), Fed(p)
  PROVE  Unseen(p)' /\ Fed(p)'
<1>1. /\ Coming' = Coming /\ UNCHANGED <<backend, got, called, putting, whole>>
      /\ stage = "open" /\ stage' = "closing"
  BY OthersLeaveComing DEF Close, vars
<1>2. ~_closed /\ _closed' /\ ~Dropping
  BY <1>1 DEF _closed, Dropping
<1>3. InHand(p)' = InHand(p)
  BY <1>1 DEF InHand
<1>4. Fed(p)'
  BY <1>1, <1>2, <1>3, FedRests
<1> QED BY <1>1, <1>4 DEF Unseen

(* The sentinel is behind what was handed over, or trio drops the rest.    *)
LEMMA FedSignal ==
  ASSUME StreamTypeOK, StreamTypeOK', Signal, NEW p \in Pipe, Unseen(p), Fed(p)
  PROVE  Unseen(p)' /\ Fed(p)'
<1>1. /\ UNCHANGED <<backend, got, called, putting, whole>>
      /\ stage = "closing" /\ stage' = "closed"
  BY DEF Signal, vars
<1>2. _closed /\ _closed' /\ ~Dropping
  BY <1>1 DEF _closed, Dropping
<1>3. /\ Coming \in Seq(Item) /\ got[p] \in Seq(Kind) /\ called[p] \in Seq(Kind)
      /\ Len(Coming) \in Nat
  BY StreamSequences
<1>4. Coming' \in Seq(Item) /\ Len(Coming') \in Nat
  BY ComingTypeNext, LenProperties
<1>5. p \in whole => Feeds(Coming, got[p], called[p], p)
  BY DEF Fed
<1>6. CASE backend = "asyncio" /\ Longer(Coming', Coming, Sentinel)
  <2>1. /\ Len(Coming') = Len(Coming) + 1 /\ \A i \in 1..Len(Coming) : Coming'[i] = Coming[i]
        /\ Coming'[Len(Coming) + 1] = Sentinel /\ ~IsOf(Sentinel, p)
    BY <1>6 DEF Longer, IsOf
  <2>2. Unseen(p)'
    BY <1>1, <1>3, <2>1 DEF Unseen
  <2>3. p \in whole => /\ Feeds(Coming', got'[p], called[p], p)
                       /\ HandedOver(p)' = HandedOver(p)
    <3>1. p \in whole => /\ Feeds(Coming', got[p], called[p], p)
                         /\ Ahead(Coming', p, Len(Coming')) = Ahead(Coming, p, Len(Coming))
      BY <1>3, <1>4, <1>5, <1>6, <2>1, FeedsOther
    <3> QED BY <1>1, <3>1 DEF HandedOver
  <2>4. CASE p \in whole
    BY <1>1, <1>2, <2>2, <2>3, <2>4, FedShifts
  <2> QED BY <1>1, <2>2, <2>4 DEF Fed
<1>7. CASE /\ backend = "trio" /\ Len(Coming') <= Len(Coming)
           /\ \A i \in 1..Len(Coming') : Coming'[i] = Coming[i]
  <2>1. Unseen(p)'
    BY <1>1, <1>3, <1>4, <1>7 DEF Unseen
  <2>2. p \in whole => Feeds(Coming', got'[p], called[p], p)
    BY <1>1, <1>3, <1>4, <1>5, <1>7, FeedsLess
  <2>3. Dropping'
    BY <1>1, <1>7 DEF Dropping
  <2> QED BY <1>1, <1>2, <2>1, <2>2, <2>3, FedShifts
<1> QED BY <1>6, <1>7, SignalComes

(* A task takes an event of the pipe, or of another one, or the sentinel.  *)
LEMMA FedTake ==
  ASSUME StreamTypeOK, StreamTypeOK', NEW c \in Consumer, TakeEvent(c),
         NEW p \in Pipe, Unseen(p), Fed(p)
  PROVE  Unseen(p)' /\ Fed(p)'
<1>1. /\ UNCHANGED <<backend, stage, called, putting, whole>>
      /\ Shorter(Coming', Coming) /\ Coming[1] = Head(queue)
  BY TakeComes DEF TakeEvent, vars
<1>2. (_closed' <=> _closed) /\ (Dropping' <=> Dropping)
  BY <1>1 DEF _closed, Dropping
<1>3. /\ Coming \in Seq(Item) /\ got[p] \in Seq(Kind) /\ called[p] \in Seq(Kind)
      /\ Len(Coming) \in Nat /\ Len(got[p]) \in Nat
  BY StreamSequences
<1>4. Coming' \in Seq(Item) /\ got'[p] \in Seq(Kind) /\ Len(Coming') \in Nat
  <2>1. got'[p] \in Seq(Kind)
    BY KindsRange DEF StreamTypeOK
  <2> QED BY <2>1, ComingTypeNext, LenProperties
<1>5. Len(Coming) = Len(Coming') + 1 /\ \A i \in 1..Len(Coming') : Coming'[i] = Coming[i + 1]
  BY <1>1 DEF Shorter
<1>6. 1 \in 1..Len(Coming)
  BY <1>4, <1>5
<1>7. p \in whole => Feeds(Coming, got[p], called[p], p)
  BY DEF Fed
<1>8. ASSUME (\A i \in 1..Len(Coming) : ~IsOf(Coming[i], p)), got'[p] = got[p]
      PROVE  \A i \in 1..Len(Coming') : ~IsOf(Coming'[i], p)
  BY <1>4, <1>5, <1>8
<1>9. CASE ~IsOf(Coming[1], p)
  <2>1. got'[p] = got[p]
    <3>1. CASE Head(queue) = Sentinel
      BY <3>1 DEF TakeEvent
    <3>2. CASE Head(queue) # Sentinel
      <4>1. Head(queue)[1] # p
        BY <1>1, <1>9, <3>2 DEF IsOf
      <4> QED BY <3>2, <4>1 DEF TakeEvent, StreamTypeOK
    <3> QED BY <3>1, <3>2
  <2>2. Unseen(p)'
    BY <1>1, <1>8, <2>1 DEF Unseen
  <2>3. CASE p \in whole
    <3>1. /\ Feeds(Coming', got[p], called[p], p)
          /\ Ahead(Coming', p, Len(Coming')) = Ahead(Coming, p, Len(Coming))
      BY <1>1, <1>3, <1>4, <1>7, <1>9, <2>3, FeedsSkip
    <3>2. HandedOver(p)' = HandedOver(p)
      BY <2>1, <3>1 DEF HandedOver
    <3> QED BY <1>1, <1>2, <2>1, <2>2, <3>1, <3>2, FedShifts
  <2> QED BY <1>1, <2>2, <2>3 DEF Fed
<1>10. CASE IsOf(Coming[1], p)
  <2>1. got'[p] = Append(got[p], Coming[1][2])
    BY <1>1, <1>10 DEF TakeEvent, StreamTypeOK, IsOf
  <2>2. Unseen(p)'
    BY <1>1, <1>6, <1>10 DEF Unseen
  <2>3. CASE p \in whole
    <3>1. Coming[1][2] \in Kind
      <4>1. Coming[1] \in Item
        BY <1>3, <1>6, LenProperties
      <4> QED BY <1>10, <4>1, KindsRange DEF IsOf
    <3>2. Longer(got'[p], got[p], Coming[1][2])
      <4>1. got[p] \in Seq(Kind)
        BY <1>3
      <4>2. Longer(Append(got[p], Coming[1][2]), got[p], Coming[1][2])
        BY <3>1, <4>1, AppendIsLonger
      <4> QED BY <2>1, <4>2, Zenon
    <3>3. /\ Feeds(Coming', got'[p], called[p], p)
          /\ Len(got'[p]) + Ahead(Coming', p, Len(Coming'))
               = Len(got[p]) + Ahead(Coming, p, Len(Coming))
      BY <1>1, <1>3, <1>4, <1>7, <1>10, <2>3, <3>2, FeedsTake, SMTT(30)
    <3>4. HandedOver(p)' = HandedOver(p)
      BY <3>3 DEF HandedOver
    <3> QED BY <1>1, <1>2, <2>2, <3>3, <3>4, FedShifts
  <2> QED BY <1>1, <2>2, <2>3 DEF Fed
<1> QED BY <1>9, <1>10

(* The steps that touch nothing of this.                                   *)
LEMMA FedOthers ==
  ASSUME StreamTypeOK,
         \/ Unregister \/ RunScheduled \/ UNCHANGED allVars
         \/ \E c \in Consumer : AskNext(c) \/ ChannelEnded(c),
         NEW p \in Pipe, Unseen(p), Fed(p)
  PROVE  Unseen(p)' /\ Fed(p)'
<1>1. Coming' = Coming
  BY OthersLeaveComing, RunComes
<1>2. UNCHANGED <<backend, stage, got, called, putting, whole>>
  BY DEF Unregister, RunScheduled, AskNext, ChannelEnded, allVars, streamVars, vars
<1>3. (_closed' <=> _closed) /\ (Dropping' <=> Dropping) /\ InHand(p)' = InHand(p)
  BY <1>2 DEF _closed, Dropping, InHand
<1>4. Fed(p)'
  BY <1>1, <1>2, <1>3, FedRests
<1> QED BY <1>1, <1>2, <1>4 DEF Unseen

(* A step, whoever makes it.                                               *)
LEMMA FaithfulStep ==
  ASSUME StreamTypeOK, MakingOK, PipesOK, FaithfulOK, StreamNext
  PROVE  FaithfulOK'
<1>1. StreamTypeOK'
  BY StreamTypes
<1>2. ReaperPuts' /\ ReaperPuts
  BY ReaperPutsStep DEF FaithfulOK
<1>3. ASSUME NEW p \in Pipe PROVE Unseen(p)' /\ Fed(p)'
  <2>1. Unseen(p) /\ Fed(p)
    BY DEF FaithfulOK
  <2>2. CASE Dispatch
    BY <1>1, <2>1, <2>2, FedDispatch
  <2>3. ASSUME NEW t \in Thread, HandOver(t) PROVE Unseen(p)' /\ Fed(p)'
    BY <1>1, <1>2, <2>1, <2>3, FedHandOver
  <2>4. ASSUME NEW t \in Thread, TestClosed(t) PROVE Unseen(p)' /\ Fed(p)'
    BY <2>1, <2>4, FedTest
  <2>5. CASE Register
    BY <1>1, <1>2, <2>1, <2>5, FedRegister
  <2>6. CASE Close
    BY <2>1, <2>6, FedClose
  <2>7. CASE Signal
    BY <1>1, <2>1, <2>7, FedSignal
  <2>8. ASSUME NEW c \in Consumer, TakeEvent(c) PROVE Unseen(p)' /\ Fed(p)'
    BY <1>1, <2>1, <2>8, FedTake
  <2>9. ASSUME \/ Unregister \/ RunScheduled
               \/ \E c \in Consumer : AskNext(c) \/ ChannelEnded(c)
        PROVE  Unseen(p)' /\ Fed(p)'
    BY <2>1, <2>9, FedOthers
  <2> QED BY <2>2, <2>3, <2>4, <2>5, <2>6, <2>7, <2>8, <2>9 DEF StreamNext
<1> QED BY <1>2, <1>3 DEF FaithfulOK

(* The first state.                                                        *)
LEMMA FaithfulStarts ==
  ASSUME StreamInit PROVE FaithfulOK
<1>1. ReaperPuts
  BY DEF StreamInit, ReaperPuts
<1>2. Coming = <<>>
  <2>1. <<>> \o <<>> = <<>>
    BY EmptySeq, ConcatEmptySeq
  <2> QED BY <2>1 DEF StreamInit, Coming
<1>3. ASSUME NEW p \in Pipe PROVE Unseen(p) /\ Fed(p)
  <2>1. got[p] = <<>> /\ p \notin whole
    BY DEF StreamInit
  <2> QED BY <1>2, <2>1 DEF Unseen, Fed
<1> QED BY <1>1, <1>3 DEF FaithfulOK

(* What the invariant says of what the tasks receive.                      *)
LEMMA FaithfulMeans ==
  ASSUME StreamTypeOK, PipesOK, FaithfulOK PROVE StreamFaithful
<1>1. SUFFICES ASSUME NEW p \in whole
      PROVE /\ IsPrefix(got[p], called[p])
            /\ \A i \in DOMAIN Coming :
                 IsOf(Coming[i], p) =>
                   Coming[i][2] = called[p][Len(got[p]) + Ahead(Coming, p, i)]
            /\ HandedOver(p) <= Len(called[p])
            /\ ~_closed => Len(called[p]) = HandedOver(p) + Cardinality(InHand(p))
  BY DEF StreamFaithful
<1>2. p \in Pipe
  BY DEF StreamTypeOK
<1>3. /\ Feeds(Coming, got[p], called[p], p)
      /\ ~_closed /\ InHand(p) = {} => Len(called[p]) = HandedOver(p)
      /\ \A t \in InHand(p) : ~_closed => Len(called[p]) = HandedOver(p) + 1
  BY <1>2 DEF FaithfulOK, Fed
<1>4. /\ Coming \in Seq(Item) /\ got[p] \in Seq(Kind) /\ called[p] \in Seq(Kind)
      /\ Len(got[p]) \in Nat /\ Len(called[p]) \in Nat /\ Len(Coming) \in Nat
      /\ DOMAIN Coming = 1..Len(Coming)
  BY <1>2, StreamSequences, LenProperties
<1>5. Ahead(Coming, p, Len(Coming)) \in Nat
  BY <1>4, AheadType
<1>6. HandedOver(p) <= Len(called[p]) /\ Len(got[p]) <= Len(called[p])
  BY <1>3, <1>4, <1>5 DEF Feeds, HandedOver
<1>7. IsPrefix(got[p], called[p])
  <2>1. \A i \in 1..Len(got[p]) : got[p][i] = called[p][i]
    BY <1>3 DEF Feeds
  <2>2. SubSeq(got[p], 1, Len(got[p])) = SubSeq(called[p], 1, Len(got[p]))
    <3>1. SubSeq(got[p], 1, Len(got[p])) = [i \in 1..Len(got[p]) |-> got[p][i]]
      BY <1>4
    <3>2. SubSeq(called[p], 1, Len(got[p])) = [i \in 1..Len(got[p]) |-> called[p][i]]
      BY <1>4, <1>6
    <3> QED BY <2>1, <3>1, <3>2
  <2> QED BY <1>6, <2>2 DEF IsPrefix
<1>8. ~_closed => Len(called[p]) = HandedOver(p) + Cardinality(InHand(p))
  <2>1. HandedOver(p) \in Nat
    BY <1>4, <1>5 DEF HandedOver
  <2>2. CASE InHand(p) = {}
    <3>1. Cardinality(InHand(p)) = 0
      BY <2>2, FS_EmptySet
    <3> QED BY <1>3, <2>1, <2>2, <3>1
  <2>3. ASSUME NEW t \in InHand(p)
        PROVE  ~_closed => Len(called[p]) = HandedOver(p) + Cardinality(InHand(p))
    <3>1. InHand(p) = {t}
      BY <1>2, <2>3, OneInHand
    <3>2. Cardinality({t}) = 1
      BY FS_Singleton
    <3> QED BY <1>3, <2>3, <3>1, <3>2
  <2> QED BY <2>2, <2>3
<1> QED BY <1>3, <1>4, <1>6, <1>7, <1>8 DEF Feeds

(* "async for event in socket.pipe_events()": StreamFaithful, as long as   *)
(* no id of a removed pipe is evicted ...                                  *)
THEOREM StreamFeeds == StreamSpec /\ [][Remembers]_vars => []StreamFaithful
<1>1. StreamInit => FaithfulOK
  BY FaithfulStarts
<1>2. StreamTypeOK /\ MakingOK /\ PipesOK /\ FaithfulOK
        /\ [StreamNext \/ StreamFinished]_allVars => FaithfulOK'
  <2>1. ASSUME StreamTypeOK, FaithfulOK, UNCHANGED allVars PROVE FaithfulOK'
    <3>1. ReaperPuts'
      BY <2>1 DEF FaithfulOK, ReaperPuts, allVars, streamVars, vars
    <3>2. ASSUME NEW p \in Pipe PROVE Unseen(p)' /\ Fed(p)'
      BY <2>1, FedOthers DEF FaithfulOK
    <3> QED BY <3>1, <3>2 DEF FaithfulOK
  <2> QED BY <2>1, FaithfulStep DEF StreamFinished
<1>3. StreamTypeOK /\ PipesOK /\ FaithfulOK => StreamFaithful
  BY FaithfulMeans
<1>4. StreamSpec => Spec
  BY StreamUsesDispatcher
<1> QED BY <1>1, <1>2, <1>3, <1>4, StreamTypeCorrect, PipesAlways, PTL DEF StreamSpec

(* ... which is always with _MAX_REMOVED_PIPE_IDS pipes or fewer.          *)
THEOREM StreamIsFaithful ==
  ASSUME Cardinality(Pipe) <= MaxRemoved
  PROVE  StreamSpec => []StreamFaithful
BY StreamFeeds, StreamUsesDispatcher, NoIdEvicted, PTL
=============================================================================
