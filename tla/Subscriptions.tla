----------------------------- MODULE Subscriptions -----------------------------
(***************************************************************************)
(* The subscriptions of a Sub0 socket (pynng/nng.py, pynng/v2/nng.py):     *)
(* nng has them, and a set kept in Python beside them is what              *)
(* Sub0.subscriptions returns.  subscribe and unsubscribe call nng and     *)
(* then change the set under _sub_lock, so that calls of two threads can   *)
(* cross; unsubscribe_all holds the lock all along under nng v1, and only  *)
(* to copy the set under nng v2.                                           *)
(*                                                                         *)
(* nng is external: subscribing twice is as good as once, unsubscribing    *)
(* what is not subscribed is NNG_ENOENT, and a closed socket refuses both. *)
(***************************************************************************)
EXTENDS FiniteSets

CONSTANTS Thread, Topic

VARIABLES
  subscribed,     \* nng's subscriptions
  subscriptions,  \* Sub0._subscriptions
  sub_step,       \* what each thread has to do next, a record or SubIdle
  sub_all,        \* the topics left of each thread's unsubscribe_all
  sub_lock,       \* the thread in unsubscribe_all that holds _sub_lock
  sub_crossed     \* the topics on which two calls have overlapped

subVars == <<subscribed, subscriptions, sub_step, sub_all, sub_lock, sub_crossed>>

SubIdle == [op |-> "none", topic |-> "none"]
Free == "free"

SubInit ==
  /\ subscribed = {} /\ subscriptions = {}
  /\ sub_step = [t \in Thread |-> SubIdle]
  /\ sub_all = [t \in Thread |-> {}]
  /\ sub_lock = Free
  /\ sub_crossed = {}

(* The topics a thread is busy with.                                       *)
Busy(t) == sub_all[t] \cup {sub_step[t].topic}

IsSubIdle(t) == sub_step[t] = SubIdle /\ sub_all[t] = {} /\ sub_lock # t
Crosses(t, topics) ==
  sub_crossed' = sub_crossed \cup {x \in topics : \E u \in Thread \ {t} :
                                                    x \in Busy(u)}

------------------------------------------------------------------------------

(* The constructor subscribes to its topics before anybody knows the       *)
(* socket.                                                                 *)
InitTopics(topics) ==
  /\ subscribed' = topics
  /\ subscriptions' = topics
  /\ UNCHANGED <<sub_step, sub_all, sub_lock, sub_crossed>>

(* subscribe and unsubscribe up to the set; a call that nng refuses raises *)
(* and changes nothing.  "open": nng has not closed the socket.            *)
CallSubscribe(t, x, open) ==
  /\ IsSubIdle(t)
  /\ open
  /\ subscribed' = subscribed \cup {x}
  /\ sub_step' = [sub_step EXCEPT ![t] = [op |-> "add", topic |-> x]]
  /\ Crosses(t, {x})
  /\ UNCHANGED <<subscriptions, sub_all, sub_lock>>

CallUnsubscribe(t, x, open) ==
  /\ IsSubIdle(t)
  /\ open /\ x \in subscribed
  /\ subscribed' = subscribed \ {x}
  /\ sub_step' = [sub_step EXCEPT ![t] = [op |-> "discard", topic |-> x]]
  /\ Crosses(t, {x})
  /\ UNCHANGED <<subscriptions, sub_all, sub_lock>>

(* Mutation: a topic that was unsubscribed stays in the set.               *)
UpdateSet_OnlyAdds(t) ==
  /\ sub_step[t] # SubIdle
  /\ sub_lock \in {Free, t}
  /\ subscriptions' = subscriptions \cup
       (IF sub_step[t].op = "add" THEN {sub_step[t].topic} ELSE {})
  /\ sub_step' = [sub_step EXCEPT ![t] = SubIdle]
  /\ UNCHANGED <<subscribed, sub_all, sub_lock, sub_crossed>>

(* "with self._sub_lock", an RLock: add or discard.                        *)
UpdateSet(t) ==
  /\ sub_step[t] # SubIdle
  /\ sub_lock \in {Free, t}
  /\ subscriptions' = IF sub_step[t].op = "add"
                      THEN subscriptions \cup {sub_step[t].topic}
                      ELSE subscriptions \ {sub_step[t].topic}
  /\ sub_step' = [sub_step EXCEPT ![t] = SubIdle]
  /\ UNCHANGED <<subscribed, sub_all, sub_lock, sub_crossed>>

(* unsubscribe_all copies the set.                                         *)
CallUnsubscribeAll(t, version) ==
  /\ IsSubIdle(t) /\ sub_lock = Free
  /\ subscriptions # {}
  /\ sub_all' = [sub_all EXCEPT ![t] = subscriptions]
  /\ sub_lock' = IF version = "v1" THEN t ELSE Free
  /\ Crosses(t, subscriptions)
  /\ UNCHANGED <<subscribed, subscriptions, sub_step>>

(* One topic of it; v1 goes on after NNG_ENOENT, v2 raises and leaves the  *)
(* others; on a closed socket both raise.                                  *)
UnsubscribeNext(t, version, open) ==
  /\ sub_step[t] = SubIdle
  /\ \E x \in sub_all[t] :
       \/ /\ open /\ x \in subscribed
          /\ subscribed' = subscribed \ {x}
          /\ sub_step' = [sub_step EXCEPT ![t] = [op |-> "discard", topic |-> x]]
          /\ sub_all' = [sub_all EXCEPT ![t] = @ \ {x}]
          /\ Crosses(t, {x})
          /\ UNCHANGED sub_lock
       \/ /\ open /\ x \notin subscribed /\ version = "v1"
          /\ sub_all' = [sub_all EXCEPT ![t] = @ \ {x}]
          /\ UNCHANGED <<subscribed, sub_step, sub_lock, sub_crossed>>
       \/ /\ ~open \/ (x \notin subscribed /\ version = "v2")
          /\ sub_all' = [sub_all EXCEPT ![t] = {}]
          /\ sub_lock' = IF sub_lock = t THEN Free ELSE sub_lock
          /\ UNCHANGED <<subscribed, sub_step, sub_crossed>>
  /\ UNCHANGED subscriptions

(* It returns, and leaves the lock if it held it.                          *)
UnsubscribedAll(t) ==
  /\ sub_lock = t /\ sub_all[t] = {} /\ sub_step[t] = SubIdle
  /\ sub_lock' = Free
  /\ UNCHANGED <<subscribed, subscriptions, sub_step, sub_all, sub_crossed>>

------------------------------------------------------------------------------
(* Properties.                                                             *)

SubTypeOK ==
  /\ subscribed \subseteq Topic /\ subscriptions \subseteq Topic
  /\ sub_step \in [Thread -> [op : {"add", "discard"}, topic : Topic] \cup {SubIdle}]
  /\ sub_all \in [Thread -> SUBSET Topic]
  /\ sub_lock \in Thread \cup {Free}
  /\ sub_crossed \subseteq Topic

(* "Return a frozenset of current subscriptions" (subscriptions): the set  *)
(* has the topics that nng has, for every topic no call is busy with and   *)
(* on which no two calls overlapped.  The lock is not held across nng's    *)
(* call, so of two calls that overlap the set may keep the other one.      *)
SetIsCurrent ==
  \A x \in Topic :
    (x \notin sub_crossed /\ \A t \in Thread : x \notin Busy(t)) =>
      (x \in subscriptions <=> x \in subscribed)
=============================================================================
