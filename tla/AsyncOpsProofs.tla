---------------------------- MODULE AsyncOpsProofs ----------------------------
(***************************************************************************)
(* Theorems about AsyncOps for every set of calls and helpers, every       *)
(* number of slot ids, pool size and number of event loops, and whatever   *)
(* paths there are: where a helper can be, whose completion resumes a      *)
(* call, and what becomes of its message.                                  *)
(***************************************************************************)
EXTENDS AsyncOps, SequenceTheorems, FiniteSetTheorems, WellFoundedInduction,
        RingArithmetic, TLAPS

------------------------------------------------------------------------------
(* The inductive invariant.                                                *)

(* Each helper is in at most one place, and it is live exactly while it is *)
(* in one: with a call, or at an index of a pool.                          *)
HasHelper(c) == call[c] \in {"waiting", "releasing"}
InPool(h) == \E k \in Kind : \E i \in 1..Len(pool[k]) : pool[k][i] = h

OneCallEach ==
  \A c, d \in Call : HasHelper(c) /\ HasHelper(d) /\ uses[c] = uses[d] => c = d

OneIndexEach ==
  \A k, l \in Kind : \A i \in 1..Len(pool[k]), j \in 1..Len(pool[l]) :
    pool[k][i] = pool[l][j] => k = l /\ i = j

NotBoth == \A c \in Call : HasHelper(c) => ~InPool(uses[c])

LiveInOnePlace ==
  \A h \in Helper :
    helper[h] = "live" <=> InPool(h) \/ \E c \in Call : HasHelper(c) /\ uses[c] = h

Places == OneCallEach /\ OneIndexEach /\ NotBoth /\ LiveInOnePlace

(* One task at a time is about to put its helper into the pool, where it   *)
(* has seen room.                                                          *)
RoomToRelease ==
  /\ \A c, d \in Call : call[c] = "releasing" /\ call[d] = "releasing" => c = d
  /\ \A c \in Call : call[c] = "releasing" => Len(pool[KindOf(c)]) < MaxPool

(* Nothing is under way for a helper that no waiting call has.             *)
Quiet(h) ==
  /\ aio[h] = "idle"
  /\ aio_msg[h] = NoCall
  /\ current_slot[h] = 0
  /\ slot_id[h] = 0
  /\ ~Contains(pending, h)
  /\ ~Contains(soon, h)
  /\ h \notin aio_map

HelperOK(h) ==
  /\ Quiet(h) \/ \E c \in Call : call[c] = "waiting" /\ uses[c] = h
  /\ InPool(h) => backend[h] = "native"
  /\ helper[h] = "unborn" => \A c \in Call : uses[c] # h
  /\ helper_loop[h] =< loop
  /\ helper_loop[h] = loop => backend[h] = path

(* Where the completion of a waiting call is: still to come, on its way    *)
(* over the path of its helper, or arrived.                                *)
Delivery(native, f, a, inPending, inSoon, inMap) ==
  \/ /\ f = "pending" /\ a # "idle"
     /\ ~inPending /\ ~inSoon /\ (inMap <=> ~native)
  \/ /\ f = "pending" /\ a = "idle"
     /\ (inPending <=> native) /\ (inSoon <=> ~native) /\ ~inMap
  \/ /\ f = "done" /\ a = "idle"
     /\ ~inPending /\ ~inSoon /\ ~inMap

(* Its slot: its own while it is awaited, and nobody's once it arrived.    *)
SlotOK(c, h) ==
  IF backend[h] # "native"
  THEN current_slot[h] = 0 /\ slot_id[h] = 0
  ELSE /\ current_slot[h] \in 1..MaxSlot
       /\ slot_id[h] = current_slot[h]
       /\ future[c] = "pending" => /\ current_slot[h] \in Occupied
                                   /\ slots[current_slot[h]] = c
       /\ future[c] = "done" => current_slot[h] \notin Occupied

(* What nng did so far, r while a is not idle, and where the message is.   *)
Progress(recv, a, r, m, o, c) ==
  \/ a # "idle" /\ r = "none" /\ (IF recv THEN m = NoCall /\ o = "peer"
                                  ELSE m = c /\ o = "aio")
  \/ a = "idle" /\ r = "ok" /\ (IF recv THEN m = c /\ o = "aio"
                                ELSE m = NoCall /\ o = "nng")
  \/ /\ a = "idle" /\ r \in {"timeout", "closed", "canceled"}
     /\ IF recv THEN m = NoCall /\ o = "peer" ELSE m = c /\ o = "aio"

WaitingOK(c, h) ==
  /\ h \in Helper
  /\ helper_loop[h] = loop
  /\ backend[h] \in Path
  /\ Delivery(backend[h] = "native", future[c], aio[h], Contains(pending, h),
              Contains(soon, h), h \in aio_map)
  /\ SlotOK(c, h)
  /\ Progress(c \in RecvCall, aio[h], result[h], aio_msg[h], owner[c], c)
  /\ aio[h] = "cancelling" \/ result[h] = "canceled" => c \in cancelled

(* What a call left behind.                                                *)
Settled(c, o, out, b) ==
  /\ out \in {"ok", "timeout", "closed", "cancelled"}
  /\ out = "cancelled" => c \in cancelled
  /\ c \in cancelled /\ b # "trio" => out = "cancelled"
  /\ IF c \in RecvCall
     THEN /\ out = "ok" <=> o = "caller"
          /\ o \in {"caller", "peer", "freed"}
          /\ o = "freed" => b # "trio"
     ELSE /\ o \in {"nng", "freed"}
          /\ out = "ok" => o = "nng"
          /\ out # "ok" => o = "freed" \/ c \in cancelled

Untouched(c) == owner[c] = IF c \in RecvCall THEN "peer" ELSE "caller"

CallOK(c) ==
  /\ call[c] = "new" => /\ uses[c] = NoHelper /\ future[c] = "none"
                        /\ c \notin cancelled /\ Untouched(c)
  /\ call[c] = "waiting" => WaitingOK(c, uses[c])
  /\ call[c] = "releasing" => /\ uses[c] \in Helper
                              /\ backend[uses[c]] = "native"
                              /\ future[c] = "none"
                              /\ Settled(c, owner[c], outcome[c], backend[uses[c]])
  /\ call[c] = "ended" =>
       \/ /\ outcome[c] = "refused" /\ uses[c] = NoHelper
          /\ future[c] = "none" /\ c \notin cancelled /\ Untouched(c)
       \/ /\ uses[c] \in Helper /\ future[c] = "none"
          /\ Settled(c, owner[c], outcome[c], backend[uses[c]])

(* An entry of the reschedulers' list is there once.                       *)
SoonOnce == \A i, j \in 1..Len(soon) : soon[i] = soon[j] => i = j

Inv ==
  /\ TypeOK
  /\ Places
  /\ RoomToRelease
  /\ \A h \in Helper : HelperOK(h)
  /\ \A c \in Call : CallOK(c)
  /\ SoonOnce

------------------------------------------------------------------------------
(* Sequences and bounds.                                                   *)

(* What an append adds.                                                    *)
LEMMA AppendContains ==
  ASSUME NEW S, NEW s \in Seq(S), NEW e \in S
  PROVE  /\ Append(s, e) \in Seq(S) /\ Len(Append(s, e)) = Len(s) + 1
         /\ \A i \in 1..Len(s) : Append(s, e)[i] = s[i]
         /\ Append(s, e)[Len(s) + 1] = e
         /\ \A x : Contains(Append(s, e), x) <=> Contains(s, x) \/ x = e
<1>1. /\ Append(s, e) \in Seq(S) /\ Len(Append(s, e)) = Len(s) + 1
      /\ \A i \in 1..Len(s) : Append(s, e)[i] = s[i]
      /\ Append(s, e)[Len(s) + 1] = e
  BY AppendProperties
<1>2. Len(s) \in Nat
  BY LenProperties
<1>3. \A i : i \in 1..(Len(s) + 1) <=> i \in 1..Len(s) \/ i = Len(s) + 1
  BY <1>2
<1>4. \A x : Contains(Append(s, e), x) <=> Contains(s, x) \/ x = e
  BY <1>1, <1>3, Zenon DEF Contains
<1> QED BY <1>1, <1>4

(* The empty sequence contains nothing.                                    *)
LEMMA EmptyContains == \A x : ~Contains(<<>>, x)
<1>1. 1..Len(<<>>) = {}
  BY EmptySeq
<1> QED BY <1>1, Zenon DEF Contains

(* The tail of a sequence without repetitions has lost its head only.      *)
LEMMA TailContains ==
  ASSUME NEW S, NEW s \in Seq(S), s # <<>>,
         \A i, j \in 1..Len(s) : s[i] = s[j] => i = j
  PROVE  /\ Tail(s) \in Seq(S) /\ Head(s) \in S /\ Contains(s, Head(s))
         /\ \A i, j \in 1..Len(Tail(s)) : Tail(s)[i] = Tail(s)[j] => i = j
         /\ \A x : Contains(Tail(s), x) <=> Contains(s, x) /\ x # Head(s)
<1>1. /\ Tail(s) \in Seq(S) /\ Head(s) \in S /\ Len(Tail(s)) = Len(s) - 1
      /\ \A i \in 1..Len(Tail(s)) : Tail(s)[i] = s[i + 1]
  BY HeadTailProperties
<1>2. Len(s) \in Nat \ {0} /\ Head(s) = s[1]
  BY EmptySeq
<1>3. /\ 1 \in 1..Len(s)
      /\ \A i \in 1..Len(Tail(s)) : i + 1 \in 1..Len(s) /\ i + 1 # 1
      /\ \A i, j \in 1..Len(Tail(s)) : i + 1 = j + 1 => i = j
      /\ \A i \in 1..Len(s) : i = 1 \/ (i - 1 \in 1..Len(Tail(s)) /\ (i - 1) + 1 = i)
  BY <1>1, <1>2
<1>4. ASSUME NEW i \in 1..Len(Tail(s)), NEW j \in 1..Len(Tail(s)),
             Tail(s)[i] = Tail(s)[j]
      PROVE  i = j
  <2>1. s[i + 1] = s[j + 1] /\ i + 1 \in 1..Len(s) /\ j + 1 \in 1..Len(s)
    BY <1>1, <1>3, <1>4, Zenon
  <2>2. i + 1 = j + 1
    BY <2>1, Zenon
  <2> QED BY <1>3, <2>2, Zenon
<1>5. ASSUME NEW x
      PROVE  Contains(Tail(s), x) <=> Contains(s, x) /\ x # Head(s)
  <2>1. ASSUME NEW i \in 1..Len(Tail(s)), Tail(s)[i] = x
        PROVE  Contains(s, x) /\ x # Head(s)
    <3>1. s[i + 1] = x /\ i + 1 \in 1..Len(s) /\ i + 1 # 1
      BY <1>1, <1>3, <2>1, Zenon
    <3>2. x # s[1]
      BY <1>3, <3>1, Zenon
    <3> QED BY <1>2, <3>1, <3>2, Zenon DEF Contains
  <2>2. ASSUME NEW i \in 1..Len(s), s[i] = x, x # Head(s)
        PROVE  Contains(Tail(s), x)
    <3>1. i - 1 \in 1..Len(Tail(s)) /\ (i - 1) + 1 = i
      BY <1>2, <1>3, <2>2
    <3>2. Tail(s)[i - 1] = x
      BY <1>1, <2>2, <3>1
    <3> QED BY <3>1, <3>2, Zenon DEF Contains
  <2> QED BY <2>1, <2>2, Zenon DEF Contains
<1>6. Contains(s, Head(s))
  BY <1>2, <1>3, Zenon DEF Contains
<1> QED BY <1>1, <1>4, <1>5, <1>6

(* A set of natural numbers that is not empty has a least member.          *)
LEMMA MinIs ==
  ASSUME NEW T \in SUBSET Nat, T # {}
  PROVE  Min(T) \in T /\ \A y \in T : Min(T) =< y
<1>1. IsWellFoundedOn(OpToRel(<, Nat), Nat)
  BY NatLessThanWellFounded
<1>2. PICK x \in T : \A y \in T : ~(<<y, x>> \in OpToRel(<, Nat))
  BY <1>1, WFMin
<1>3. \A y \in T : x =< y
  <2> SUFFICES ASSUME NEW y \in T PROVE x =< y
    OBVIOUS
  <2>1. x \in Nat /\ y \in Nat
    OBVIOUS
  <2>2. ~(y < x)
    BY <1>2, <2>1 DEF OpToRel
  <2> QED BY <2>1, <2>2
<1> QED BY <1>3, Zenon DEF Min

(* A bounded one has a greatest.                                           *)
LEMMA MaxIs ==
  ASSUME NEW n \in Nat, NEW T \in SUBSET (0..n), T # {}
  PROVE  Max(T) \in T /\ \A y \in T : Max(T) >= y
<1> DEFINE U == {n - x : x \in T}
<1>1. U \in SUBSET Nat /\ U # {}
  <2>1. \A x \in T : n - x \in Nat
    OBVIOUS
  <2> QED BY <2>1, Zenon
<1>2. Min(U) \in U /\ \A u \in U : Min(U) =< u
  BY <1>1, MinIs
<1>3. PICK x \in T : Min(U) = n - x
  BY <1>2
<1>4. \A y \in T : x >= y
  <2> SUFFICES ASSUME NEW y \in T PROVE x >= y
    OBVIOUS
  <2>1. n - y \in U
    OBVIOUS
  <2>2. n - x =< n - y
    BY <1>2, <1>3, <2>1
  <2> HIDE DEF U
  <2>3. x \in 0..n /\ y \in 0..n
    OBVIOUS
  <2> QED BY <2>2, <2>3
<1> HIDE DEF U
<1> QED BY <1>4, Zenon DEF Max

------------------------------------------------------------------------------
(* The slot that register finds.                                           *)

(* The candidate i steps after the counter, and that every slot id is one. *)
LEMMA CandidateIs ==
  ASSUME slot_counter \in 0..MaxSlot, NEW i \in 0..(MaxSlot - 1)
  PROVE  (slot_counter + i) % MaxSlot = Wrapped(i, slot_counter, MaxSlot)
<1>1. slot_counter + i = i + slot_counter
  OBVIOUS
<1>2. (i + slot_counter) % MaxSlot = Wrapped(i, slot_counter, MaxSlot)
  BY SlotAssumption, WrapIs
<1> QED BY <1>1, <1>2, Zenon

(* Every slot id is one of the candidates.                                 *)
LEMMA SlotReached ==
  ASSUME slot_counter \in 0..MaxSlot, NEW s \in 1..MaxSlot
  PROVE  \E i \in 0..(MaxSlot - 1) : ((slot_counter + i) % MaxSlot) + 1 = s
<1> DEFINE i == IF s - 1 >= slot_counter THEN s - 1 - slot_counter
                ELSE s - 1 - slot_counter + MaxSlot
<1>1. i \in 0..(MaxSlot - 1)
  BY SlotAssumption
<1>2. Wrapped(i, slot_counter, MaxSlot) + 1 = s
  <2>1. CASE s - 1 >= slot_counter
    BY <2>1, SlotAssumption DEF Wrapped
  <2>2. CASE ~(s - 1 >= slot_counter)
    BY <2>2, SlotAssumption DEF Wrapped
  <2> QED BY <2>1, <2>2
<1> HIDE DEF i
<1> QED BY <1>1, <1>2, CandidateIs, Zenon

(* While there is a free slot id, register finds one.                      *)
LEMMA NextSlotFree ==
  ASSUME slot_counter \in 0..MaxSlot, Occupied \subseteq 1..MaxSlot,
         Cardinality(Occupied) < MaxSlot
  PROVE  NextSlot \in 1..MaxSlot /\ NextSlot \notin Occupied
<1> DEFINE After(i) == ((slot_counter + i) % MaxSlot) + 1
           steps == {i \in 0..(MaxSlot - 1) : After(i) \notin Occupied}
<1>1. PICK s \in 1..MaxSlot : s \notin Occupied
  <2>1. Cardinality(1..MaxSlot) = MaxSlot
    <3>1. MaxSlot - 1 + 1 = MaxSlot /\ 1 =< MaxSlot
      BY SlotAssumption
    <3> QED BY <3>1, FS_Interval, SlotAssumption
  <2>2. Occupied # 1..MaxSlot
    BY <2>1, SlotAssumption
  <2> QED BY <2>2
<1>2. PICK i \in 0..(MaxSlot - 1) : After(i) = s
  BY SlotReached
<1>3. steps \in SUBSET Nat /\ steps # {}
  <2>1. i \in steps
    BY <1>1, <1>2
  <2>2. steps \in SUBSET (0..(MaxSlot - 1))
    BY Zenon
  <2> HIDE DEF steps
  <2> QED BY <2>1, <2>2
<1>4. Min(steps) \in steps
  BY <1>3, MinIs
<1>5. After(Min(steps)) \in 1..MaxSlot
  <2> DEFINE j == Min(steps)
  <2>1. j \in 0..(MaxSlot - 1)
    BY <1>4, Zenon
  <2> HIDE DEF j
  <2>2. (slot_counter + j) % MaxSlot = Wrapped(j, slot_counter, MaxSlot)
    BY <2>1, CandidateIs
  <2>3. Wrapped(j, slot_counter, MaxSlot) \in 0..(MaxSlot - 1)
    BY <2>1, SlotAssumption DEF Wrapped
  <2>4. ((slot_counter + j) % MaxSlot) + 1 \in 1..MaxSlot
    BY <2>2, <2>3, SlotAssumption
  <2> QED BY <2>4 DEF j
<1>6. NextSlot = After(Min(steps))
  BY Zenon DEF NextSlot
<1> QED BY <1>4, <1>5, <1>6, Zenon

------------------------------------------------------------------------------
(* The pools.                                                              *)

PoolType == pool \in [Kind -> Seq(Helper)]

(* No helper is at two indices.                                            *)
LEMMA SameIndex ==
  ASSUME OneIndexEach, NEW k \in Kind, NEW l \in Kind,
         NEW i \in 1..Len(pool[k]), NEW j \in 1..Len(pool[l]),
         pool[k][i] = pool[l][j]
  PROVE  k = l /\ i = j
BY DEF OneIndexEach

(* A pool that keeps its oldest n helpers has lost the others, and only    *)
(* those.                                                                  *)
LEMMA PoolKeeps ==
  ASSUME PoolType, OneIndexEach, NEW k \in Kind, NEW n \in 0..Len(pool[k]),
         pool' = [pool EXCEPT ![k] = SubSeq(pool[k], 1, n)]
  PROVE  /\ PoolType' /\ OneIndexEach' /\ Len(pool'[k]) = n
         /\ \A l \in Kind : Len(pool'[l]) =< Len(pool[l])
         /\ \A h : InPool(h)' <=>
              InPool(h) /\ ~\E i \in (n + 1)..Len(pool[k]) : pool[k][i] = h
<1>1. pool[k] \in Seq(Helper) /\ Len(pool[k]) \in Nat
  BY LenProperties DEF PoolType
<1>2. /\ SubSeq(pool[k], 1, n) \in Seq(Helper) /\ Len(SubSeq(pool[k], 1, n)) = n
      /\ \A i \in 1..n : SubSeq(pool[k], 1, n)[i] = pool[k][i]
  <2>1. \A i \in 1..n : pool[k][i] \in Helper
    BY <1>1, ElementOfSeq
  <2>2. /\ SubSeq(pool[k], 1, n) \in Seq(Helper)
        /\ Len(SubSeq(pool[k], 1, n)) = IF 1 <= n THEN n - 1 + 1 ELSE 0
        /\ \A i \in 1..(n - 1 + 1) : SubSeq(pool[k], 1, n)[i] = pool[k][1 + i - 1]
    BY <1>1, <2>1, SubSeqProperties
  <2> QED BY <1>1, <2>2
<1>3. PoolType'
  BY <1>2 DEF PoolType
<1>4. /\ pool'[k] = SubSeq(pool[k], 1, n)
      /\ \A l \in Kind : l # k => pool'[l] = pool[l]
  BY DEF PoolType
<1>5. /\ \A i \in 1..n : i \in 1..Len(pool[k]) /\ i \notin (n + 1)..Len(pool[k])
      /\ \A i \in (n + 1)..Len(pool[k]) : i \in 1..Len(pool[k])
      /\ \A i \in 1..Len(pool[k]) : i \in 1..n \/ i \in (n + 1)..Len(pool[k])
  BY <1>1
<1>6. ASSUME NEW l \in Kind, NEW i \in 1..Len(pool'[l])
      PROVE  i \in 1..Len(pool[l]) /\ pool'[l][i] = pool[l][i]
             /\ (l = k => i \notin (n + 1)..Len(pool[k]))
  <2>1. CASE l = k
    BY <1>2, <1>4, <1>5, <2>1
  <2>2. CASE l # k
    BY <1>4, <2>2
  <2> QED BY <2>1, <2>2
<1>7. OneIndexEach'
  <2> SUFFICES ASSUME NEW l \in Kind, NEW m \in Kind,
                      NEW i \in 1..Len(pool'[l]), NEW j \in 1..Len(pool'[m]),
                      pool'[l][i] = pool'[m][j]
               PROVE  l = m /\ i = j
    BY DEF OneIndexEach
  <2>1. i \in 1..Len(pool[l]) /\ j \in 1..Len(pool[m]) /\ pool[l][i] = pool[m][j]
    BY <1>6, Zenon
  <2> QED BY <2>1, SameIndex
<1>8. \A l \in Kind : Len(pool'[l]) =< Len(pool[l])
  <2> TAKE l \in Kind
  <2>1. CASE l = k
    BY <1>1, <1>2, <1>4, <2>1
  <2>2. CASE l # k
    <3>1. pool[l] \in Seq(Helper)
      BY DEF PoolType
    <3> QED BY <1>4, <2>2, <3>1, LenProperties
  <2> QED BY <2>1, <2>2
<1>9. ASSUME NEW h, InPool(h)'
      PROVE  InPool(h) /\ ~\E j \in (n + 1)..Len(pool[k]) : pool[k][j] = h
  <2> PICK l \in Kind : \E i \in 1..Len(pool'[l]) : pool'[l][i] = h
    BY <1>9 DEF InPool
  <2> PICK i \in 1..Len(pool'[l]) : pool'[l][i] = h
    OBVIOUS
  <2>1. i \in 1..Len(pool[l]) /\ pool[l][i] = h
        /\ (l = k => i \notin (n + 1)..Len(pool[k]))
    BY <1>6, Zenon
  <2>2. InPool(h)
    BY <2>1, Zenon DEF InPool
  <2>3. ASSUME NEW j \in (n + 1)..Len(pool[k]), pool[k][j] = h
        PROVE  FALSE
    <3>1. j \in 1..Len(pool[k])
      BY <1>5, Zenon
    <3>2. l = k /\ i = j
      BY <2>1, <2>3, <3>1, SameIndex
    <3> QED BY <2>1, <3>2, Zenon
  <2> QED BY <2>2, <2>3, Zenon
<1>10. ASSUME NEW h, InPool(h), ~\E j \in (n + 1)..Len(pool[k]) : pool[k][j] = h
       PROVE  InPool(h)'
  <2> PICK l \in Kind : \E i \in 1..Len(pool[l]) : pool[l][i] = h
    BY <1>10 DEF InPool
  <2> PICK i \in 1..Len(pool[l]) : pool[l][i] = h
    OBVIOUS
  <2>1. CASE l = k
    <3>1. i \in 1..n
      BY <1>5, <1>10, <2>1, Zenon
    <3>2. pool'[k][i] = h /\ i \in 1..Len(pool'[k])
      BY <1>2, <1>4, <1>10, <2>1, <3>1
    <3> QED BY <3>2, Zenon DEF InPool
  <2>2. CASE l # k
    BY <1>4, <1>10, <2>2, Zenon DEF InPool
  <2> QED BY <2>1, <2>2
<1>11. \A h : InPool(h)' <=>
          InPool(h) /\ ~\E i \in (n + 1)..Len(pool[k]) : pool[k][i] = h
  BY <1>9, <1>10, Zenon
<1> QED BY <1>2, <1>3, <1>4, <1>7, <1>8, <1>11

(* A pool gains the helper that is put into it.                            *)
LEMMA PoolGains ==
  ASSUME PoolType, OneIndexEach, NEW k \in Kind, NEW g \in Helper, ~InPool(g),
         pool' = [pool EXCEPT ![k] = Append(pool[k], g)]
  PROVE  /\ PoolType' /\ OneIndexEach'
         /\ Len(pool'[k]) = Len(pool[k]) + 1
         /\ \A l \in Kind : l # k => pool'[l] = pool[l]
         /\ \A h : InPool(h)' <=> InPool(h) \/ h = g
<1>1. pool[k] \in Seq(Helper) /\ Len(pool[k]) \in Nat
  BY LenProperties DEF PoolType
<1>2. /\ Append(pool[k], g) \in Seq(Helper)
      /\ Len(Append(pool[k], g)) = Len(pool[k]) + 1
      /\ \A i \in 1..Len(pool[k]) : Append(pool[k], g)[i] = pool[k][i]
      /\ Append(pool[k], g)[Len(pool[k]) + 1] = g
  BY <1>1, AppendProperties
<1>3. /\ pool'[k] = Append(pool[k], g)
      /\ \A l \in Kind : l # k => pool'[l] = pool[l]
  BY DEF PoolType
<1>4. PoolType'
  BY <1>2 DEF PoolType
<1>5. /\ \A i \in 1..Len(pool[k]) : i \in 1..(Len(pool[k]) + 1)
      /\ \A i \in 1..(Len(pool[k]) + 1) :
           i \in 1..Len(pool[k]) \/ i = Len(pool[k]) + 1
      /\ Len(pool[k]) + 1 \in 1..(Len(pool[k]) + 1)
  BY <1>1
<1>6. ASSUME NEW l \in Kind, NEW i \in 1..Len(pool'[l])
      PROVE  \/ i \in 1..Len(pool[l]) /\ pool'[l][i] = pool[l][i]
             \/ l = k /\ i = Len(pool[k]) + 1 /\ pool'[l][i] = g
  <2>1. CASE l = k
    BY <1>2, <1>3, <1>5, <2>1
  <2>2. CASE l # k
    BY <1>3, <2>2
  <2> QED BY <2>1, <2>2
<1>7. OneIndexEach'
  <2> SUFFICES ASSUME NEW l \in Kind, NEW m \in Kind,
                      NEW i \in 1..Len(pool'[l]), NEW j \in 1..Len(pool'[m]),
                      pool'[l][i] = pool'[m][j]
               PROVE  l = m /\ i = j
    BY DEF OneIndexEach
  <2>1. /\ \/ i \in 1..Len(pool[l]) /\ pool'[l][i] = pool[l][i]
           \/ l = k /\ i = Len(pool[k]) + 1 /\ pool'[l][i] = g
        /\ \/ j \in 1..Len(pool[m]) /\ pool'[m][j] = pool[m][j]
           \/ m = k /\ j = Len(pool[k]) + 1 /\ pool'[m][j] = g
    BY <1>6, Zenon
  <2>2. i \in 1..Len(pool[l]) => pool[l][i] # g
    BY Zenon DEF InPool
  <2>3. j \in 1..Len(pool[m]) => pool[m][j] # g
    BY Zenon DEF InPool
  <2>4. i \in 1..Len(pool[l]) /\ j \in 1..Len(pool[m]) /\ pool[l][i] = pool[m][j]
          => l = m /\ i = j
    BY SameIndex
  <2> QED BY <2>1, <2>2, <2>3, <2>4, Zenon
<1>8. ASSUME NEW h, InPool(h)'
      PROVE  InPool(h) \/ h = g
  <2> PICK l \in Kind : \E i \in 1..Len(pool'[l]) : pool'[l][i] = h
    BY <1>8 DEF InPool
  <2> PICK i \in 1..Len(pool'[l]) : pool'[l][i] = h
    OBVIOUS
  <2> QED BY <1>6, Zenon DEF InPool
<1>9. ASSUME NEW h, InPool(h)
      PROVE  InPool(h)'
  <2> PICK l \in Kind : \E i \in 1..Len(pool[l]) : pool[l][i] = h
    BY <1>9 DEF InPool
  <2> PICK i \in 1..Len(pool[l]) : pool[l][i] = h
    OBVIOUS
  <2>1. i \in 1..Len(pool'[l]) /\ pool'[l][i] = h
    <3>1. CASE l = k
      BY <1>2, <1>3, <1>5, <1>9, <3>1
    <3>2. CASE l # k
      BY <1>3, <1>9, <3>2
    <3> QED BY <3>1, <3>2
  <2> QED BY <2>1, Zenon DEF InPool
<1>10. InPool(g)'
  <2>1. pool'[k][Len(pool[k]) + 1] = g /\ Len(pool[k]) + 1 \in 1..Len(pool'[k])
    BY <1>2, <1>3, <1>5
  <2> QED BY <2>1, Zenon DEF InPool
<1>11. \A h : InPool(h)' <=> InPool(h) \/ h = g
  BY <1>8, <1>9, <1>10, Zenon
<1> QED BY <1>2, <1>3, <1>4, <1>7, <1>11

(* What _acquire finds: the youngest valid helper, with only stale ones    *)
(* above it.                                                               *)
LEMMA YoungestIs ==
  ASSUME PoolType, NEW k \in Kind
  PROVE  /\ Youngest(k) \in 0..Len(pool[k])
         /\ Youngest(k) # 0 =>
              /\ Youngest(k) \in 1..Len(pool[k])
              /\ IsValid(pool[k][Youngest(k)])
<1>1. pool[k] \in Seq(Helper) /\ Len(pool[k]) \in Nat /\ DOMAIN pool[k] = 1..Len(pool[k])
  BY LenProperties DEF PoolType
<1>2. CASE Valid(k) = {}
  BY <1>1, <1>2 DEF Youngest
<1>3. CASE Valid(k) # {}
  <2>1. \A i \in Valid(k) : i \in 1..Len(pool[k]) /\ IsValid(pool[k][i])
    BY <1>1, Zenon DEF Valid
  <2>2. Valid(k) \in SUBSET (0..Len(pool[k]))
    BY <1>1, <2>1
  <2>3. Max(Valid(k)) \in Valid(k)
    BY <1>1, <1>3, <2>2, MaxIs
  <2>4. Youngest(k) \in Valid(k)
    BY <1>3, <2>3, Zenon DEF Youngest
  <2> QED BY <1>1, <2>1, <2>4
<1> QED BY <1>2, <1>3

------------------------------------------------------------------------------
(* What a step leaves alone.                                               *)

SameCall(c) ==
  /\ call'[c] = call[c] /\ uses'[c] = uses[c] /\ future'[c] = future[c]
  /\ owner'[c] = owner[c] /\ outcome'[c] = outcome[c]
  /\ c \in cancelled' <=> c \in cancelled

SameHelper(h) ==
  /\ helper_loop'[h] = helper_loop[h] /\ backend'[h] = backend[h]
  /\ aio'[h] = aio[h] /\ result'[h] = result[h] /\ aio_msg'[h] = aio_msg[h]
  /\ current_slot'[h] = current_slot[h] /\ slot_id'[h] = slot_id[h]
  /\ Contains(pending', h) <=> Contains(pending, h)
  /\ Contains(soon', h) <=> Contains(soon, h)
  /\ h \in aio_map' <=> h \in aio_map

SlotKept(c, s) ==
  /\ s \in Occupied /\ slots[s] = c => s \in Occupied' /\ slots'[s] = c
  /\ future[c] = "done" /\ s \notin Occupied => s \notin Occupied'

(* A waiting call is undisturbed while it, its helper and its slot are.    *)
LEMMA WaitingKept ==
  ASSUME NEW c \in Call, NEW h \in Helper, uses[c] = h, call[c] = "waiting",
         CallOK(c), SameCall(c),
         loop' = loop, SameHelper(h), SlotKept(c, current_slot[h])
  PROVE  CallOK(c)'
<1>1. WaitingOK(c, h) /\ uses'[c] = h /\ call'[c] = "waiting"
      /\ future'[c] = future[c] /\ owner'[c] = owner[c]
      /\ (c \in cancelled' <=> c \in cancelled)
  BY DEF CallOK, SameCall
<1>2. Delivery(backend[h] = "native", future[c], aio[h], Contains(pending, h),
               Contains(soon, h), h \in aio_map)'
  BY <1>1 DEF WaitingOK, SameHelper, Delivery
<1>3. SlotOK(c, h)'
  BY <1>1 DEF WaitingOK, SameHelper, SlotOK, SlotKept
<1>4. Progress(c \in RecvCall, aio[h], result[h], aio_msg[h], owner[c], c)'
  BY <1>1 DEF WaitingOK, SameHelper, Progress
<1>5. WaitingOK(c, h)'
  BY <1>1, <1>2, <1>3, <1>4 DEF WaitingOK, SameHelper
<1> QED BY <1>1, <1>5 DEF CallOK

(* So is any other, while it keeps the path its helper took.               *)
LEMMA OtherKept ==
  ASSUME NEW c \in Call, call[c] # "waiting", CallOK(c), SameCall(c),
         uses[c] \in Helper => backend'[uses[c]] = backend[uses[c]]
  PROVE  CallOK(c)'
BY DEF CallOK, SameCall, Settled, Untouched

(* Nobody changes place.                                                   *)
LEMMA PlacesKept ==
  ASSUME Places, RoomToRelease, UNCHANGED <<call, uses, helper, pool>>
  PROVE  Places' /\ RoomToRelease'
<1>1. OneCallEach' /\ NotBoth' /\ OneIndexEach' /\ LiveInOnePlace'
  BY DEF Places, OneCallEach, NotBoth, OneIndexEach, LiveInOnePlace, HasHelper, InPool
<1> QED BY <1>1 DEF Places, RoomToRelease, HasHelper

(* Two calls that have helpers have different ones.                        *)
LEMMA CallsApart ==
  ASSUME Places, NEW c \in Call, NEW d \in Call, c # d, HasHelper(c), HasHelper(d)
  PROVE  uses[c] # uses[d]
BY DEF Places, OneCallEach

(* What is under way for a helper is under way for the one call that waits *)
(* for it.                                                                 *)
LEMMA WhoWaits ==
  ASSUME Inv, NEW h \in Helper, ~Quiet(h)
  PROVE  /\ CallOf(h) \in Call
         /\ call[CallOf(h)] = "waiting"
         /\ uses[CallOf(h)] = h
         /\ WaitingOK(CallOf(h), h)
         /\ \A c \in Call : HasHelper(c) /\ uses[c] = h => c = CallOf(h)
<1>1. PICK c \in Call : call[c] = "waiting" /\ uses[c] = h
  BY DEF Inv, HelperOK
<1>2. \A d \in Call : HasHelper(d) /\ uses[d] = h => d = c
  BY <1>1 DEF Inv, Places, OneCallEach, HasHelper
<1>3. CallOf(h) \in Call /\ uses[CallOf(h)] = h /\ call[CallOf(h)] = "waiting"
  BY <1>1, Zenon DEF CallOf
<1>4. CallOf(h) = c
  BY <1>2, <1>3 DEF HasHelper
<1>5. WaitingOK(c, h)
  BY <1>1 DEF Inv, CallOK
<1> QED BY <1>1, <1>2, <1>4, <1>5

(* Helpers stay where and what they are: only what is under way changes.   *)
LEMMA HelpersKept ==
  ASSUME Inv, UNCHANGED <<uses, helper, helper_loop, backend, loop, path>>,
         NEW h \in Helper, InPool(h)' => InPool(h),
         Quiet(h)' \/ \E c \in Call : call'[c] = "waiting" /\ uses'[c] = h
  PROVE  HelperOK(h)'
BY DEF Inv, HelperOK

(* A step within the wait of one call: nothing else is disturbed.          *)
LEMMA WaitStep ==
  ASSUME Inv, NEW c \in Call, call[c] = "waiting", CallOK(c)',
         UNCHANGED <<call, uses, helper, helper_loop, backend, pool, loop, path, slots>>,
         \A d \in Call : d # c => SameCall(d),
         \A g \in Helper : g # uses[c] => SameHelper(g)
  PROVE  /\ Places' /\ RoomToRelease'
         /\ \A h \in Helper : HelperOK(h)'
         /\ \A d \in Call : CallOK(d)'
<1>1. Places' /\ RoomToRelease'
  BY PlacesKept DEF Inv
<1>2. \A h : InPool(h)' <=> InPool(h)
  BY DEF InPool
<1>3. ASSUME NEW h \in Helper
      PROVE  HelperOK(h)'
  <2>1. CASE h = uses[c]
    <3>1. call'[c] = "waiting" /\ uses'[c] = h
      BY <2>1
    <3> QED BY <1>2, <3>1, HelpersKept
  <2>2. CASE h # uses[c]
    <3>1. SameHelper(h)
      BY <2>2
    <3>2. Quiet(h) => Quiet(h)'
      BY <3>1 DEF SameHelper, Quiet
    <3>3. Quiet(h) \/ \E d \in Call : call[d] = "waiting" /\ uses[d] = h
      BY DEF Inv, HelperOK
    <3> QED BY <1>2, <3>2, <3>3, HelpersKept
  <2> QED BY <2>1, <2>2
<1>4. ASSUME NEW d \in Call
      PROVE  CallOK(d)'
  <2>1. CASE d = c
    BY <2>1
  <2>2. CASE d # c /\ call[d] = "waiting"
    <3>1. uses[d] \in Helper /\ CallOK(d)
      BY <2>2 DEF Inv, CallOK, WaitingOK
    <3>2. uses[d] # uses[c]
      BY <2>2, CallsApart DEF Inv, HasHelper
    <3>3. SameHelper(uses[d]) /\ SameCall(d)
      BY <2>2, <3>1, <3>2
    <3>4. SlotKept(d, current_slot[uses[d]])
      BY DEF SlotKept, Occupied
    <3> QED BY <2>2, <3>1, <3>3, <3>4, WaitingKept
  <2>3. CASE d # c /\ call[d] # "waiting"
    BY <2>3, OtherKept DEF Inv
  <2> QED BY <2>1, <2>2, <2>3
<1> QED BY <1>1, <1>3, <1>4

------------------------------------------------------------------------------
(* Cancelling and completing.                                              *)

(* Asking nng to cancel changes nothing but that it was asked.             *)
LEMMA CancelTaskStep ==
  ASSUME Inv, NEW c \in Call, CancelTask(c)
  PROVE  Inv'
<1>1. PICK h \in Helper : uses[c] = h
  BY DEF Inv, CallOK, WaitingOK, CancelTask
<1>2. /\ call[c] = "waiting" /\ c \notin cancelled
      /\ cancelled' = cancelled \cup {c}
      /\ aio' = [aio EXCEPT ![h] = IF @ = "pending" THEN "cancelling" ELSE @]
      /\ UNCHANGED <<call, uses, outcome, future, owner, helper, backend,
           helper_loop, current_slot, slot_id, aio_map, result, aio_msg, pool,
           loop, slots, slot_counter, path, holder, pending, soon, socket>>
  BY <1>1 DEF CancelTask, helperVars, engineVars, queueVars
<1>3. TypeOK'
  BY <1>2 DEF Inv, TypeOK, Occupied
<1>4. \A d \in Call : d # c => SameCall(d)
  BY <1>2 DEF SameCall
<1>5. \A g \in Helper : g # h => SameHelper(g)
  BY <1>2 DEF SameHelper, Inv, TypeOK
<1>6. CallOK(c)'
  <2>1. WaitingOK(c, h)
    BY <1>1, <1>2 DEF Inv, CallOK
  <2>2. /\ aio[h] = "idle" => aio'[h] = "idle"
        /\ aio[h] # "idle" => aio'[h] # "idle"
        /\ aio[h] \in {"idle", "pending", "cancelling"}
    BY <1>2 DEF Inv, TypeOK
  <2>3. Delivery(backend[h] = "native", future[c], aio[h], Contains(pending, h),
                 Contains(soon, h), h \in aio_map)'
    BY <1>2, <2>1, <2>2 DEF WaitingOK, Delivery
  <2>4. SlotOK(c, h)'
    BY <1>2, <2>1 DEF WaitingOK, SlotOK, Occupied
  <2>5. Progress(c \in RecvCall, aio[h], result[h], aio_msg[h], owner[c], c)'
    BY <1>2, <2>1, <2>2 DEF WaitingOK, Progress
  <2>6. WaitingOK(c, h)'
    BY <1>2, <2>1, <2>3, <2>4, <2>5 DEF WaitingOK
  <2> QED BY <1>1, <1>2, <2>6 DEF CallOK
<1>7. SoonOnce'
  BY <1>2 DEF Inv, SoonOnce
<1>8. /\ Places' /\ RoomToRelease'
      /\ \A g \in Helper : HelperOK(g)'
      /\ \A d \in Call : CallOK(d)'
  BY <1>1, <1>2, <1>4, <1>5, <1>6, WaitStep
<1> QED BY <1>3, <1>7, <1>8 DEF Inv

(* A completion goes to the one call that waits for the helper, over the   *)
(* path of that helper.                                                    *)
LEMMA CompleteStep ==
  ASSUME Inv, NEW h \in Helper, Complete(h)
  PROVE  Inv'
<1>1. ~Quiet(h)
  BY DEF Complete, Quiet
<1>2. PICK c \in Call : /\ c = CallOf(h) /\ call[c] = "waiting" /\ uses[c] = h
                        /\ WaitingOK(c, h)
  BY <1>1, WhoWaits
<1>3. PICK r \in {"ok", "timeout", "closed", "canceled"} :
        /\ r = "canceled" => aio[h] = "cancelling"
        /\ result' = [result EXCEPT ![h] = r]
        /\ IF r # "ok" THEN UNCHANGED <<aio_msg, owner>>
           ELSE /\ aio_msg' = [aio_msg EXCEPT ![h] = IF c \in RecvCall THEN c
                                                     ELSE NoCall]
                /\ owner' = [owner EXCEPT ![c] = IF c \in RecvCall THEN "aio"
                                                 ELSE "nng"]
  BY <1>2, Zenon DEF Complete
<1>4. /\ aio[h] # "idle" /\ aio' = [aio EXCEPT ![h] = "idle"] /\ Report(h)
      /\ UNCHANGED <<call, uses, cancelled, outcome, future, helper, backend,
           helper_loop, current_slot, slot_id, pool, loop, slots, slot_counter,
           path, holder, socket>>
  BY DEF Complete, engineVars
<1>5. /\ future[c] = "pending" /\ ~Contains(pending, h) /\ ~Contains(soon, h)
      /\ h \in aio_map <=> backend[h] # "native"
  BY <1>2, <1>4 DEF WaitingOK, Delivery
<1>6. pending \in Seq(Helper) /\ soon \in Seq(Helper)
  BY DEF Inv, TypeOK
<1>7. /\ pending' \in Seq(Helper) /\ soon' \in Seq(Helper)
      /\ aio_map' \subseteq aio_map
      /\ \A g : Contains(pending', g) <=>
                  Contains(pending, g) \/ (g = h /\ backend[h] = "native")
      /\ \A g : Contains(soon', g) <=>
                  Contains(soon, g) \/ (g = h /\ backend[h] # "native")
      /\ \A g : g \in aio_map' <=> g \in aio_map /\ g # h
      /\ SoonOnce'
  <2>1. CASE backend[h] = "native"
    <3>1. pending' = Append(pending, h) /\ UNCHANGED <<aio_map, soon>>
      BY <1>4, <2>1 DEF Report
    <3>2. /\ pending' \in Seq(Helper)
          /\ \A g : Contains(pending', g) <=> Contains(pending, g) \/ g = h
      BY <1>6, <3>1, AppendContains
    <3> QED BY <1>5, <1>6, <2>1, <3>1, <3>2 DEF Inv, SoonOnce
  <2>2. CASE backend[h] # "native"
    <3>1. /\ aio_map' = aio_map \ {h} /\ soon' = Append(soon, h)
          /\ UNCHANGED pending
      BY <1>4, <1>5, <2>2 DEF Report, AsyncComplete
    <3>2. /\ soon' \in Seq(Helper) /\ Len(soon') = Len(soon) + 1
          /\ \A i \in 1..Len(soon) : soon'[i] = soon[i]
          /\ soon'[Len(soon) + 1] = h
          /\ \A g : Contains(soon', g) <=> Contains(soon, g) \/ g = h
      BY <1>6, <3>1, AppendContains
    <3>3. SoonOnce'
      <4>1. Len(soon) \in Nat
        BY <1>6, LenProperties
      <4>2. \A i \in 1..Len(soon') : i \in 1..Len(soon) \/ i = Len(soon) + 1
        BY <3>2, <4>1
      <4>3. \A i \in 1..Len(soon) : soon[i] # h
        BY <1>5, Zenon DEF Contains
      <4> SUFFICES ASSUME NEW i \in 1..Len(soon'), NEW j \in 1..Len(soon'),
                          soon'[i] = soon'[j]
                   PROVE  i = j
        BY DEF SoonOnce
      <4>4. i \in 1..Len(soon) /\ j \in 1..Len(soon) => i = j
        BY <3>2 DEF Inv, SoonOnce
      <4> QED BY <3>2, <4>2, <4>3, <4>4
    <3> QED BY <1>5, <1>6, <2>2, <3>1, <3>2, <3>3
  <2> QED BY <2>1, <2>2
<1>8. TypeOK'
  <2>1. /\ result \in [Helper -> {"none", "ok", "timeout", "closed", "canceled"}]
        /\ aio \in [Helper -> {"idle", "pending", "cancelling"}]
    BY DEF Inv, TypeOK
  <2>4. result' \in [Helper -> {"none", "ok", "timeout", "closed", "canceled"}]
    BY <1>3, <2>1
  <2>5. aio' \in [Helper -> {"idle", "pending", "cancelling"}]
    BY <1>4, <2>1
  <2>2. aio_msg' \in [Helper -> Call \cup {NoCall}]
    <3>1. aio_msg \in [Helper -> Call \cup {NoCall}]
      BY DEF Inv, TypeOK
    <3> QED BY <1>3, <3>1
  <2>3. owner' \in [Call -> {"peer", "caller", "aio", "nng", "freed"}]
    <3>1. owner \in [Call -> {"peer", "caller", "aio", "nng", "freed"}]
      BY DEF Inv, TypeOK
    <3> QED BY <1>3, <3>1
  <2> QED BY <1>4, <1>7, <2>2, <2>3, <2>4, <2>5 DEF Inv, TypeOK, Occupied
<1>9. /\ aio'[h] = "idle" /\ result'[h] = r
      /\ \A g \in Helper : g # h => /\ aio'[g] = aio[g] /\ result'[g] = result[g]
                                    /\ aio_msg'[g] = aio_msg[g]
      /\ \A d \in Call : d # c => owner'[d] = owner[d]
      /\ r # "ok" => aio_msg'[h] = aio_msg[h] /\ owner'[c] = owner[c]
      /\ r = "ok" => /\ aio_msg'[h] = IF c \in RecvCall THEN c ELSE NoCall
                     /\ owner'[c] = IF c \in RecvCall THEN "aio" ELSE "nng"
  BY <1>3, <1>4 DEF Inv, TypeOK
<1>10. \A d \in Call : d # c => SameCall(d)
  BY <1>4, <1>9 DEF SameCall
<1>11. \A g \in Helper : g # h => SameHelper(g)
  BY <1>4, <1>7, <1>9 DEF SameHelper
<1>12. CallOK(c)'
  <2>1. Delivery(backend[h] = "native", future[c], aio[h], Contains(pending, h),
                 Contains(soon, h), h \in aio_map)'
    BY <1>4, <1>5, <1>7, <1>9 DEF Delivery
  <2>2. SlotOK(c, h)'
    BY <1>2, <1>4 DEF WaitingOK, SlotOK, Occupied
  <2>3. Progress(c \in RecvCall, aio[h], result[h], aio_msg[h], owner[c], c)'
    BY <1>2, <1>4, <1>9 DEF WaitingOK, Progress
  <2>4. aio'[h] = "cancelling" \/ result'[h] = "canceled" => c \in cancelled'
    BY <1>2, <1>3, <1>4, <1>9 DEF WaitingOK
  <2>5. WaitingOK(c, h)'
    BY <1>2, <1>4, <2>1, <2>2, <2>3, <2>4 DEF WaitingOK
  <2> QED BY <1>2, <1>4, <2>5 DEF CallOK
<1>13. /\ Places' /\ RoomToRelease'
       /\ \A g \in Helper : HelperOK(g)'
       /\ \A d \in Call : CallOK(d)'
  BY <1>2, <1>4, <1>10, <1>11, <1>12, WaitStep
<1> QED BY <1>7, <1>8, <1>13 DEF Inv

------------------------------------------------------------------------------
(* The event loop wakes its tasks.                                         *)

(* A step that moves completions, but no call and no helper.               *)
LEMMA MoveStep ==
  ASSUME Inv,
         UNCHANGED <<call, uses, helper, helper_loop, backend, pool, loop, path>>,
         \A g \in Helper : Quiet(g) => Quiet(g)'
  PROVE  Places' /\ RoomToRelease' /\ \A h \in Helper : HelperOK(h)'
<1>1. Places' /\ RoomToRelease'
  BY PlacesKept DEF Inv
<1>2. \A h : InPool(h)' <=> InPool(h)
  BY DEF InPool
<1>3. ASSUME NEW h \in Helper
      PROVE  HelperOK(h)'
  <2>1. Quiet(h) \/ \E d \in Call : call[d] = "waiting" /\ uses[d] = h
    BY DEF Inv, HelperOK
  <2> QED BY <1>2, <2>1, HelpersKept
<1> QED BY <1>1, <1>3

(* The calls whose completion is in the native queue.                      *)
Reported(c) == call[c] = "waiting" /\ Contains(pending, uses[c])

(* A reported call is the owner of its slot.                               *)
LEMMA ReportedIs ==
  ASSUME Inv, NEW c \in Call, Reported(c)
  PROVE  /\ uses[c] \in Helper /\ WaitingOK(c, uses[c])
         /\ backend[uses[c]] = "native" /\ future[c] = "pending"
         /\ current_slot[uses[c]] \in Occupied
         /\ slots[current_slot[uses[c]]] = c
         /\ slot_id[uses[c]] = current_slot[uses[c]]
<1>1. PICK h \in Helper : uses[c] = h /\ WaitingOK(c, h) /\ Contains(pending, h)
  BY DEF Reported, Inv, CallOK, WaitingOK
<1>2. backend[h] = "native" /\ future[c] = "pending"
  BY <1>1 DEF WaitingOK, Delivery
<1> QED BY <1>1, <1>2 DEF WaitingOK, SlotOK

(* The entries of the queue belong to reported calls.                      *)
LEMMA QueuedIsReported ==
  ASSUME Inv, NEW i \in DOMAIN pending
  PROVE  \E c \in Call : Reported(c) /\ uses[c] = pending[i]
<1>1. pending \in Seq(Helper)
  BY DEF Inv, TypeOK
<1>2. i \in 1..Len(pending) /\ pending[i] \in Helper
  BY <1>1, LenProperties, ElementOfSeq
<1>3. Contains(pending, pending[i])
  BY <1>2, Zenon DEF Contains
<1>4. ~Quiet(pending[i])
  BY <1>3, Zenon DEF Quiet
<1> QED BY <1>2, <1>3, <1>4, WhoWaits DEF Reported

(* _on_notify resolves the futures of the reported calls and no others.    *)
LEMMA OnNotifyStep ==
  ASSUME Inv, OnNotify
  PROVE  Inv'
<1> DEFINE emitted == {slot_id[pending[i]] : i \in DOMAIN pending} \cap Occupied
           woken == {slots[s] : s \in emitted}
<1>1. /\ pending' = <<>>
      /\ slots' = [s \in Occupied \ emitted |-> slots[s]]
      /\ future' = [c \in Call |-> IF c \in woken THEN "done" ELSE future[c]]
      /\ UNCHANGED <<call, uses, cancelled, outcome, owner, helper, backend,
           helper_loop, current_slot, slot_id, aio_map, aio, result, aio_msg,
           pool, loop, slot_counter, soon, path, holder, socket>>
  BY DEF OnNotify, helperVars, aioVars
<1>2. ASSUME NEW s
      PROVE  s \in emitted <=>
               \E c \in Call : Reported(c) /\ s = current_slot[uses[c]]
  <2>1. ASSUME NEW i \in DOMAIN pending
        PROVE  \E c \in Call : Reported(c) /\ slot_id[pending[i]] = current_slot[uses[c]]
    BY QueuedIsReported, ReportedIs
  <2>2. ASSUME NEW c \in Call, Reported(c)
        PROVE  current_slot[uses[c]] \in emitted
    <3>1. PICK i \in 1..Len(pending) : pending[i] = uses[c]
      BY <2>2 DEF Reported, Contains
    <3>2. i \in DOMAIN pending
      BY LenProperties DEF Inv, TypeOK
    <3>3. slot_id[pending[i]] = current_slot[uses[c]]
          /\ current_slot[uses[c]] \in Occupied
      BY <2>2, <3>1, ReportedIs
    <3>4. slot_id[pending[i]] \in {slot_id[pending[j]] : j \in DOMAIN pending}
      BY <3>2, Zenon
    <3> QED BY <3>3, <3>4
  <2>3. ASSUME s \in emitted
        PROVE  \E c \in Call : Reported(c) /\ s = current_slot[uses[c]]
    BY <2>1, <2>3
  <2> HIDE DEF emitted
  <2> QED BY <2>2, <2>3
<1>3. \A c : c \in woken <=> c \in Call /\ Reported(c)
  <2>1. ASSUME NEW c \in Call, Reported(c)
        PROVE  current_slot[uses[c]] \in emitted /\ slots[current_slot[uses[c]]] = c
    BY <1>2, <2>1, ReportedIs, Zenon
  <2>2. ASSUME NEW s \in emitted
        PROVE  slots[s] \in Call /\ Reported(slots[s])
    <3>1. PICK c \in Call : Reported(c) /\ s = current_slot[uses[c]]
      BY <1>2, Zenon
    <3> QED BY <2>1, <3>1, Zenon
  <2> QED BY <2>1, <2>2, Zenon
<1> HIDE DEF emitted, woken
<1>4. /\ Occupied' = Occupied \ emitted
      /\ \A s \in Occupied \ emitted : slots'[s] = slots[s]
  BY <1>1, Zenon DEF Occupied
<1>5. TypeOK'
  <2>1. Occupied' \subseteq 1..MaxSlot /\ \A s \in Occupied' : slots'[s] \in Call
    BY <1>4 DEF Inv, TypeOK
  <2>2. future' \in [Call -> {"none", "pending", "done"}]
    BY <1>1 DEF Inv, TypeOK
  <2>3. pending' \in Seq(Helper)
    BY <1>1
  <2> QED BY <1>1, <2>1, <2>2, <2>3 DEF Inv, TypeOK
<1>6. \A g \in Helper : ~Contains(pending', g)
  BY <1>1, EmptyContains, Zenon
<1>7. ASSUME NEW c \in Call, Reported(c)
      PROVE  CallOK(c)'
  <2>1. PICK h \in Helper : uses[c] = h
    BY <1>7, ReportedIs
  <2>2. /\ WaitingOK(c, h) /\ backend[h] = "native" /\ future[c] = "pending"
        /\ Contains(pending, h) /\ call[c] = "waiting"
        /\ slot_id[h] = current_slot[h]
    BY <1>7, <2>1, ReportedIs DEF Reported
  <2>3. future'[c] = "done"
    BY <1>1, <1>3, <1>7
  <2>4. current_slot[h] \notin Occupied'
    BY <1>2, <1>4, <1>7, <2>1, Zenon
  <2>5. Delivery(backend[h] = "native", future[c], aio[h], Contains(pending, h),
                 Contains(soon, h), h \in aio_map)'
    BY <1>1, <1>6, <2>2, <2>3 DEF WaitingOK, Delivery
  <2>6. SlotOK(c, h)'
    BY <1>1, <2>2, <2>3, <2>4 DEF WaitingOK, SlotOK
  <2>7. Progress(c \in RecvCall, aio[h], result[h], aio_msg[h], owner[c], c)'
    BY <1>1, <2>2 DEF WaitingOK, Progress
  <2>8. WaitingOK(c, h)'
    BY <1>1, <2>2, <2>5, <2>6, <2>7 DEF WaitingOK
  <2> QED BY <1>1, <2>1, <2>2, <2>8 DEF CallOK
<1>8. ASSUME NEW c \in Call, ~Reported(c)
      PROVE  CallOK(c)'
  <2>1. future'[c] = future[c]
    BY <1>1, <1>3, <1>8
  <2>2. SameCall(c)
    BY <1>1, <2>1 DEF SameCall
  <2>3. CASE call[c] = "waiting"
    <3>1. PICK h \in Helper : uses[c] = h
      BY <2>3 DEF Inv, CallOK, WaitingOK
    <3>2. SameHelper(h)
      BY <1>1, <1>6, <1>8, <2>3, <3>1 DEF SameHelper, Reported
    <3>3. SlotKept(c, current_slot[h])
      <4> DEFINE s == current_slot[h]
      <4>1. ASSUME s \in Occupied, slots[s] = c
            PROVE  s \notin emitted
        <5> SUFFICES ASSUME s \in emitted PROVE FALSE
          OBVIOUS
        <5>1. PICK d \in Call : Reported(d) /\ s = current_slot[uses[d]]
          BY <1>2
        <5>2. d = c
          BY <4>1, <5>1, ReportedIs
        <5> QED BY <1>8, <5>1, <5>2
      <4> QED BY <1>4, <4>1 DEF SlotKept
    <3> QED BY <1>1, <2>2, <2>3, <3>1, <3>2, <3>3, WaitingKept DEF Inv
  <2>4. CASE call[c] # "waiting"
    BY <1>1, <2>2, <2>4, OtherKept DEF Inv
  <2> QED BY <2>3, <2>4
<1>9. \A g \in Helper : Quiet(g) => Quiet(g)'
  BY <1>1, <1>6 DEF Quiet
<1>10. SoonOnce'
  BY <1>1 DEF Inv, SoonOnce
<1>11. Places' /\ RoomToRelease' /\ \A g \in Helper : HelperOK(g)'
  BY <1>1, <1>9, MoveStep
<1> QED BY <1>5, <1>7, <1>8, <1>10, <1>11 DEF Inv

(* What the reschedulers left with the loop resolves the future of the one *)
(* call that waits for its helper.                                         *)
LEMMA RunSoonStep ==
  ASSUME Inv, RunSoon
  PROVE  Inv'
<1>1. /\ soon # <<>> /\ soon' = Tail(soon)
      /\ future' = [c \in Call |-> IF /\ call[c] = "waiting"
                                      /\ uses[c] = Head(soon)
                                   THEN "done" ELSE future[c]]
      /\ UNCHANGED <<call, uses, cancelled, outcome, owner, helper, backend,
           helper_loop, current_slot, slot_id, aio_map, aio, result, aio_msg,
           pool, loop, slots, slot_counter, pending, path, holder, socket>>
  BY DEF RunSoon, helperVars, aioVars, engineVars
<1>2. /\ soon' \in Seq(Helper) /\ Head(soon) \in Helper /\ Contains(soon, Head(soon))
      /\ SoonOnce'
      /\ \A g : Contains(soon', g) <=> Contains(soon, g) /\ g # Head(soon)
  <2>1. soon \in Seq(Helper) /\ \A i, j \in 1..Len(soon) : soon[i] = soon[j] => i = j
    BY DEF Inv, TypeOK, SoonOnce
  <2> QED BY <1>1, <2>1, TailContains DEF SoonOnce
<1>3. PICK h \in Helper : h = Head(soon)
  BY <1>2
<1>4. ~Quiet(h)
  BY <1>2, <1>3 DEF Quiet
<1>5. PICK c \in Call :
        /\ call[c] = "waiting" /\ uses[c] = h /\ WaitingOK(c, h)
        /\ \A d \in Call : HasHelper(d) /\ uses[d] = h => d = c
  BY <1>4, WhoWaits
<1>6. /\ backend[h] # "native" /\ aio[h] = "idle" /\ h \notin aio_map
      /\ ~Contains(pending, h)
  BY <1>2, <1>3, <1>5 DEF WaitingOK, Delivery
<1>7. /\ future'[c] = "done"
      /\ \A d \in Call : d # c => future'[d] = future[d]
  BY <1>1, <1>3, <1>5 DEF HasHelper
<1>8. TypeOK'
  <2>1. future' \in [Call -> {"none", "pending", "done"}]
    BY <1>1 DEF Inv, TypeOK
  <2> QED BY <1>1, <1>2, <2>1 DEF Inv, TypeOK, Occupied
<1>9. \A d \in Call : d # c => SameCall(d)
  BY <1>1, <1>7 DEF SameCall
<1>10. \A g \in Helper : g # h => SameHelper(g)
  BY <1>1, <1>2, <1>3 DEF SameHelper
<1>11. CallOK(c)'
  <2>1. Delivery(backend[h] = "native", future[c], aio[h], Contains(pending, h),
                 Contains(soon, h), h \in aio_map)'
    BY <1>1, <1>2, <1>3, <1>6, <1>7 DEF Delivery
  <2>2. SlotOK(c, h)'
    BY <1>1, <1>5, <1>6 DEF WaitingOK, SlotOK
  <2>3. Progress(c \in RecvCall, aio[h], result[h], aio_msg[h], owner[c], c)'
    BY <1>1, <1>5 DEF WaitingOK, Progress
  <2>4. WaitingOK(c, h)'
    BY <1>1, <1>5, <2>1, <2>2, <2>3 DEF WaitingOK
  <2> QED BY <1>1, <1>5, <2>4 DEF CallOK
<1>12. /\ Places' /\ RoomToRelease'
       /\ \A g \in Helper : HelperOK(g)'
       /\ \A d \in Call : CallOK(d)'
  BY <1>1, <1>5, <1>9, <1>10, <1>11, WaitStep
<1> QED BY <1>2, <1>8, <1>12 DEF Inv

------------------------------------------------------------------------------
(* Closing, and the next event loop.                                       *)

(* Closing goes on without touching a call or a helper.                    *)
LEMMA SocketStep ==
  ASSUME Inv, CloseBegin \/ CloseFn \/ Forget
  PROVE  Inv'
<1>1. /\ socket' \in {"open", "closing", "draining", "forgetting", "closed"}
      /\ UNCHANGED <<callVars, helperVars, aioVars, pool, engineVars, queueVars>>
  BY DEF CloseBegin, CloseFn, Forget
<1>2. UNCHANGED <<call, uses, cancelled, outcome, future, owner, helper, backend,
        helper_loop, current_slot, slot_id, aio_map, aio, result, aio_msg, pool,
        loop, slots, slot_counter, path, holder, pending, soon>>
  BY <1>1 DEF callVars, helperVars, aioVars, engineVars, queueVars
<1>3. TypeOK'
  BY <1>1, <1>2 DEF Inv, TypeOK, Occupied
<1>4. \A g \in Helper : Quiet(g) => Quiet(g)'
  BY <1>2 DEF Quiet
<1>5. Places' /\ RoomToRelease' /\ \A g \in Helper : HelperOK(g)'
  BY <1>2, <1>4, MoveStep
<1>6. ASSUME NEW c \in Call
      PROVE  CallOK(c)'
  <2>1. SameCall(c)
    BY <1>2 DEF SameCall
  <2>2. CASE call[c] = "waiting"
    <3>1. PICK h \in Helper : uses[c] = h
      BY <2>2 DEF Inv, CallOK, WaitingOK
    <3>2. SameHelper(h) /\ SlotKept(c, current_slot[h])
      BY <1>2 DEF SameHelper, SlotKept, Occupied
    <3> QED BY <1>2, <2>1, <2>2, <3>1, <3>2, WaitingKept DEF Inv
  <2>3. CASE call[c] # "waiting"
    BY <1>2, <2>1, <2>3, OtherKept DEF Inv
  <2> QED BY <2>2, <2>3
<1>7. SoonOnce'
  BY <1>2 DEF Inv, SoonOnce
<1> QED BY <1>3, <1>5, <1>6, <1>7 DEF Inv

(* A loop ends when no call is under way, so every helper is quiet.        *)
LEMMA NextLoopStep ==
  ASSUME Inv, NextLoop
  PROVE  Inv'
<1>1. /\ loop < MaxLoop /\ loop' = loop + 1 /\ path' \in Path
      /\ slots' = <<>> /\ slot_counter' = 0
      /\ \A c \in Call : call[c] \in {"new", "ended"}
      /\ UNCHANGED <<call, uses, cancelled, outcome, future, owner, helper, backend,
           helper_loop, current_slot, slot_id, aio_map, aio, result, aio_msg, pool,
           holder, pending, soon, socket>>
  BY DEF NextLoop, NewEngine, callVars, helperVars, aioVars, queueVars
<1>2. Occupied' = {}
  <2>1. DOMAIN <<>> = {}
    OBVIOUS
  <2> QED BY <1>1, <2>1 DEF Occupied
<1>3. loop' \in 1..MaxLoop /\ loop \in Nat
  BY <1>1, LoopAssumption DEF Inv, TypeOK
<1>4. TypeOK'
  <2>1. slot_counter' \in 0..MaxSlot
    BY <1>1, SlotAssumption
  <2> QED BY <1>1, <1>2, <1>3, <2>1 DEF Inv, TypeOK
<1>5. Places' /\ RoomToRelease'
  BY <1>1, PlacesKept DEF Inv
<1>6. ASSUME NEW h \in Helper
      PROVE  HelperOK(h)'
  <2>1. Quiet(h)
    BY <1>1 DEF Inv, HelperOK
  <2>2. Quiet(h)'
    BY <1>1, <2>1 DEF Quiet
  <2>3. InPool(h)' => InPool(h)
    BY <1>1 DEF InPool
  <2>4. helper_loop[h] \in Nat /\ helper_loop[h] =< loop
    BY DEF Inv, TypeOK, HelperOK
  <2>5. helper_loop'[h] =< loop' /\ helper_loop'[h] # loop'
    BY <1>1, <1>3, <2>4
  <2> QED BY <1>1, <2>2, <2>3, <2>5 DEF Inv, HelperOK
<1>7. ASSUME NEW c \in Call
      PROVE  CallOK(c)'
  <2>1. SameCall(c) /\ call[c] # "waiting"
    BY <1>1 DEF SameCall
  <2> QED BY <1>1, <2>1, OtherKept DEF Inv
<1>8. SoonOnce'
  BY <1>1 DEF Inv, SoonOnce
<1> QED BY <1>4, <1>5, <1>6, <1>7, <1>8 DEF Inv

------------------------------------------------------------------------------
(* Freeing pooled helpers.                                                 *)

(* The helpers above index n of a pool.                                    *)
Above(k, n) == {pool[k][i] : i \in (n + 1)..Len(pool[k])}

(* What it is to be among them.                                            *)
LEMMA AboveMember ==
  ASSUME NEW k, NEW n
  PROVE  \A h : h \in Above(k, n) <=> \E i \in (n + 1)..Len(pool[k]) : pool[k][i] = h
BY DEF Above

(* They have nothing under way, and no call has them.                      *)
LEMMA AboveIs ==
  ASSUME Inv, NEW k \in Kind, NEW n \in 0..Len(pool[k]), NEW h \in Above(k, n)
  PROVE  /\ h \in Helper /\ InPool(h) /\ Quiet(h) /\ helper[h] = "live"
         /\ \A c \in Call : HasHelper(c) => uses[c] # h
<1>1. pool[k] \in Seq(Helper) /\ Len(pool[k]) \in Nat
  BY LenProperties DEF Inv, TypeOK
<1>2. PICK i \in (n + 1)..Len(pool[k]) : h = pool[k][i]
  BY DEF Above
<1>3. i \in 1..Len(pool[k]) /\ h \in Helper
  BY <1>1, <1>2, ElementOfSeq
<1>4. InPool(h)
  BY <1>2, <1>3, Zenon DEF InPool
<1>5. \A c \in Call : HasHelper(c) => uses[c] # h
  BY <1>4, Zenon DEF Inv, Places, NotBoth
<1>6. helper[h] = "live"
  BY <1>3, <1>4 DEF Inv, Places, LiveInOnePlace
<1>7. Quiet(h)
  BY <1>3, <1>5 DEF Inv, HelperOK, HasHelper
<1> QED BY <1>3, <1>4, <1>5, <1>6, <1>7

(* Taking them out of the pool and freeing them disturbs nobody.           *)
LEMMA DropStep ==
  ASSUME Inv, NEW k \in Kind, NEW n \in 0..Len(pool[k]),
         pool' = [pool EXCEPT ![k] = SubSeq(pool[k], 1, n)], Free(Above(k, n)),
         UNCHANGED <<uses, backend, helper_loop, current_slot, slot_id, aio,
                     result, aio_msg, loop, path, pending, soon>>,
         \A c \in Call : call'[c] = call[c] \/ (call[c] = "new" /\ call'[c] = "ended")
  PROVE  /\ Places' /\ RoomToRelease' /\ aio_map' = aio_map
         /\ \A h \in Helper : HelperOK(h)'
         /\ pool' \in [Kind -> Seq(Helper)]
         /\ \A l \in Kind : Len(pool'[l]) =< MaxPool
         /\ helper' \in [Helper -> {"unborn", "live", "freed"}]
<1>1. /\ helper' = [h \in Helper |-> IF h \in Above(k, n) THEN "freed" ELSE helper[h]]
      /\ aio_map' = aio_map \ Above(k, n)
  BY DEF Free
<1>2. PoolType /\ OneIndexEach
  BY DEF Inv, TypeOK, PoolType, Places
<1>3. /\ PoolType' /\ OneIndexEach'
      /\ \A l \in Kind : Len(pool'[l]) =< Len(pool[l])
      /\ \A h : InPool(h)' <=>
           InPool(h) /\ ~\E i \in (n + 1)..Len(pool[k]) : pool[k][i] = h
  BY <1>2, PoolKeeps
<1>4. \A h : InPool(h)' <=> InPool(h) /\ h \notin Above(k, n)
  BY <1>3, AboveMember, Zenon
<1>5. aio_map' = aio_map
  BY <1>1, AboveIs DEF Quiet
<1>6. \A c \in Call : /\ HasHelper(c)' <=> HasHelper(c)
                      /\ call'[c] = "waiting" <=> call[c] = "waiting"
                      /\ call'[c] = "releasing" <=> call[c] = "releasing"
  BY DEF HasHelper
<1>7. OneCallEach'
  BY <1>6 DEF Inv, Places, OneCallEach
<1>8. NotBoth'
  BY <1>4, <1>6 DEF Inv, Places, NotBoth
<1>9. LiveInOnePlace'
  <2> SUFFICES ASSUME NEW h \in Helper
               PROVE  helper'[h] = "live" <=>
                        InPool(h)' \/ \E c \in Call : HasHelper(c)' /\ uses'[c] = h
    BY DEF LiveInOnePlace
  <2>1. helper[h] = "live" <=>
          InPool(h) \/ \E c \in Call : HasHelper(c) /\ uses[c] = h
    BY DEF Inv, Places, LiveInOnePlace
  <2>2. CASE h \in Above(k, n)
    <3>1. \A c \in Call : HasHelper(c) => uses[c] # h
      BY <2>2, AboveIs
    <3> QED BY <1>1, <1>4, <1>6, <2>2, <3>1
  <2>3. CASE h \notin Above(k, n)
    BY <1>1, <1>4, <1>6, <2>1, <2>3
  <2> QED BY <2>2, <2>3
<1>10. Places'
  BY <1>3, <1>7, <1>8, <1>9 DEF Places
<1>11. \A l \in Kind : /\ Len(pool[l]) \in Nat /\ Len(pool'[l]) \in Nat
                       /\ Len(pool[l]) =< MaxPool
  BY <1>2, <1>3, LenProperties DEF PoolType, Inv, TypeOK
<1>12. RoomToRelease'
  <2>1. \A c, d \in Call : call'[c] = "releasing" /\ call'[d] = "releasing" => c = d
    BY <1>6 DEF Inv, RoomToRelease
  <2>2. ASSUME NEW c \in Call, call'[c] = "releasing"
        PROVE  Len(pool'[KindOf(c)]) < MaxPool
    <3>1. Len(pool[KindOf(c)]) < MaxPool
      BY <1>6, <2>2 DEF Inv, RoomToRelease
    <3>2. KindOf(c) \in Kind
      BY DEF KindOf, Kind
    <3> QED BY <1>3, <1>11, <3>1, <3>2, PoolAssumption
  <2> QED BY <2>1, <2>2 DEF RoomToRelease
<1>13. \A l \in Kind : Len(pool'[l]) =< MaxPool
  BY <1>3, <1>11, PoolAssumption
<1>14. ASSUME NEW h \in Helper
       PROVE  HelperOK(h)'
  <2>1. Quiet(h)' <=> Quiet(h)
    BY <1>5 DEF Quiet
  <2>2. HelperOK(h)
    BY DEF Inv
  <2>3. helper'[h] = "unborn" => helper[h] = "unborn"
    BY <1>1
  <2> QED BY <1>4, <1>6, <2>1, <2>2, <2>3 DEF HelperOK
<1>15. helper' \in [Helper -> {"unborn", "live", "freed"}]
  BY <1>1 DEF Inv, TypeOK
<1> QED BY <1>3, <1>5, <1>10, <1>12, <1>13, <1>14, <1>15 DEF PoolType

(* close empties the pools from the top, one helper at a time.             *)
LEMMA DrainPoolStep ==
  ASSUME Inv, DrainPool
  PROVE  Inv'
<1>1. PICK k \in Kind : k = IF pool["recv"] # <<>> THEN "recv" ELSE "send"
  BY DEF Kind
<1>2. UNCHANGED <<call, uses, cancelled, outcome, future, owner, backend,
        helper_loop, current_slot, slot_id, aio, result, aio_msg, loop, slots,
        slot_counter, path, holder, pending, soon>>
  BY DEF DrainPool, callVars, aioVars, engineVars, queueVars
<1>3. /\ socket' \in {"open", "closing", "draining", "forgetting", "closed"}
      /\ \/ UNCHANGED <<pool, helper, aio_map>>
         \/ /\ pool[k] # <<>>
            /\ pool' = [pool EXCEPT ![k] = Front(pool[k])]
            /\ Free({Last(pool[k])})
  BY <1>1 DEF DrainPool, Inv, TypeOK
<1>4. /\ Places' /\ RoomToRelease' /\ aio_map' = aio_map
      /\ \A h \in Helper : HelperOK(h)'
      /\ pool' \in [Kind -> Seq(Helper)]
      /\ \A l \in Kind : Len(pool'[l]) =< MaxPool
      /\ helper' \in [Helper -> {"unborn", "live", "freed"}]
  <2>1. CASE UNCHANGED <<pool, helper, aio_map>>
    <3>1. \A g \in Helper : Quiet(g) => Quiet(g)'
      BY <1>2, <2>1 DEF Quiet
    <3>2. Places' /\ RoomToRelease' /\ \A g \in Helper : HelperOK(g)'
      BY <1>2, <2>1, <3>1, MoveStep
    <3> QED BY <2>1, <3>2 DEF Inv, TypeOK
  <2>2. CASE /\ pool[k] # <<>>
             /\ pool' = [pool EXCEPT ![k] = Front(pool[k])]
             /\ Free({Last(pool[k])})
    <3>1. pool[k] \in Seq(Helper) /\ Len(pool[k]) \in Nat \ {0}
      BY <2>2, EmptySeq DEF Inv, TypeOK
    <3> DEFINE n == Len(pool[k]) - 1
    <3>2. n \in 0..Len(pool[k]) /\ (n + 1)..Len(pool[k]) = {Len(pool[k])}
      BY <3>1
    <3>3. Above(k, n) = {Last(pool[k])}
      BY <3>2, Zenon DEF Above, Last
    <3>4. pool' = [pool EXCEPT ![k] = SubSeq(pool[k], 1, n)]
      BY <2>2, Zenon DEF Front
    <3> HIDE DEF n
    <3> QED BY <1>2, <2>2, <3>2, <3>3, <3>4, DropStep
  <2> QED BY <1>3, <2>1, <2>2
<1>5. TypeOK'
  BY <1>2, <1>3, <1>4 DEF Inv, TypeOK, Occupied
<1>6. ASSUME NEW c \in Call
      PROVE  CallOK(c)'
  <2>1. SameCall(c)
    BY <1>2 DEF SameCall
  <2>2. CASE call[c] = "waiting"
    <3>1. PICK h \in Helper : uses[c] = h
      BY <2>2 DEF Inv, CallOK, WaitingOK
    <3>2. SameHelper(h) /\ SlotKept(c, current_slot[h])
      BY <1>2, <1>4 DEF SameHelper, SlotKept, Occupied
    <3> QED BY <1>2, <2>1, <2>2, <3>1, <3>2, WaitingKept DEF Inv
  <2>3. CASE call[c] # "waiting"
    BY <1>2, <2>1, <2>3, OtherKept DEF Inv
  <2> QED BY <2>2, <2>3
<1>7. SoonOnce'
  BY <1>2 DEF Inv, SoonOnce
<1> QED BY <1>4, <1>5, <1>6, <1>7 DEF Inv

(* A call on a closed context frees what it pops and raises.               *)
LEMMA BeginRefusedStep ==
  ASSUME Inv, NEW c \in Call, BeginRefused(c)
  PROVE  Inv'
<1>1. PICK k \in Kind : k = KindOf(c)
  BY DEF Kind, KindOf
<1>2. /\ call[c] = "new" /\ Valid(k) = {}
      /\ call' = [call EXCEPT ![c] = "ended"]
      /\ outcome' = [outcome EXCEPT ![c] = "refused"]
      /\ Free(Stale(k)) /\ pool' = [pool EXCEPT ![k] = <<>>]
      /\ UNCHANGED <<uses, cancelled, future, owner, backend, helper_loop,
           current_slot, slot_id, aio, result, aio_msg, loop, slots,
           slot_counter, path, holder, pending, soon, socket>>
  BY <1>1 DEF BeginRefused, aioVars, engineVars, queueVars
<1>3. /\ pool[k] \in Seq(Helper) /\ Len(pool[k]) \in Nat
      /\ 0 \in 0..Len(pool[k])
  BY LenProperties DEF Inv, TypeOK
<1>4. SubSeq(pool[k], 1, 0) = <<>>
  BY SubSeqEmpty
<1>5. Stale(k) = Above(k, 0)
  BY <1>2, Zenon DEF Stale, Above, Youngest
<1>6. \A d \in Call : call'[d] = call[d] \/ (call[d] = "new" /\ call'[d] = "ended")
  BY <1>2 DEF Inv, TypeOK
<1>7. /\ Places' /\ RoomToRelease' /\ aio_map' = aio_map
      /\ \A h \in Helper : HelperOK(h)'
      /\ pool' \in [Kind -> Seq(Helper)]
      /\ \A l \in Kind : Len(pool'[l]) =< MaxPool
      /\ helper' \in [Helper -> {"unborn", "live", "freed"}]
  BY <1>2, <1>3, <1>4, <1>5, <1>6, DropStep
<1>8. TypeOK'
  BY <1>2, <1>7 DEF Inv, TypeOK, Occupied
<1>9. ASSUME NEW d \in Call
      PROVE  CallOK(d)'
  <2>1. CASE d = c
    <3>1. call'[c] = "ended" /\ outcome'[c] = "refused"
      BY <1>2 DEF Inv, TypeOK
    <3>2. /\ uses[c] = NoHelper /\ future[c] = "none" /\ c \notin cancelled
          /\ Untouched(c)
      BY <1>2 DEF Inv, CallOK
    <3> QED BY <1>2, <2>1, <3>1, <3>2 DEF CallOK, Untouched
  <2>2. CASE d # c
    <3>1. SameCall(d)
      BY <1>2, <2>2 DEF SameCall, Inv, TypeOK
    <3>2. CASE call[d] = "waiting"
      <4>1. PICK h \in Helper : uses[d] = h
        BY <3>2 DEF Inv, CallOK, WaitingOK
      <4>2. SameHelper(h) /\ SlotKept(d, current_slot[h])
        BY <1>2, <1>7 DEF SameHelper, SlotKept, Occupied
      <4> QED BY <1>2, <3>1, <3>2, <4>1, <4>2, WaitingKept DEF Inv
    <3>3. CASE call[d] # "waiting"
      BY <1>2, <3>1, <3>3, OtherKept DEF Inv
    <3> QED BY <3>2, <3>3
  <2> QED BY <2>1, <2>2
<1>10. SoonOnce'
  BY <1>2 DEF Inv, SoonOnce
<1> QED BY <1>7, <1>8, <1>9, <1>10 DEF Inv

------------------------------------------------------------------------------
(* The end of a call.                                                      *)

(* The helper of a call goes into the pool, which has room for it.         *)
LEMMA ReleaseStep ==
  ASSUME Inv, NEW c \in Call, Release(c)
  PROVE  Inv'
<1>1. PICK g \in Helper : uses[c] = g
  BY DEF Release, Inv, CallOK
<1>2. PICK k \in Kind : k = KindOf(c)
  BY DEF Kind, KindOf
<1>3. /\ call[c] = "releasing"
      /\ call' = [call EXCEPT ![c] = "ended"]
      /\ pool' = [pool EXCEPT ![k] = Append(pool[k], g)]
      /\ UNCHANGED <<uses, cancelled, outcome, future, owner, helper, backend,
           helper_loop, current_slot, slot_id, aio_map, aio, result, aio_msg,
           loop, slots, slot_counter, path, holder, pending, soon, socket>>
  BY <1>1, <1>2 DEF Release, helperVars, aioVars, engineVars, queueVars
<1>4. /\ call'[c] = "ended"
      /\ \A d \in Call : d # c => call'[d] = call[d]
  BY <1>3 DEF Inv, TypeOK
<1>5. PoolType /\ OneIndexEach /\ ~InPool(g)
  BY <1>1, <1>3 DEF Inv, TypeOK, PoolType, Places, NotBoth, HasHelper
<1>6. /\ PoolType' /\ OneIndexEach'
      /\ Len(pool'[k]) = Len(pool[k]) + 1
      /\ \A l \in Kind : l # k => pool'[l] = pool[l]
      /\ \A h : InPool(h)' <=> InPool(h) \/ h = g
  BY <1>3, <1>5, PoolGains
<1>7. /\ \A d \in Call : HasHelper(d)' <=> HasHelper(d) /\ d # c
      /\ HasHelper(c)
      /\ \A d \in Call : d # c /\ HasHelper(d) => uses[d] # g
  <2>1. HasHelper(c) /\ ~HasHelper(c)'
    BY <1>3, <1>4 DEF HasHelper
  <2>2. \A d \in Call : d # c => (HasHelper(d)' <=> HasHelper(d))
    BY <1>4 DEF HasHelper
  <2>3. \A d \in Call : d # c /\ HasHelper(d) => uses[d] # g
    BY <1>1, <2>1, CallsApart DEF Inv
  <2> QED BY <2>1, <2>2, <2>3
<1>8. TypeOK'
  <2>1. \A l \in Kind : Len(pool'[l]) <= MaxPool
    <3>1. Len(pool[k]) \in Nat /\ Len(pool[k]) < MaxPool
      BY <1>2, <1>3, LenProperties DEF Inv, TypeOK, RoomToRelease
    <3>2. \A l \in Kind : Len(pool[l]) <= MaxPool
      BY DEF Inv, TypeOK
    <3> QED BY <1>6, <3>1, <3>2, PoolAssumption
  <2>2. call' \in [Call -> {"new", "waiting", "releasing", "ended"}]
    BY <1>3 DEF Inv, TypeOK
  <2> QED BY <1>3, <1>6, <2>1, <2>2 DEF Inv, TypeOK, Occupied, PoolType
<1>9. Places'
  <2>1. OneCallEach' /\ NotBoth'
    BY <1>3, <1>6, <1>7 DEF Inv, Places, OneCallEach, NotBoth
  <2>2. LiveInOnePlace'
    <3> SUFFICES ASSUME NEW h \in Helper
                 PROVE  helper'[h] = "live" <=>
                          InPool(h)' \/ \E d \in Call : HasHelper(d)' /\ uses'[d] = h
      BY DEF LiveInOnePlace
    <3>1. helper[h] = "live" <=>
            InPool(h) \/ \E d \in Call : HasHelper(d) /\ uses[d] = h
      BY DEF Inv, Places, LiveInOnePlace
    <3> QED BY <1>1, <1>3, <1>6, <1>7, <3>1
  <2> QED BY <1>6, <2>1, <2>2 DEF Places
<1>10. RoomToRelease'
  BY <1>3, <1>4 DEF Inv, RoomToRelease
<1>11. ASSUME NEW h \in Helper
       PROVE  HelperOK(h)'
  <2>1. HelperOK(h)
    BY DEF Inv
  <2>2. Quiet(h)' <=> Quiet(h)
    BY <1>3 DEF Quiet
  <2>3. (\E d \in Call : call[d] = "waiting" /\ uses[d] = h) =>
          \E d \in Call : call'[d] = "waiting" /\ uses'[d] = h
    <3>1. \A d \in Call : call[d] = "waiting" => call'[d] = "waiting"
      BY <1>3, <1>4
    <3> QED BY <1>3, <3>1
  <2>4. InPool(h)' => backend[h] = "native"
    BY <1>1, <1>3, <1>6, <2>1 DEF HelperOK, Inv, CallOK
  <2> QED BY <1>3, <2>1, <2>2, <2>3, <2>4 DEF HelperOK
<1>12. ASSUME NEW d \in Call
       PROVE  CallOK(d)'
  <2>1. CASE d = c
    BY <1>3, <1>4, <2>1 DEF Inv, CallOK, Settled
  <2>2. CASE d # c
    <3>1. SameCall(d)
      BY <1>3, <1>4, <2>2 DEF SameCall
    <3>2. CASE call[d] = "waiting"
      <4>1. PICK h \in Helper : uses[d] = h
        BY <3>2 DEF Inv, CallOK, WaitingOK
      <4>2. SameHelper(h) /\ SlotKept(d, current_slot[h])
        BY <1>3 DEF SameHelper, SlotKept, Occupied
      <4> QED BY <1>3, <3>1, <3>2, <4>1, <4>2, WaitingKept DEF Inv
    <3>3. CASE call[d] # "waiting"
      BY <1>3, <3>1, <3>3, OtherKept DEF Inv
    <3> QED BY <3>2, <3>3
  <2> QED BY <2>1, <2>2
<1>13. SoonOnce'
  BY <1>3 DEF Inv, SoonOnce
<1> QED BY <1>8, <1>9, <1>10, <1>11, <1>12, <1>13 DEF Inv

(* What the await raised or returned, and where the message went.          *)
LEMMA OutcomeSettles ==
  ASSUME Inv, NEW c \in Call, NEW h \in Helper, uses[c] = h, call[c] = "waiting",
         future[c] = "done", SettleMessage(c)
  PROVE  /\ Settled(c, owner'[c], OutcomeOf(c), backend[h])
         /\ owner'[c] \in {"peer", "caller", "aio", "nng", "freed"}
         /\ aio_msg' = [aio_msg EXCEPT ![h] = NoCall]
         /\ \A d \in Call : d # c => owner'[d] = owner[d]
         /\ owner' \in [Call -> {"peer", "caller", "aio", "nng", "freed"}]
<1>1. /\ aio_msg' = [aio_msg EXCEPT ![h] = NoCall]
      /\ owner' = [owner EXCEPT ![c] =
                     IF aio_msg[h] # c THEN @
                     ELSE IF OutcomeOf(c) = "ok" THEN "caller" ELSE "freed"]
  BY DEF SettleMessage
<1>2. owner \in [Call -> {"peer", "caller", "aio", "nng", "freed"}]
  BY DEF Inv, TypeOK
<1>3. /\ owner' \in [Call -> {"peer", "caller", "aio", "nng", "freed"}]
      /\ owner'[c] = IF aio_msg[h] # c THEN owner[c]
                     ELSE IF OutcomeOf(c) = "ok" THEN "caller" ELSE "freed"
      /\ \A d \in Call : d # c => owner'[d] = owner[d]
  BY <1>1, <1>2
<1>4. WaitingOK(c, h) /\ aio[h] = "idle"
  BY DEF Inv, CallOK, WaitingOK, Delivery
<1>5. Progress(c \in RecvCall, aio[h], result[h], aio_msg[h], owner[c], c)
      /\ (result[h] = "canceled" => c \in cancelled)
  BY <1>4 DEF WaitingOK
<1>6. NoCall # c
  BY CallAssumption
<1>7. \/ /\ result[h] = "ok"
         /\ IF c \in RecvCall THEN aio_msg[h] = c ELSE aio_msg[h] # c /\ owner[c] = "nng"
      \/ /\ result[h] \in {"timeout", "closed", "canceled"}
         /\ IF c \in RecvCall THEN aio_msg[h] # c /\ owner[c] = "peer"
            ELSE aio_msg[h] = c
  BY <1>4, <1>5, <1>6 DEF Progress
<1>8. OutcomeOf(c) = IF result[h] = "canceled" \/ (backend[h] # "trio" /\ c \in cancelled)
                     THEN "cancelled" ELSE result[h]
  BY DEF OutcomeOf, TrioOutcome, AsyncioOutcome
<1>9. Settled(c, owner'[c], OutcomeOf(c), backend[h])
  <2>1. CASE result[h] = "ok"
    BY <1>3, <1>7, <1>8, <2>1 DEF Settled
  <2>2. CASE result[h] # "ok"
    BY <1>3, <1>5, <1>7, <1>8, <2>2 DEF Settled
  <2> QED BY <2>1, <2>2
<1> QED BY <1>1, <1>2, <1>3, <1>9

(* A call whose completion arrived ends, and its helper has nothing under  *)
(* way any more.                                                           *)
LEMMA ResumeStep ==
  ASSUME Inv, NEW c \in Call, Resume(c)
  PROVE  Inv'
<1>1. PICK h \in Helper : uses[c] = h
  BY DEF Resume, Inv, CallOK, WaitingOK
<1>2. PICK keeps \in BOOLEAN : keeps <=> Keeps(c)
  OBVIOUS
<1>3. /\ call[c] = "waiting" /\ future[c] = "done"
      /\ \A d \in Call : call[d] # "releasing"
      /\ future' = [future EXCEPT ![c] = "none"]
      /\ slots' = [s \in Occupied \ {current_slot[h]} |-> slots[s]]
      /\ current_slot' = [current_slot EXCEPT ![h] = 0]
      /\ slot_id' = [slot_id EXCEPT ![h] = 0]
      /\ outcome' = [outcome EXCEPT ![c] = OutcomeOf(c)]
      /\ call' = [call EXCEPT ![c] = IF keeps THEN "releasing" ELSE "ended"]
      /\ helper' = [g \in Helper |-> IF g \in (IF keeps THEN {} ELSE {h})
                                     THEN "freed" ELSE helper[g]]
      /\ aio_map' = aio_map \ (IF keeps THEN {} ELSE {h})
      /\ UNCHANGED <<uses, cancelled, backend, helper_loop, aio, result, pool, loop,
           path, holder, slot_counter, pending, soon, socket>>
  BY <1>1, <1>2 DEF Resume, LoopIdle, ClearSlot, ReleaseHelper, Free, queueVars
<1>4. /\ WaitingOK(c, h) /\ aio[h] = "idle" /\ ~Contains(pending, h)
      /\ ~Contains(soon, h) /\ h \notin aio_map /\ current_slot[h] \notin Occupied
  <2>1. WaitingOK(c, h)
    BY <1>1, <1>3 DEF Inv, CallOK
  <2>2. aio[h] = "idle" /\ ~Contains(pending, h) /\ ~Contains(soon, h) /\ h \notin aio_map
    BY <1>3, <2>1 DEF WaitingOK, Delivery
  <2>3. current_slot[h] \notin Occupied
    <3>1. 0 \notin Occupied
      BY SlotAssumption DEF Inv, TypeOK
    <3> QED BY <1>3, <2>1, <3>1 DEF WaitingOK, SlotOK
  <2> QED BY <2>1, <2>2, <2>3
<1>5. /\ Settled(c, owner'[c], OutcomeOf(c), backend[h])
      /\ aio_msg' = [aio_msg EXCEPT ![h] = NoCall]
      /\ \A d \in Call : d # c => owner'[d] = owner[d]
      /\ owner' \in [Call -> {"peer", "caller", "aio", "nng", "freed"}]
  BY <1>1, <1>3, OutcomeSettles DEF Resume
<1>6. /\ Occupied' = Occupied /\ aio_map' = aio_map
      /\ \A s \in Occupied : slots'[s] = slots[s]
  <2>1. Occupied \ {current_slot[h]} = Occupied
    BY <1>4
  <2>2. slots' = [s \in Occupied |-> slots[s]]
    BY <1>3, <2>1
  <2>3. aio_map' = aio_map
    BY <1>3, <1>4
  <2> QED BY <2>2, <2>3, Zenon DEF Occupied
<1>7. /\ call'[c] = IF keeps THEN "releasing" ELSE "ended"
      /\ future'[c] = "none" /\ outcome'[c] = OutcomeOf(c)
      /\ \A d \in Call : d # c => /\ call'[d] = call[d] /\ future'[d] = future[d]
                                  /\ outcome'[d] = outcome[d]
      /\ current_slot'[h] = 0 /\ slot_id'[h] = 0 /\ aio_msg'[h] = NoCall
      /\ \A g \in Helper : g # h => /\ current_slot'[g] = current_slot[g]
                                    /\ slot_id'[g] = slot_id[g]
                                    /\ aio_msg'[g] = aio_msg[g]
                                    /\ helper'[g] = helper[g]
      /\ helper'[h] = IF keeps THEN helper[h] ELSE "freed"
  BY <1>3, <1>5 DEF Inv, TypeOK
<1>8. TypeOK'
  <2>1. OutcomeOf(c) \in {"none", "ok", "timeout", "closed", "cancelled", "refused"}
    BY <1>5 DEF Settled
  <2>2. /\ call' \in [Call -> {"new", "waiting", "releasing", "ended"}]
        /\ future' \in [Call -> {"none", "pending", "done"}]
    BY <1>3 DEF Inv, TypeOK
  <2>3. outcome' \in [Call -> {"none", "ok", "timeout", "closed", "cancelled", "refused"}]
    BY <1>3, <2>1 DEF Inv, TypeOK
  <2>4. /\ current_slot' \in [Helper -> 0..MaxSlot] /\ slot_id' \in [Helper -> 0..MaxSlot]
    BY <1>3, SlotAssumption DEF Inv, TypeOK
  <2>5. aio_msg' \in [Helper -> Call \cup {NoCall}]
    BY <1>5 DEF Inv, TypeOK
  <2>6. helper' \in [Helper -> {"unborn", "live", "freed"}]
    BY <1>3 DEF Inv, TypeOK
  <2>7. Occupied' \subseteq 1..MaxSlot /\ \A s \in Occupied' : slots'[s] \in Call
    BY <1>6 DEF Inv, TypeOK
  <2> QED BY <1>3, <1>5, <1>6, <2>2, <2>3, <2>4, <2>5, <2>6, <2>7 DEF Inv, TypeOK
<1>9. /\ HasHelper(c) /\ (HasHelper(c)' <=> keeps)
      /\ \A d \in Call : d # c => (HasHelper(d)' <=> HasHelper(d))
      /\ \A d \in Call : d # c /\ HasHelper(d) => uses[d] # h
      /\ ~InPool(h) /\ (\A g : InPool(g)' <=> InPool(g))
  <2>1. HasHelper(c) /\ (HasHelper(c)' <=> keeps)
    BY <1>3, <1>7 DEF HasHelper
  <2>2. \A d \in Call : d # c => (HasHelper(d)' <=> HasHelper(d))
    BY <1>7 DEF HasHelper
  <2>3. \A d \in Call : d # c /\ HasHelper(d) => uses[d] # h
    BY <1>1, <2>1, CallsApart DEF Inv
  <2>4. ~InPool(h)
    BY <1>1, <2>1 DEF Inv, Places, NotBoth
  <2>5. \A g : InPool(g)' <=> InPool(g)
    BY <1>3 DEF InPool
  <2> QED BY <2>1, <2>2, <2>3, <2>4, <2>5
<1>10. Places'
  <2>1. OneCallEach' /\ NotBoth'
    BY <1>3, <1>9 DEF Inv, Places, OneCallEach, NotBoth
  <2>2. OneIndexEach'
    BY <1>3 DEF Inv, Places, OneIndexEach
  <2>3. LiveInOnePlace'
    <3> SUFFICES ASSUME NEW g \in Helper
                 PROVE  helper'[g] = "live" <=>
                          InPool(g)' \/ \E d \in Call : HasHelper(d)' /\ uses'[d] = g
      BY DEF LiveInOnePlace
    <3>1. helper[g] = "live" <=>
            InPool(g) \/ \E d \in Call : HasHelper(d) /\ uses[d] = g
      BY DEF Inv, Places, LiveInOnePlace
    <3>2. CASE g = h
      BY <1>1, <1>3, <1>7, <1>9, <3>1, <3>2
    <3>3. CASE g # h
      BY <1>1, <1>3, <1>7, <1>9, <3>1, <3>3
    <3> QED BY <3>2, <3>3
  <2> QED BY <2>1, <2>2, <2>3 DEF Places
<1>11. RoomToRelease'
  <2>1. \A d \in Call : call'[d] = "releasing" => d = c /\ keeps
    BY <1>3, <1>7
  <2>2. keeps => Len(pool'[KindOf(c)]) < MaxPool
    BY <1>2, <1>3 DEF Keeps
  <2> QED BY <2>1, <2>2 DEF RoomToRelease
<1>12. ASSUME NEW g \in Helper
       PROVE  HelperOK(g)'
  <2>1. HelperOK(g)
    BY DEF Inv
  <2>2. helper'[g] = "unborn" => helper[g] = "unborn"
    BY <1>7
  <2>3. CASE g = h
    <3>1. Quiet(g)'
      BY <1>3, <1>4, <1>6, <1>7, <2>3 DEF Quiet
    <3> QED BY <1>3, <1>9, <2>1, <2>2, <3>1 DEF HelperOK
  <2>4. CASE g # h
    <3>1. Quiet(g)' <=> Quiet(g)
      BY <1>3, <1>6, <1>7, <2>4 DEF Quiet
    <3>2. (\E d \in Call : call[d] = "waiting" /\ uses[d] = g) =>
            \E d \in Call : call'[d] = "waiting" /\ uses'[d] = g
      BY <1>1, <1>3, <1>7, <2>4
    <3> QED BY <1>3, <1>9, <2>1, <2>2, <3>1, <3>2 DEF HelperOK
  <2> QED BY <2>3, <2>4
<1>13. ASSUME NEW d \in Call
       PROVE  CallOK(d)'
  <2>1. CASE d = c
    <3>1. /\ uses'[c] = h /\ backend'[h] = backend[h] /\ cancelled' = cancelled
          /\ outcome'[c] = OutcomeOf(c) /\ future'[c] = "none"
          /\ call'[c] = IF keeps THEN "releasing" ELSE "ended"
      BY <1>1, <1>3, <1>7
    <3>2. Settled(c, owner[c], outcome[c], backend[uses[c]])'
      BY <1>5, <3>1 DEF Settled
    <3>3. keeps => backend'[uses'[c]] = "native"
      BY <1>1, <1>2, <3>1 DEF Keeps
    <3> QED BY <2>1, <3>1, <3>2, <3>3 DEF CallOK
  <2>2. CASE d # c
    <3>1. SameCall(d)
      BY <1>3, <1>5, <1>7, <2>2 DEF SameCall
    <3>2. CASE call[d] = "waiting"
      <4>1. PICK g \in Helper : uses[d] = g
        BY <3>2 DEF Inv, CallOK, WaitingOK
      <4>2. g # h
        BY <1>9, <2>2, <3>2, <4>1 DEF HasHelper
      <4>3. SameHelper(g) /\ SlotKept(d, current_slot[g])
        BY <1>3, <1>6, <1>7, <4>2 DEF SameHelper, SlotKept
      <4> QED BY <1>3, <3>1, <3>2, <4>1, <4>3, WaitingKept DEF Inv
    <3>3. CASE call[d] # "waiting"
      BY <1>3, <3>1, <3>3, OtherKept DEF Inv
    <3> QED BY <3>2, <3>3
  <2> QED BY <2>1, <2>2
<1>14. SoonOnce'
  BY <1>3 DEF Inv, SoonOnce
<1> QED BY <1>8, <1>10, <1>11, <1>12, <1>13, <1>14 DEF Inv

------------------------------------------------------------------------------
(* The beginning of a call.                                                *)

(* A helper that was acquired has nothing under way, no call has it, and   *)
(* its engine is that of this loop.                                        *)
Fresh(h) ==
  /\ Quiet(h)
  /\ \A c \in Call : HasHelper(c) => uses[c] # h
  /\ \A c \in Call : uses[c] = h => backend'[h] = backend[h]
  /\ backend'[h] = path /\ helper_loop'[h] = loop
  /\ h \in aio_map' <=> path # "native"
  /\ \A g \in Helper : g # h => /\ backend'[g] = backend[g]
                                /\ helper_loop'[g] = helper_loop[g]
                                /\ g \in aio_map' <=> g \in aio_map

(* What acquiring does to the pool of kind k, whose oldest n helpers stay. *)
TakenFrom(k, n, h) ==
  /\ pool' = [pool EXCEPT ![k] = SubSeq(pool[k], 1, n)]
  /\ helper' = [g \in Helper |-> IF g = h THEN "live"
                                 ELSE IF g \in Above(k, n) THEN "freed"
                                 ELSE helper[g]]
  /\ h \in Above(k, n) \/ helper[h] = "unborn"

(* A helper is made, or the youngest valid one is taken from the pool, and *)
(* what was above it is freed.                                             *)
LEMMA AcquireIs ==
  ASSUME Inv, NEW k \in Kind, NEW h \in Helper, Acquire(k, h)
  PROVE  /\ Fresh(h)
         /\ \E n \in 0..Len(pool[k]) : TakenFrom(k, n, h)
         /\ backend' \in [Helper -> Path \cup {"none"}]
         /\ helper_loop' \in [Helper -> 0..MaxLoop]
         /\ aio_map' \subseteq Helper
<1>1. /\ backend \in [Helper -> Path \cup {"none"}] /\ path \in Path
      /\ helper_loop \in [Helper -> 0..MaxLoop] /\ loop \in 1..MaxLoop
      /\ aio_map \subseteq Helper
      /\ pool[k] \in Seq(Helper) /\ Len(pool[k]) \in Nat
  BY LenProperties DEF Inv, TypeOK
<1>2. HelperOK(h)
  BY DEF Inv
<1>3. /\ pool' = [pool EXCEPT ![k] = SubSeq(pool[k], 1, Youngest(k) - 1)]
      /\ helper' = [g \in Helper |-> IF g \in Stale(k) THEN "freed"
                                     ELSE IF g = h THEN "live" ELSE helper[g]]
  BY DEF Acquire
<1>4. CASE Youngest(k) = 0
  <2>1. /\ helper[h] = "unborn"
        /\ helper_loop' = [helper_loop EXCEPT ![h] = loop]
        /\ backend' = [backend EXCEPT ![h] = path]
        /\ aio_map' = IF path = "native" THEN aio_map ELSE aio_map \cup {h}
    BY <1>4 DEF Acquire, Make
  <2>2. /\ ~InPool(h)
        /\ \A c \in Call : HasHelper(c) => uses[c] # h
        /\ \A c \in Call : uses[c] # h
    BY <1>2, <2>1 DEF Inv, Places, LiveInOnePlace, HelperOK
  <2>3. Quiet(h)
    BY <1>2, <2>2 DEF HelperOK, HasHelper
  <2>4. Fresh(h)
    <3>1. \A g \in Helper : g # h => /\ backend'[g] = backend[g]
                                     /\ helper_loop'[g] = helper_loop[g]
                                     /\ g \in aio_map' <=> g \in aio_map
      BY <1>1, <2>1
    <3>2. backend'[h] = path /\ helper_loop'[h] = loop
          /\ (h \in aio_map' <=> path # "native")
      BY <1>1, <2>1, <2>3 DEF Quiet
    <3> QED BY <2>2, <2>3, <3>1, <3>2 DEF Fresh
  <2>5. Stale(k) = Above(k, 0) /\ 0 \in 0..Len(pool[k])
    BY <1>1, <1>4 DEF Stale, Above
  <2>6. h \notin Above(k, 0)
    BY <2>1, <2>5, AboveIs
  <2>7. TakenFrom(k, 0, h)
    <3>1. SubSeq(pool[k], 1, 0 - 1) = <<>> /\ SubSeq(pool[k], 1, 0) = <<>>
      BY SubSeqEmpty
    <3>2. helper' = [g \in Helper |-> IF g = h THEN "live"
                                      ELSE IF g \in Above(k, 0) THEN "freed"
                                      ELSE helper[g]]
      BY <1>3, <2>5, <2>6
    <3> QED BY <1>3, <1>4, <2>1, <3>1, <3>2 DEF TakenFrom
  <2>8. /\ backend' \in [Helper -> Path \cup {"none"}]
        /\ helper_loop' \in [Helper -> 0..MaxLoop]
        /\ aio_map' \subseteq Helper
    BY <1>1, <2>1
  <2> QED BY <2>4, <2>5, <2>7, <2>8
<1>5. CASE Youngest(k) # 0
  <2> DEFINE n == Youngest(k) - 1
  <2>1. /\ h = pool[k][Youngest(k)] /\ IsValid(h)
        /\ Youngest(k) \in 1..Len(pool[k])
        /\ UNCHANGED <<helper_loop, backend, aio_map>>
    <3>1. h = pool[k][Youngest(k)] /\ UNCHANGED <<helper_loop, backend, aio_map>>
      BY <1>5 DEF Acquire
    <3>2. PoolType
      BY DEF Inv, TypeOK, PoolType
    <3> QED BY <1>5, <3>1, <3>2, YoungestIs
  <2>2. /\ n \in 0..Len(pool[k]) /\ Youngest(k) = n + 1
        /\ (n + 1)..Len(pool[k]) = {n + 1} \cup ((n + 2)..Len(pool[k]))
        /\ Youngest(k) + 1 = n + 2 /\ n + 1 \notin (n + 2)..Len(pool[k])
        /\ \A i \in (n + 2)..Len(pool[k]) : i \in 1..Len(pool[k])
        /\ n + 1 \in 1..Len(pool[k])
    BY <1>1, <2>1
  <2> HIDE DEF n
  <2>3. Above(k, n) = Stale(k) \cup {h}
    BY <2>1, <2>2 DEF Above, Stale
  <2>4. h \in Above(k, n)
    BY <2>3
  <2>5. /\ InPool(h) /\ Quiet(h)
        /\ \A c \in Call : HasHelper(c) => uses[c] # h
    BY <2>2, <2>4, AboveIs
  <2>6. h \notin Stale(k)
    <3>1. ASSUME NEW i \in (n + 2)..Len(pool[k]), pool[k][i] = h
          PROVE  FALSE
      <4>1. i = n + 1
        BY <2>1, <2>2, <3>1, SameIndex DEF Inv, Places
      <4> QED BY <2>2, <4>1
    <3> QED BY <2>2, <3>1, Zenon DEF Stale
  <2>7. TakenFrom(k, n, h)
    <3>1. helper' = [g \in Helper |-> IF g = h THEN "live"
                                      ELSE IF g \in Above(k, n) THEN "freed"
                                      ELSE helper[g]]
      BY <1>3, <2>3, <2>6
    <3> QED BY <1>3, <2>4, <3>1, Zenon DEF TakenFrom, n
  <2>8. Fresh(h)
    <3>1. backend[h] = "native" /\ helper_loop[h] = loop /\ path = "native"
      BY <1>2, <2>1 DEF IsValid, HelperOK
    <3>2. h \notin aio_map
      BY <2>5 DEF Quiet
    <3> QED BY <2>1, <2>5, <3>1, <3>2 DEF Fresh
  <2> QED BY <1>1, <2>1, <2>2, <2>7, <2>8
<1> QED BY <1>4, <1>5

(* Everybody else keeps their place.                                       *)
LEMMA BeginPlaces ==
  ASSUME Inv, NEW c \in Call, call[c] = "new", LoopIdle,
         NEW k \in Kind, NEW h \in Helper, NEW n \in 0..Len(pool[k]),
         Fresh(h), TakenFrom(k, n, h),
         call' = [call EXCEPT ![c] = "waiting"], uses' = [uses EXCEPT ![c] = h]
  PROVE  /\ Places' /\ RoomToRelease'
         /\ \A g : InPool(g)' => InPool(g) /\ g # h
         /\ pool' \in [Kind -> Seq(Helper)]
         /\ \A l \in Kind : Len(pool'[l]) =< MaxPool
         /\ \A d \in Call : d # c /\ HasHelper(d) => uses[d] # h
<1>1. PoolType /\ OneIndexEach
  BY DEF Inv, TypeOK, PoolType, Places
<1>2. /\ PoolType' /\ OneIndexEach'
      /\ \A l \in Kind : Len(pool'[l]) =< Len(pool[l])
      /\ \A g : InPool(g)' <=>
           InPool(g) /\ ~\E i \in (n + 1)..Len(pool[k]) : pool[k][i] = g
  BY <1>1, PoolKeeps DEF TakenFrom
<1>3. \A g : InPool(g)' <=> InPool(g) /\ g \notin Above(k, n)
  BY <1>2, AboveMember, Zenon
<1>4. ~InPool(h)'
  <2>1. CASE h \in Above(k, n)
    BY <1>3, <2>1
  <2>2. CASE helper[h] = "unborn"
    BY <1>3, <2>2 DEF Inv, Places, LiveInOnePlace
  <2> QED BY <2>1, <2>2 DEF TakenFrom
<1>5. /\ call'[c] = "waiting" /\ uses'[c] = h
      /\ \A d \in Call : d # c => call'[d] = call[d] /\ uses'[d] = uses[d]
  BY DEF Inv, TypeOK
<1>6. /\ HasHelper(c)' /\ ~HasHelper(c)
      /\ \A d \in Call : d # c => (HasHelper(d)' <=> HasHelper(d))
      /\ \A d \in Call : HasHelper(d) => uses[d] # h
  BY <1>5 DEF HasHelper, Fresh
<1>7. OneCallEach'
  BY <1>5, <1>6 DEF Inv, Places, OneCallEach
<1>8. NotBoth'
  BY <1>3, <1>4, <1>5, <1>6 DEF Inv, Places, NotBoth
<1>9. LiveInOnePlace'
  <2> SUFFICES ASSUME NEW g \in Helper
               PROVE  helper'[g] = "live" <=>
                        InPool(g)' \/ \E d \in Call : HasHelper(d)' /\ uses'[d] = g
    BY DEF LiveInOnePlace
  <2>1. helper[g] = "live" <=>
          InPool(g) \/ \E d \in Call : HasHelper(d) /\ uses[d] = g
    BY DEF Inv, Places, LiveInOnePlace
  <2>2. helper'[g] = IF g = h THEN "live"
                     ELSE IF g \in Above(k, n) THEN "freed" ELSE helper[g]
    BY DEF TakenFrom
  <2>3. CASE g = h
    BY <1>5, <1>6, <2>2, <2>3
  <2>4. CASE g # h /\ g \in Above(k, n)
    <3>1. \A d \in Call : HasHelper(d) => uses[d] # g
      BY <2>4, AboveIs
    <3> QED BY <1>3, <1>5, <1>6, <2>2, <2>4, <3>1
  <2>5. CASE g # h /\ g \notin Above(k, n)
    <3>1. (\E d \in Call : HasHelper(d)' /\ uses'[d] = g)
            <=> \E d \in Call : HasHelper(d) /\ uses[d] = g
      BY <1>5, <1>6, <2>5
    <3> QED BY <1>3, <2>1, <2>2, <2>5, <3>1
  <2> QED BY <2>3, <2>4, <2>5
<1>10. Places'
  BY <1>2, <1>7, <1>8, <1>9 DEF Places
<1>11. RoomToRelease'
  BY <1>5 DEF RoomToRelease, LoopIdle
<1>12. \A l \in Kind : Len(pool'[l]) =< MaxPool
  <2>1. \A l \in Kind : /\ Len(pool[l]) \in Nat /\ Len(pool'[l]) \in Nat
                        /\ Len(pool[l]) =< MaxPool
    BY <1>1, <1>2, LenProperties DEF PoolType, Inv, TypeOK
  <2> QED BY <1>2, <2>1, PoolAssumption
<1> QED BY <1>2, <1>3, <1>4, <1>6, <1>10, <1>11, <1>12 DEF PoolType

(* The call gets a future and, on the native path, a slot nobody has.      *)
LEMMA PrepareIs ==
  ASSUME Inv, NEW c \in Call, NEW h \in Helper, SlotsSuffice, Quiet(h), Prepare(c, h)
  PROVE  /\ future' = [future EXCEPT ![c] = "pending"]
         /\ Occupied' \subseteq 1..MaxSlot /\ \A s \in Occupied' : slots'[s] \in Call
         /\ slot_counter' \in 0..MaxSlot
         /\ current_slot' \in [Helper -> 0..MaxSlot]
         /\ slot_id' \in [Helper -> 0..MaxSlot]
         /\ slot_id'[h] = current_slot'[h]
         /\ path = "native" => /\ current_slot'[h] \in 1..MaxSlot
                               /\ current_slot'[h] \in Occupied'
                               /\ slots'[current_slot'[h]] = c
         /\ path # "native" => current_slot'[h] = 0
         /\ \A g \in Helper : g # h => /\ current_slot'[g] = current_slot[g]
                                       /\ slot_id'[g] = slot_id[g]
         /\ \A g \in Helper, d \in Call : SlotKept(d, current_slot[g])
<1>1. /\ slot_counter \in 0..MaxSlot /\ Occupied \subseteq 1..MaxSlot
      /\ \A s \in Occupied : slots[s] \in Call
      /\ current_slot \in [Helper -> 0..MaxSlot] /\ slot_id \in [Helper -> 0..MaxSlot]
      /\ current_slot[h] = 0 /\ slot_id[h] = 0
  BY DEF Inv, TypeOK, Quiet
<1>2. future' = [future EXCEPT ![c] = "pending"]
  BY DEF Prepare, NewFuture
<1>3. CASE path = "native"
  <2>1. PICK s \in 1..MaxSlot : s = NextSlot /\ s \notin Occupied
    BY <1>1, NextSlotFree DEF SlotsSuffice
  <2>2. /\ slots' = [t \in Occupied \cup {s} |-> IF t = s THEN c ELSE slots[t]]
        /\ slot_counter' = s
        /\ current_slot' = [current_slot EXCEPT ![h] = s]
        /\ slot_id' = [slot_id EXCEPT ![h] = s]
    BY <1>3, <2>1 DEF Prepare, TakeSlot
  <2>3. /\ Occupied' = Occupied \cup {s} /\ slots'[s] = c
        /\ \A t \in Occupied : slots'[t] = slots[t]
    <3>1. Occupied' = Occupied \cup {s}
      BY <2>2, Zenon DEF Occupied
    <3> QED BY <2>1, <2>2, <3>1
  <2>4. \A g \in Helper : current_slot[g] # s
    BY <2>1 DEF SlotsSuffice
  <2>5. \A g \in Helper, d \in Call : SlotKept(d, current_slot[g])
    BY <2>3, <2>4 DEF SlotKept
  <2>6. /\ Occupied' \subseteq 1..MaxSlot /\ \A t \in Occupied' : slots'[t] \in Call
    BY <1>1, <2>3
  <2>7. /\ slot_counter' \in 0..MaxSlot /\ s \in 0..MaxSlot
    BY <2>2
  <2>8. /\ current_slot' \in [Helper -> 0..MaxSlot]
        /\ slot_id' \in [Helper -> 0..MaxSlot]
        /\ current_slot'[h] = s /\ slot_id'[h] = s
        /\ \A g \in Helper : g # h => /\ current_slot'[g] = current_slot[g]
                                      /\ slot_id'[g] = slot_id[g]
    BY <1>1, <2>2, <2>7
  <2> QED BY <1>2, <1>3, <2>3, <2>5, <2>6, <2>7, <2>8
<1>4. CASE path # "native"
  <2>1. UNCHANGED <<slots, slot_counter, current_slot, slot_id>>
    BY <1>4 DEF Prepare
  <2>2. Occupied' = Occupied
    BY <2>1 DEF Occupied
  <2>3. \A g \in Helper, d \in Call : SlotKept(d, current_slot[g])
    BY <2>1, <2>2 DEF SlotKept
  <2> QED BY <1>1, <1>2, <1>4, <2>1, <2>2, <2>3
<1> QED BY <1>3, <1>4

(* The call waits for the aio it started, and for no other.                *)
LEMMA BeginStep ==
  ASSUME Inv, NEW c \in Call, Begin(c)
  PROVE  Inv'
<1>1. PICK k \in Kind : k = KindOf(c)
  BY DEF Kind, KindOf
<1>2. PICK h \in Helper :
        /\ Acquire(k, h) /\ Prepare(c, h)
        /\ uses' = [uses EXCEPT ![c] = h]
        /\ aio' = [aio EXCEPT ![h] = "pending"]
        /\ result' = [result EXCEPT ![h] = "none"]
        /\ aio_msg' = [aio_msg EXCEPT ![h] = IF c \in SendCall THEN c ELSE NoCall]
  BY <1>1, Zenon DEF Begin
<1>3. /\ LoopIdle /\ SlotsSuffice /\ call[c] = "new"
      /\ owner' = [owner EXCEPT ![c] = IF c \in SendCall THEN "aio" ELSE @]
      /\ call' = [call EXCEPT ![c] = "waiting"]
      /\ UNCHANGED <<cancelled, outcome, loop, pending, soon, path, holder, socket>>
  BY DEF Begin, queueVars
<1>4. /\ Fresh(h)
      /\ \E m \in 0..Len(pool[k]) : TakenFrom(k, m, h)
      /\ backend' \in [Helper -> Path \cup {"none"}]
      /\ helper_loop' \in [Helper -> 0..MaxLoop]
      /\ aio_map' \subseteq Helper
  BY <1>2, AcquireIs
<1>5. PICK n \in 0..Len(pool[k]) : TakenFrom(k, n, h)
  BY <1>4
<1>6. /\ Places' /\ RoomToRelease'
      /\ \A g : InPool(g)' => InPool(g) /\ g # h
      /\ pool' \in [Kind -> Seq(Helper)]
      /\ \A l \in Kind : Len(pool'[l]) =< MaxPool
      /\ \A d \in Call : d # c /\ HasHelper(d) => uses[d] # h
  BY <1>2, <1>3, <1>4, <1>5, BeginPlaces
<1>7. Quiet(h)
  BY <1>4 DEF Fresh
<1>8. /\ future' = [future EXCEPT ![c] = "pending"]
      /\ Occupied' \subseteq 1..MaxSlot /\ \A s \in Occupied' : slots'[s] \in Call
      /\ slot_counter' \in 0..MaxSlot
      /\ current_slot' \in [Helper -> 0..MaxSlot]
      /\ slot_id' \in [Helper -> 0..MaxSlot]
      /\ slot_id'[h] = current_slot'[h]
      /\ path = "native" => /\ current_slot'[h] \in 1..MaxSlot
                            /\ current_slot'[h] \in Occupied'
                            /\ slots'[current_slot'[h]] = c
      /\ path # "native" => current_slot'[h] = 0
      /\ \A g \in Helper : g # h => /\ current_slot'[g] = current_slot[g]
                                    /\ slot_id'[g] = slot_id[g]
      /\ \A g \in Helper, d \in Call : SlotKept(d, current_slot[g])
  BY <1>2, <1>3, <1>7, PrepareIs
<1>9. /\ call'[c] = "waiting" /\ uses'[c] = h /\ future'[c] = "pending"
      /\ owner'[c] = IF c \in SendCall THEN "aio" ELSE owner[c]
      /\ \A d \in Call : d # c => /\ call'[d] = call[d] /\ uses'[d] = uses[d]
                                  /\ future'[d] = future[d] /\ owner'[d] = owner[d]
  BY <1>2, <1>3, <1>8 DEF Inv, TypeOK
<1>10. /\ aio'[h] = "pending" /\ result'[h] = "none"
       /\ aio_msg'[h] = IF c \in SendCall THEN c ELSE NoCall
       /\ \A g \in Helper : g # h => /\ aio'[g] = aio[g] /\ result'[g] = result[g]
                                     /\ aio_msg'[g] = aio_msg[g]
  BY <1>2 DEF Inv, TypeOK
<1>11. TypeOK'
  <2>1. /\ call' \in [Call -> {"new", "waiting", "releasing", "ended"}]
        /\ future' \in [Call -> {"none", "pending", "done"}]
    BY <1>3, <1>8 DEF Inv, TypeOK
  <2>2. uses' \in [Call -> Helper \cup {NoHelper}]
    BY <1>2 DEF Inv, TypeOK
  <2>3. owner' \in [Call -> {"peer", "caller", "aio", "nng", "freed"}]
    <3>1. owner \in [Call -> {"peer", "caller", "aio", "nng", "freed"}]
      BY DEF Inv, TypeOK
    <3> QED BY <1>3, <3>1
  <2>4. /\ aio' \in [Helper -> {"idle", "pending", "cancelling"}]
        /\ result' \in [Helper -> {"none", "ok", "timeout", "closed", "canceled"}]
    BY <1>2 DEF Inv, TypeOK
  <2>5. aio_msg' \in [Helper -> Call \cup {NoCall}]
    <3>1. aio_msg \in [Helper -> Call \cup {NoCall}]
      BY DEF Inv, TypeOK
    <3> QED BY <1>2, <3>1
  <2>6. helper' \in [Helper -> {"unborn", "live", "freed"}]
    BY <1>5 DEF Inv, TypeOK, TakenFrom
  <2> QED BY <1>3, <1>4, <1>6, <1>8, <2>1, <2>2, <2>3, <2>4, <2>5, <2>6 DEF Inv, TypeOK
<1>12. \A g \in Helper : g # h => SameHelper(g)
  BY <1>3, <1>4, <1>8, <1>10 DEF SameHelper, Fresh
<1>13. ASSUME NEW g \in Helper
       PROVE  HelperOK(g)'
  <2>1. HelperOK(g)
    BY DEF Inv
  <2>2. CASE g = h
    <3>1. helper'[h] = "live"
      BY <1>5 DEF TakenFrom
    <3>2. helper_loop'[h] = loop /\ backend'[h] = path /\ loop \in Nat
      BY <1>4, LoopAssumption DEF Fresh, Inv, TypeOK
    <3> QED BY <1>3, <1>6, <1>9, <2>2, <3>1, <3>2 DEF HelperOK
  <2>3. CASE g # h
    <3>1. SameHelper(g)
      BY <1>12, <2>3
    <3>2. Quiet(g) => Quiet(g)'
      BY <3>1 DEF SameHelper, Quiet
    <3>3. (\E d \in Call : call[d] = "waiting" /\ uses[d] = g) =>
            \E d \in Call : call'[d] = "waiting" /\ uses'[d] = g
      BY <1>3, <1>9
    <3>4. helper'[g] = "unborn" => helper[g] = "unborn"
      BY <1>5, <2>3 DEF TakenFrom
    <3>5. helper'[g] = "unborn" => \A d \in Call : uses'[d] # g
      BY <1>9, <2>1, <2>3, <3>4 DEF HelperOK
    <3> QED BY <1>3, <1>6, <2>1, <3>1, <3>2, <3>3, <3>5 DEF HelperOK, SameHelper
  <2> QED BY <2>2, <2>3
<1>14. CallOK(c)'
  <2>1. c \notin cancelled /\ Untouched(c)
    BY <1>3 DEF Inv, CallOK
  <2>2. c \in SendCall <=> c \notin RecvCall
    BY CallAssumption DEF Call
  <2>3. Delivery(backend[h] = "native", future[c], aio[h], Contains(pending, h),
                 Contains(soon, h), h \in aio_map)'
    BY <1>3, <1>4, <1>7, <1>9, <1>10 DEF Delivery, Fresh, Quiet
  <2>4. SlotOK(c, h)'
    <3>1. backend'[h] = path /\ future'[c] = "pending" /\ slot_id'[h] = current_slot'[h]
      BY <1>4, <1>8, <1>9 DEF Fresh
    <3>2. CASE path = "native"
      BY <1>8, <3>1, <3>2 DEF SlotOK
    <3>3. CASE path # "native"
      BY <1>8, <3>1, <3>3 DEF SlotOK
    <3> QED BY <3>2, <3>3
  <2>5. Progress(c \in RecvCall, aio[h], result[h], aio_msg[h], owner[c], c)'
    BY <1>9, <1>10, <2>1, <2>2 DEF Progress, Untouched
  <2>6. /\ helper_loop'[h] = loop' /\ backend'[h] \in Path
        /\ aio'[h] # "cancelling" /\ result'[h] # "canceled"
    BY <1>3, <1>4, <1>10 DEF Fresh, Inv, TypeOK
  <2>7. WaitingOK(c, h)'
    BY <2>3, <2>4, <2>5, <2>6 DEF WaitingOK
  <2> QED BY <1>9, <2>7 DEF CallOK
<1>15. ASSUME NEW d \in Call, d # c
       PROVE  CallOK(d)'
  <2>1. SameCall(d)
    BY <1>3, <1>9, <1>15 DEF SameCall
  <2>2. CASE call[d] = "waiting"
    <3>1. PICK g \in Helper : uses[d] = g
      BY <2>2 DEF Inv, CallOK, WaitingOK
    <3>2. g # h
      BY <1>6, <1>15, <2>2, <3>1 DEF HasHelper
    <3>3. SameHelper(g) /\ SlotKept(d, current_slot[g])
      BY <1>8, <1>12, <3>2
    <3> QED BY <1>3, <2>1, <2>2, <3>1, <3>3, WaitingKept DEF Inv
  <2>3. CASE call[d] # "waiting"
    <3>1. uses[d] \in Helper => backend'[uses[d]] = backend[uses[d]]
      BY <1>4, <1>15 DEF Fresh
    <3> QED BY <2>1, <2>3, <3>1, OtherKept DEF Inv
  <2> QED BY <2>2, <2>3
<1>16. SoonOnce'
  BY <1>3 DEF Inv, SoonOnce
<1> QED BY <1>6, <1>11, <1>13, <1>14, <1>15, <1>16 DEF Inv

------------------------------------------------------------------------------
(* Every step.                                                             *)

(* At first there are no helpers and no call has begun.                    *)
LEMMA InitInv == Init => Inv
<1> SUFFICES ASSUME Init PROVE Inv
  OBVIOUS
<1>1. /\ call = [c \in Call |-> "new"]
      /\ uses = [c \in Call |-> NoHelper]
      /\ cancelled = {}
      /\ outcome = [c \in Call |-> "none"]
      /\ future = [c \in Call |-> "none"]
      /\ owner = [c \in Call |-> IF c \in RecvCall THEN "peer" ELSE "caller"]
      /\ helper = [h \in Helper |-> "unborn"]
      /\ backend = [h \in Helper |-> "none"]
      /\ helper_loop = [h \in Helper |-> 0]
      /\ current_slot = [h \in Helper |-> 0]
      /\ slot_id = [h \in Helper |-> 0]
      /\ aio = [h \in Helper |-> "idle"]
      /\ result = [h \in Helper |-> "none"]
      /\ aio_msg = [h \in Helper |-> NoCall]
      /\ pool = [k \in Kind |-> <<>>]
      /\ loop = 1 /\ slots = <<>> /\ slot_counter = 0
      /\ pending = <<>>
      /\ path \in Path /\ aio_map = {} /\ soon = <<>>
      /\ holder \in Holder
      /\ socket = "open"
  BY DEF Init
<1>2. /\ \A x : ~Contains(pending, x) /\ ~Contains(soon, x)
      /\ Len(soon) = 0 /\ \A k \in Kind : Len(pool[k]) = 0
      /\ 1..0 = {}
  BY <1>1, EmptyContains, EmptySeq
<1>3. TypeOK
  <2>1. Occupied = {}
    BY <1>1 DEF Occupied
  <2>2. \A k \in Kind : Len(pool[k]) <= MaxPool
    BY <1>2, PoolAssumption
  <2>3. slot_counter \in 0..MaxSlot /\ loop \in 1..MaxLoop /\ 0 \in 0..MaxSlot
        /\ 0 \in 0..MaxLoop
    BY <1>1, SlotAssumption, LoopAssumption
  <2>4. /\ helper_loop \in [Helper -> 0..MaxLoop]
        /\ current_slot \in [Helper -> 0..MaxSlot]
        /\ slot_id \in [Helper -> 0..MaxSlot]
    BY <1>1, <2>3
  <2>5. pool \in [Kind -> Seq(Helper)] /\ pending \in Seq(Helper) /\ soon \in Seq(Helper)
    BY <1>1
  <2>6. /\ call \in [Call -> {"new", "waiting", "releasing", "ended"}]
        /\ uses \in [Call -> Helper \cup {NoHelper}]
        /\ outcome \in [Call -> {"none", "ok", "timeout", "closed", "cancelled", "refused"}]
        /\ future \in [Call -> {"none", "pending", "done"}]
        /\ owner \in [Call -> {"peer", "caller", "aio", "nng", "freed"}]
    BY <1>1
  <2>7. /\ helper \in [Helper -> {"unborn", "live", "freed"}]
        /\ backend \in [Helper -> Path \cup {"none"}]
        /\ aio \in [Helper -> {"idle", "pending", "cancelling"}]
        /\ result \in [Helper -> {"none", "ok", "timeout", "closed", "canceled"}]
        /\ aio_msg \in [Helper -> Call \cup {NoCall}]
    BY <1>1
  <2>8. /\ cancelled \subseteq Call /\ aio_map \subseteq Helper
        /\ path \in Path /\ holder \in Holder
        /\ socket \in {"open", "closing", "draining", "forgetting", "closed"}
    BY <1>1
  <2> QED BY <2>1, <2>2, <2>3, <2>4, <2>5, <2>6, <2>7, <2>8 DEF TypeOK
<1>4. \A h : ~InPool(h)
  BY <1>2 DEF InPool
<1>5. \A c \in Call : call[c] = "new" /\ uses[c] = NoHelper /\ ~HasHelper(c)
  BY <1>1 DEF HasHelper
<1>6. Places /\ RoomToRelease
  <2>1. LiveInOnePlace
    BY <1>1, <1>4, <1>5 DEF LiveInOnePlace
  <2>2. OneIndexEach
    BY <1>2 DEF OneIndexEach
  <2> QED BY <1>5, <2>1, <2>2 DEF Places, OneCallEach, NotBoth, RoomToRelease
<1>7. ASSUME NEW h \in Helper
      PROVE  HelperOK(h)
  <2>1. Quiet(h)
    BY <1>1, <1>2 DEF Quiet
  <2>2. \A c \in Call : uses[c] # h
    BY <1>5, HelperAssumption
  <2> QED BY <1>1, <1>4, <2>1, <2>2 DEF HelperOK
<1>8. ASSUME NEW c \in Call
      PROVE  CallOK(c)
  BY <1>1, <1>5 DEF CallOK, Untouched
<1>9. SoonOnce
  BY <1>2 DEF SoonOnce
<1> QED BY <1>3, <1>6, <1>7, <1>8, <1>9 DEF Inv

(* Nothing that does not happen disturbs anything.                         *)
LEMMA StutterInv ==
  ASSUME Inv, UNCHANGED vars
  PROVE  Inv'
<1>1. UNCHANGED <<call, uses, cancelled, outcome, future, owner, helper, backend,
        helper_loop, current_slot, slot_id, aio_map, aio, result, aio_msg, pool,
        loop, slots, slot_counter, path, holder, pending, soon, socket>>
  BY DEF vars
<1>2. TypeOK'
  BY <1>1 DEF Inv, TypeOK, Occupied
<1>3. \A g \in Helper : Quiet(g) => Quiet(g)'
  BY <1>1 DEF Quiet
<1>4. Places' /\ RoomToRelease' /\ \A g \in Helper : HelperOK(g)'
  BY <1>1, <1>3, MoveStep
<1>5. ASSUME NEW c \in Call
      PROVE  CallOK(c)'
  <2>1. SameCall(c)
    BY <1>1 DEF SameCall
  <2>2. CASE call[c] = "waiting"
    <3>1. PICK h \in Helper : uses[c] = h
      BY <2>2 DEF Inv, CallOK, WaitingOK
    <3>2. SameHelper(h) /\ SlotKept(c, current_slot[h])
      BY <1>1 DEF SameHelper, SlotKept, Occupied
    <3> QED BY <1>1, <2>1, <2>2, <3>1, <3>2, WaitingKept DEF Inv
  <2>3. CASE call[c] # "waiting"
    BY <1>1, <2>1, <2>3, OtherKept DEF Inv
  <2> QED BY <2>2, <2>3
<1>6. SoonOnce'
  BY <1>1 DEF Inv, SoonOnce
<1> QED BY <1>2, <1>4, <1>5, <1>6 DEF Inv

(* The invariant survives every step.                                      *)
LEMMA NextInv == Inv /\ [Next \/ Finished]_vars => Inv'
<1> SUFFICES ASSUME Inv, [Next \/ Finished]_vars PROVE Inv'
  OBVIOUS
<1>1. CASE Loop
  BY <1>1, OnNotifyStep, RunSoonStep, BeginStep, BeginRefusedStep, CancelTaskStep,
     ResumeStep, ReleaseStep, Zenon DEF Loop
<1>2. CASE \E h \in Helper : Complete(h)
  BY <1>2, CompleteStep
<1>3. CASE NextLoop \/ CloseBegin \/ CloseFn \/ DrainPool \/ Forget
  BY <1>3, NextLoopStep, SocketStep, DrainPoolStep
<1>4. CASE Finished \/ UNCHANGED vars
  BY <1>4, StutterInv DEF Finished
<1> QED BY <1>1, <1>2, <1>3, <1>4, Zenon DEF Next

(* The invariant holds throughout.                                         *)
LEMMA Invariance == Spec => []Inv
<1> QED BY InitInv, NextInv, PTL DEF Spec

------------------------------------------------------------------------------
(* What follows.                                                           *)

(* A set with at most one member has as many as there are.                 *)
LEMMA AtMostOne ==
  ASSUME NEW S, \A x, y \in S : x = y
  PROVE  Cardinality(S) = IF S = {} THEN 0 ELSE 1
<1>1. CASE S = {}
  BY <1>1, FS_EmptySet
<1>2. CASE S # {}
  <2>1. PICK x \in S : TRUE
    BY <1>2
  <2>2. S = {x}
    BY <2>1
  <2> QED BY <1>2, <2>2, FS_Singleton
<1> QED BY <1>1, <1>2

(* A helper is with one call or at one index of a pool.                    *)
LEMMA InvHelperExclusive == Inv => HelperExclusive
<1> SUFFICES ASSUME Inv PROVE HelperExclusive
  OBVIOUS
<1>1. \A c \in Call : call[c] = "waiting" => helper_loop[uses[c]] = loop
  BY DEF Inv, CallOK, WaitingOK
<1>2. ASSUME NEW h \in Helper
      PROVE  /\ Cardinality(InUse(h)) + Cardinality(Pooled(h))
                  = (IF helper[h] = "live" THEN 1 ELSE 0)
             /\ Pooled(h) # {} => /\ aio[h] = "idle" /\ aio_msg[h] = NoCall
                                  /\ current_slot[h] = 0 /\ slot_id[h] = 0
                                  /\ ~Contains(pending, h)
  <2>1. \A c : c \in InUse(h) <=> c \in Call /\ HasHelper(c) /\ uses[c] = h
    BY DEF InUse, HasHelper
  <2>2. /\ \A k \in Kind : pool[k] \in Seq(Helper) /\ Len(pool[k]) \in Nat
        /\ \A k \in Kind : Len(pool[k]) =< MaxPool
    BY LenProperties DEF Inv, TypeOK
  <2>3. ASSUME NEW k \in Kind, NEW i
        PROVE  i \in 1..MaxPool /\ i <= Len(pool[k]) <=> i \in 1..Len(pool[k])
    BY <2>2, PoolAssumption
  <2>4. \A p : p \in Pooled(h) <=>
          /\ p \in Kind \X (1..MaxPool) /\ p[2] \in 1..Len(pool[p[1]])
          /\ pool[p[1]][p[2]] = h
    BY <2>3 DEF Pooled
  <2>5. \A c, d \in InUse(h) : c = d
    BY <2>1 DEF Inv, Places, OneCallEach
  <2>6. ASSUME NEW p \in Pooled(h), NEW q \in Pooled(h)
        PROVE  p = q
    <3>1. /\ p \in Kind \X (1..MaxPool) /\ q \in Kind \X (1..MaxPool)
          /\ p[2] \in 1..Len(pool[p[1]]) /\ q[2] \in 1..Len(pool[q[1]])
          /\ pool[p[1]][p[2]] = h /\ pool[q[1]][q[2]] = h
      BY <2>4
    <3>2. p[1] \in Kind /\ q[1] \in Kind
      BY <3>1
    <3>3. p[1] = q[1] /\ p[2] = q[2]
      BY <3>1, <3>2, SameIndex DEF Inv, Places
    <3> QED BY <3>1, <3>3
  <2>7. Pooled(h) # {} <=> InPool(h)
    <3>1. ASSUME NEW p \in Pooled(h)
          PROVE  InPool(h)
      <4>1. p[1] \in Kind /\ p[2] \in 1..Len(pool[p[1]]) /\ pool[p[1]][p[2]] = h
        BY <2>4
      <4> QED BY <4>1, Zenon DEF InPool
    <3>2. ASSUME InPool(h)
          PROVE  Pooled(h) # {}
      <4>1. PICK k \in Kind : \E i \in 1..Len(pool[k]) : pool[k][i] = h
        BY <3>2 DEF InPool
      <4>2. PICK i \in 1..Len(pool[k]) : pool[k][i] = h
        BY <4>1
      <4>3. <<k, i>> \in Kind \X (1..MaxPool)
        BY <2>3
      <4>4. <<k, i>> \in Pooled(h)
        BY <2>4, <4>2, <4>3
      <4> QED BY <4>4
    <3> QED BY <3>1, <3>2
  <2>8. /\ Cardinality(InUse(h)) = IF InUse(h) = {} THEN 0 ELSE 1
        /\ Cardinality(Pooled(h)) = IF Pooled(h) = {} THEN 0 ELSE 1
    BY <2>5, <2>6, AtMostOne, Zenon
  <2>9. /\ InUse(h) # {} => Pooled(h) = {}
        /\ helper[h] = "live" <=> InUse(h) # {} \/ Pooled(h) # {}
    BY <2>1, <2>7 DEF Inv, Places, NotBoth, LiveInOnePlace
  <2>10. Pooled(h) # {} => Quiet(h)
    BY <2>1, <2>9 DEF Inv, HelperOK, HasHelper
  <2> QED BY <2>8, <2>9, <2>10 DEF Quiet
<1> QED BY <1>1, <1>2 DEF HelperExclusive, HelperInOnePlace

(* The theorem of AsyncOps.HelperExclusive: acquiring, cancelling,         *)
(* releasing and closing, in whatever order, never hand one AIOHelper to   *)
(* two calls, put it into a pool twice or free it while it is used.        *)
THEOREM HelpersAreExclusive == Spec => []HelperExclusive
<1> QED BY Invariance, InvHelperExclusive, PTL

(* A future that is done was resolved by the completion of its own aio.    *)
LEMMA InvOwnCompletion == Inv => OwnCompletion
<1> SUFFICES ASSUME Inv, NEW c \in Call, call[c] = "waiting", NEW h, h = uses[c]
             PROVE  /\ future[c] = "done" =>
                         aio[h] = "idle" /\ ~Contains(pending \o soon, h)
                    /\ backend[h] # "native" => (aio[h] = "idle" <=> h \notin aio_map)
                    /\ future[c] = "pending" /\ backend[h] # "native" =>
                         (aio[h] = "idle" => Contains(soon, h))
                    /\ future[c] = "pending" /\ backend[h] = "native" =>
                         /\ current_slot[h] \in Occupied /\ slots[current_slot[h]] = c
                         /\ slot_id[h] = current_slot[h]
                         /\ aio[h] = "idle" => Contains(pending, h)
  BY Zenon DEF OwnCompletion
<1>1. WaitingOK(c, h)
  BY DEF Inv, CallOK
<1>2. Delivery(backend[h] = "native", future[c], aio[h], Contains(pending, h),
               Contains(soon, h), h \in aio_map) /\ SlotOK(c, h)
  BY <1>1 DEF WaitingOK
<1>3. pending \in Seq(Helper) /\ soon \in Seq(Helper)
  BY DEF Inv, TypeOK
<1>4. ~Contains(pending, h) /\ ~Contains(soon, h) => ~Contains(pending \o soon, h)
  <2>1. /\ Len(pending) \in Nat /\ Len(soon) \in Nat
        /\ Len(pending \o soon) = Len(pending) + Len(soon)
        /\ \A i \in 1..(Len(pending) + Len(soon)) :
             (pending \o soon)[i] = IF i <= Len(pending) THEN pending[i]
                                    ELSE soon[i - Len(pending)]
    BY <1>3, LenProperties, ConcatProperties
  <2>2. ASSUME NEW i \in 1..Len(pending \o soon)
        PROVE  \/ i \in 1..Len(pending) /\ (pending \o soon)[i] = pending[i]
               \/ /\ i - Len(pending) \in 1..Len(soon)
                  /\ (pending \o soon)[i] = soon[i - Len(pending)]
    BY <2>1
  <2> QED BY <2>2, Zenon DEF Contains
<1> QED BY <1>2, <1>4 DEF Delivery, SlotOK

(* The theorem of AsyncOps.OwnCompletion: neither a slot id that was used  *)
(* again nor a rescheduler ever wakes another task than the one whose aio  *)
(* completed.                                                              *)
THEOREM CompletionsReachTheirCalls == Spec => []OwnCompletion
<1> QED BY Invariance, InvOwnCompletion, PTL

(* Where the message of every call is.                                     *)
LEMMA InvMessageSettled == Inv => MessageSettled
<1> SUFFICES ASSUME Inv, NEW c \in Call
             PROVE  /\ c \in RecvCall /\ owner[c] = "freed" => backend[uses[c]] # "trio"
                    /\ owner[c] = "aio" <=> \E h \in Helper : aio_msg[h] = c
                    /\ owner[c] = "aio" => call[c] = "waiting" /\ aio_msg[uses[c]] = c
                    /\ call[c] = "ended" =>
                         IF c \in RecvCall
                         THEN (outcome[c] = "ok" <=> owner[c] = "caller")
                         ELSE /\ outcome[c] = "ok" => owner[c] = "nng"
                              /\ outcome[c] = "refused" => owner[c] = "caller"
                              /\ outcome[c] \notin {"ok", "refused"} =>
                                   \/ owner[c] = "freed"
                                   \/ c \in cancelled /\ owner[c] = "nng"
  BY Zenon DEF MessageSettled
<1>1. CallOK(c) /\ call[c] \in {"new", "waiting", "releasing", "ended"}
  BY DEF Inv, TypeOK
<1>2. NoCall \notin Call
  BY CallAssumption
<1>3. ASSUME NEW h \in Helper, aio_msg[h] = c
      PROVE  call[c] = "waiting" /\ uses[c] = h /\ owner[c] = "aio"
  <2>1. ~Quiet(h)
    BY <1>2, <1>3 DEF Quiet
  <2>2. PICK d \in Call : call[d] = "waiting" /\ uses[d] = h /\ WaitingOK(d, h)
    BY <2>1, WhoWaits
  <2>3. Progress(d \in RecvCall, aio[h], result[h], aio_msg[h], owner[d], d)
    BY <2>2 DEF WaitingOK
  <2>4. d = c /\ owner[c] = "aio"
    BY <1>2, <1>3, <2>3 DEF Progress
  <2> QED BY <2>2, <2>4
<1>4. ASSUME owner[c] = "aio"
      PROVE  call[c] = "waiting" /\ uses[c] \in Helper /\ aio_msg[uses[c]] = c
  <2>1. call[c] = "waiting"
    BY <1>1, <1>4 DEF CallOK, Settled, Untouched
  <2>2. PICK h \in Helper : uses[c] = h /\ WaitingOK(c, h)
    BY <1>1, <2>1 DEF CallOK, WaitingOK
  <2>3. Progress(c \in RecvCall, aio[h], result[h], aio_msg[h], owner[c], c)
    BY <2>2 DEF WaitingOK
  <2> QED BY <1>4, <2>1, <2>2, <2>3 DEF Progress
<1>5. ASSUME c \in RecvCall, owner[c] = "freed"
      PROVE  backend[uses[c]] # "trio"
  <2>1. CASE call[c] = "waiting"
    <3>1. PICK h \in Helper : WaitingOK(c, h)
      BY <1>1, <2>1 DEF CallOK, WaitingOK
    <3>2. Progress(c \in RecvCall, aio[h], result[h], aio_msg[h], owner[c], c)
      BY <3>1 DEF WaitingOK
    <3> QED BY <1>5, <3>2 DEF Progress
  <2>2. CASE call[c] # "waiting"
    BY <1>1, <1>5, <2>2 DEF CallOK, Settled, Untouched
  <2> QED BY <2>1, <2>2
<1>6. ASSUME call[c] = "ended"
      PROVE  IF c \in RecvCall
             THEN (outcome[c] = "ok" <=> owner[c] = "caller")
             ELSE /\ outcome[c] = "ok" => owner[c] = "nng"
                  /\ outcome[c] = "refused" => owner[c] = "caller"
                  /\ outcome[c] \notin {"ok", "refused"} =>
                       \/ owner[c] = "freed"
                       \/ c \in cancelled /\ owner[c] = "nng"
  BY <1>1, <1>6 DEF CallOK, Settled, Untouched
<1> QED BY <1>3, <1>4, <1>5, <1>6

(* The theorem of AsyncOps.MessageSettled: whatever is cancelled, timed    *)
(* out or closed, a message is handed on or freed, and once.               *)
THEOREM MessagesAreSettled == Spec => []MessageSettled
<1> QED BY Invariance, InvMessageSettled, PTL

(* What a call ended with tells whether it was cancelled.                  *)
LEMMA InvCancelPropagates == Inv => CancelPropagates
BY DEF Inv, CallOK, Settled, CancelPropagates

(* The theorem of AsyncOps.CancelPropagates: a cancelled task of asyncio   *)
(* always raises CancelledError, and no other task does.                   *)
THEOREM CancellationPropagates == Spec => []CancelPropagates
<1> QED BY Invariance, InvCancelPropagates, PTL

------------------------------------------------------------------------------
(* The loop and nng as users of the native queue.                          *)

(* The copy of Cardinality that the instance of CompletionFifo brings is   *)
(* the one of FiniteSets.                                                  *)
LEMMA SameCardinality == \A S : Fifo!Cardinality(S) = Cardinality(S)
BY Zenon DEF Fifo!Cardinality, Cardinality

(* Only a completion over the native path and the loop's drain touch the   *)
(* queue.                                                                  *)
LEMMA StepUsesFifo ==
  ASSUME Inv, [Next \/ Finished]_vars
  PROVE  [Fifo!Next]_Fifo!vars
<1>1. CASE UNCHANGED pending
  BY <1>1 DEF Fifo!vars
<1>2. CASE \E h \in Helper : Complete(h)
  <2>1. PICK h \in Helper : Complete(h)
    BY <1>2
  <2>2. ~Quiet(h) /\ aio[h] # "idle" /\ Report(h)
    BY <2>1 DEF Complete, Quiet
  <2>3. ~Contains(pending, h)
    BY <2>2, WhoWaits DEF WaitingOK, Delivery
  <2>4. h \notin Fifo!Queued
    BY <2>3, Zenon DEF Fifo!Queued, Contains
  <2>5. CASE UNCHANGED pending
    BY <1>1, <2>5
  <2>6. CASE pending' = Append(pending, h)
    <3>1. Fifo!Complete(h)
      BY <2>4, <2>6 DEF Fifo!Complete
    <3> QED BY <3>1 DEF Fifo!Next
  <2> QED BY <2>2, <2>5, <2>6 DEF Report, AsyncComplete
<1>3. CASE OnNotify
  <2>1. pending \in Seq(Helper) /\ Len(pending) \in Nat /\ pending' = <<>>
    BY <1>3, LenProperties DEF Inv, TypeOK, OnNotify
  <2>2. /\ Len(pending) \in 0..Len(pending)
        /\ Len(pending) + 1 > Len(pending)
        /\ ~(Len(pending) < Len(pending))
    BY <2>1
  <2>3. SubSeq(pending, Len(pending) + 1, Len(pending)) = <<>>
    BY <2>1, <2>2, SubSeqEmpty
  <2>4. Fifo!Cardinality({}) =< Cardinality(Helper)
    <3>1. Cardinality(Helper) \in Nat /\ Cardinality({}) = 0
      BY HelperAssumption, FS_CardinalityType, FS_EmptySet
    <3> QED BY <3>1, SameCardinality
  <2>5. Fifo!Drain
    BY <2>1, <2>2, <2>3, <2>4 DEF Fifo!Drain
  <2> QED BY <2>5 DEF Fifo!Next
<1>4. CASE \E c \in Call : \/ Begin(c) \/ BeginRefused(c) \/ CancelTask(c)
                           \/ Resume(c) \/ Release(c)
  BY <1>1, <1>4 DEF Begin, BeginRefused, CancelTask, Resume, Release, queueVars
<1>5. CASE RunSoon \/ NextLoop \/ CloseBegin \/ CloseFn \/ DrainPool \/ Forget
  BY <1>1, <1>5 DEF RunSoon, NextLoop, CloseBegin, CloseFn, DrainPool, Forget, queueVars
<1>6. CASE Finished \/ UNCHANGED vars
  BY <1>1, <1>6 DEF Finished, vars
<1> QED BY <1>2, <1>3, <1>4, <1>5, <1>6, Zenon DEF Next, Loop

(* The theorem of AsyncOps.UsesFifo: the entry of a helper is never queued *)
(* again before _on_notify has taken it out, and _on_notify takes out all  *)
(* there is; so what CompletionQueue implements is what the loop and nng   *)
(* ask of it.                                                              *)
THEOREM QueueIsUsedAsFifo == Spec => UsesFifo
<1>1. Init => Fifo!Init
  BY DEF Init, Fifo!Init
<1>2. Inv /\ [Next \/ Finished]_vars => [Fifo!Next]_Fifo!vars
  BY StepUsesFifo
<1> QED BY <1>1, <1>2, Invariance, PTL DEF Spec, UsesFifo, Fifo!Spec
=============================================================================
