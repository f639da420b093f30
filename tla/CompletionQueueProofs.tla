------------------------ MODULE CompletionQueueProofs ------------------------
(***************************************************************************)
(* Theorems about CompletionQueue for every set of entries, every capacity *)
(* and batch size: types, reference counting, memory safety, wakeups, the  *)
(* ownership of entries, and the abstract queue the ring implements.  They *)
(* rest on the inductive invariant Inv, which WakeInv extends for wakeups  *)
(* and OwnedInv for what is owned while every drain finds memory.          *)
(***************************************************************************)
EXTENDS CompletionQueue, RingArithmetic, FiniteSetTheorems, SequenceTheorems, TLAPS

------------------------------------------------------------------------------
(* Positions in the ring.                                                  *)

(* A position of the ring is a cell of the array.                          *)
LEMMA CellRange ==
  ASSUME TypeOK, NEW i \in 0..capacity
  PROVE  Cell(i) \in 0..(capacity - 1)
BY WrapRange, Zenon DEF TypeOK, Cell

(* Different positions are different cells.                                *)
LEMMA CellInjective ==
  ASSUME TypeOK, NEW i \in 0..(capacity - 1), NEW j \in 0..(capacity - 1),
         Cell(i) = Cell(j)
  PROVE  i = j
BY WrapInjective, Zenon DEF TypeOK, Cell

(* Counting on from a position is counting on from the tail.               *)
LEMMA CellShift ==
  ASSUME TypeOK, NEW n \in Nat, NEW i \in Nat, n + i =< capacity
  PROVE  (Cell(n) + i) % capacity = Cell(n + i)
<1>1. capacity \in Nat \ {0} /\ tail \in 0..(capacity - 1)
  BY DEF TypeOK
<1> QED BY <1>1, WrapShift, Zenon DEF Cell

------------------------------------------------------------------------------
(* What a step does to the ring: nothing, one entry more, n entries fewer. *)

(* The linked entries are entries.                                         *)
LEMMA LinkedType ==
  ASSUME TypeOK, RingOK
  PROVE  Linked \in SUBSET Entry
BY DEF Linked, RingOK

(* A step that leaves the ring alone keeps it in order.                    *)
LEMMA RingUnchanged ==
  ASSUME RingOK, UNCHANGED ringVars
  PROVE  RingOK' /\ Linked' = Linked
BY DEF RingOK, Linked, At, Cell, ringVars

(* Appending in place links one entry more.                                *)
LEMMA RingAppend ==
  ASSUME TypeOK, RingOK, NEW e \in Entry, e \notin Linked, AppendInPlace(e)
  PROVE  /\ RingOK' /\ Linked' = Linked \cup {e}
         /\ entries' \in [0..(capacity' - 1) -> Entry \cup {NoEntry}]
         /\ head' \in 0..(capacity' - 1) /\ count' \in 0..capacity'
         /\ \A i \in 0..(count - 1) : At(i)' = At(i)
         /\ \A k : k = count => At(k)' = e
<1>1. /\ capacity \in Nat \ {0} /\ count \in 0..(capacity - 1)
      /\ capacity' = capacity /\ count' = count + 1
      /\ entries' = [entries EXCEPT ![head] = e]
      /\ entries \in [0..(capacity - 1) -> Entry \cup {NoEntry}]
      /\ head \in 0..(capacity - 1)
  BY DEF TypeOK, AppendInPlace, IsFull
<1>2. \A i : Cell(i)' = Cell(i)
  BY Zenon DEF Cell, AppendInPlace
<1>3. /\ count \in 0..(capacity - 1) /\ count \in 0..capacity
      /\ count + 1 =< capacity /\ count + 1 \in 0..capacity /\ count \in Nat
      /\ \A i \in 0..(count - 1) : i \in 0..(capacity - 1) /\ i # count
                                   /\ i \in 0..capacity
  BY <1>1
<1>4. head = Cell(count)
  BY DEF RingOK
<1>5. \A i \in 0..(count - 1) : Cell(i) # head /\ Cell(i) \in 0..(capacity - 1)
  BY <1>3, <1>4, CellInjective, CellRange, Zenon
<1>6. \A i \in 0..(count - 1) : At(i)' = At(i)
  <2> TAKE i \in 0..(count - 1)
  <2>1. entries'[Cell(i)] = entries[Cell(i)]
    BY <1>1, <1>5
  <2> QED BY <2>1, <1>2, Zenon DEF At
<1>7. \A k : k = count => At(k)' = e
  <2>1. entries'[head] = e
    BY <1>1
  <2> QED BY <2>1, <1>2, <1>4, Zenon DEF At
<1>8. head' = Cell(count)'
  <2>1. Cell(count + 1) = (Cell(count) + 1) % capacity
    BY <1>3, CellShift, Zenon
  <2>2. head' = (head + 1) % capacity
    BY Zenon DEF AppendInPlace
  <2>3. Cell(count)' = Cell(count + 1)
    BY <1>1, Zenon DEF Cell, AppendInPlace
  <2> QED BY <1>4, <2>1, <2>2, <2>3, Zenon
<1>9. head' \in 0..(capacity' - 1)
  <2>1. Cell(count)' = Cell(count + 1)
    BY <1>1, Zenon DEF Cell, AppendInPlace
  <2> QED BY <1>1, <1>3, <1>8, <2>1, CellRange, Zenon
<1>10. 0..(count' - 1) = 0..(count - 1) \cup {count}
  BY <1>1
<1>11. Linked' = Linked \cup {e}
  BY <1>6, <1>7, <1>10, Zenon DEF Linked
<1>12. \A i \in 0..(count - 1) : At(i) # e
  BY Zenon DEF Linked
<1>13. RingOK'
  <2>1. \A i \in 0..(count' - 1) : At(i)' \in Entry
    BY <1>6, <1>7, <1>10, Zenon DEF RingOK
  <2>2. \A i, j \in 0..(count' - 1) : At(i)' = At(j)' => i = j
    BY <1>6, <1>7, <1>10, <1>12, Zenon DEF RingOK
  <2> QED BY <1>8, <2>1, <2>2, Zenon DEF RingOK
<1> QED BY <1>1, <1>6, <1>7, <1>9, <1>11, <1>13

(* Growing keeps the order of the linked entries and links one more.       *)
LEMMA RingGrow ==
  ASSUME TypeOK, RingOK, NEW e \in Entry, e \notin Linked, GrowAndAppend(e)
  PROVE  /\ RingOK' /\ Linked' = Linked \cup {e}
         /\ capacity' \in Nat \ {0}
         /\ entries' \in [0..(capacity' - 1) -> Entry \cup {NoEntry}]
         /\ head' \in 0..(capacity' - 1) /\ count' \in 0..capacity'
         /\ tail' \in 0..(capacity' - 1)
         /\ \A i \in 0..(count - 1) : At(i)' = At(i)
         /\ \A k : k = count => At(k)' = e
<1>1. /\ capacity \in Nat \ {0} /\ count = capacity
      /\ capacity' = 2 * capacity /\ capacity' \in Nat \ {0}
      /\ tail' = 0 /\ tail' \in 0..(capacity' - 1)
      /\ count' = count + 1 /\ count' \in 0..capacity'
  BY DEF TypeOK, GrowAndAppend, IsFull
<1>2. entries' = [i \in 0..(capacity' - 1) |->
                    IF i < count THEN At(i)
                    ELSE IF i = count THEN e ELSE NoEntry]
  BY <1>1, Zenon DEF GrowAndAppend
<1>3. \A i \in 0..count' : Cell(i)' = Wrapped(0, i, capacity')
  <2> TAKE i \in 0..count'
  <2>1. i \in 0..capacity'
    BY <1>1
  <2>2. (tail' + i) % capacity' = Wrapped(tail', i, capacity')
    BY <1>1, <2>1, WrapIs, Zenon
  <2> QED BY <1>1, <2>2, Zenon DEF Cell
<1>4. \A i \in 0..count : Cell(i)' = i /\ i \in 0..(capacity' - 1)
                          /\ i \in 0..count'
  <2> TAKE i \in 0..count
  <2>1. i \in 0..count' /\ Wrapped(0, i, capacity') = i /\ i \in 0..(capacity' - 1)
    BY <1>1 DEF Wrapped
  <2> QED BY <1>3, <2>1, Zenon
<1>5. /\ \A i \in 0..(count - 1) : i < count /\ i \in 0..count
      /\ count \in 0..count /\ ~(count < count)
      /\ 0..(count' - 1) = 0..(count - 1) \cup {count}
  BY <1>1
<1>6. \A i \in 0..(count - 1) : At(i)' = At(i)
  <2> TAKE i \in 0..(count - 1)
  <2>1. entries'[i] = At(i)
    BY <1>2, <1>4, <1>5, Zenon
  <2> QED BY <1>4, <1>5, <2>1, Zenon DEF At
<1>7. \A k : k = count => At(k)' = e
  <2>1. entries'[count] = e
    BY <1>2, <1>4, <1>5, Zenon
  <2> QED BY <1>4, <1>5, <2>1, Zenon DEF At
<1>8. head' = Cell(count)' /\ head' \in 0..(capacity' - 1)
  <2>1. head' = (tail' + count') % capacity'
    <3>1. tail' + count' = count + 1
      BY <1>1
    <3> QED BY <1>1, <3>1, Zenon DEF GrowAndAppend
  <2> QED BY <1>1, <2>1, WrapRange, Zenon DEF Cell
<1>9. Linked' = Linked \cup {e}
  BY <1>5, <1>6, <1>7, Zenon DEF Linked
<1>10. \A i \in 0..(count - 1) : At(i) # e
  BY Zenon DEF Linked
<1>11. RingOK'
  <2>1. \A i \in 0..(count' - 1) : At(i)' \in Entry
    <3> TAKE i \in 0..(count' - 1)
    <3>1. i \in 0..(count - 1) \/ i = count
      BY <1>5, Zenon
    <3> QED BY <1>6, <1>7, <3>1, Zenon DEF RingOK
  <2>2. \A i, j \in 0..(count' - 1) : At(i)' = At(j)' => i = j
    BY <1>5, <1>6, <1>7, <1>10, Zenon DEF RingOK
  <2> QED BY <1>8, <2>1, <2>2, Zenon DEF RingOK
<1>12. entries' \in [0..(capacity' - 1) -> Entry \cup {NoEntry}]
  <2>1. \A i \in 0..(capacity' - 1) : i < count => i \in 0..(count - 1)
    BY <1>1
  <2> QED BY <1>2, <2>1, Zenon DEF RingOK
<1> QED BY <1>1, <1>6, <1>7, <1>8, <1>9, <1>11, <1>12

(* Taking n entries from the tail leaves the others linked, in order.      *)
LEMMA RingTake ==
  ASSUME TypeOK, RingOK, NEW n \in 0..count,
         tail' = Cell(n), count' = count - n, UNCHANGED <<entries, capacity, head>>
  PROVE  /\ RingOK' /\ Linked' = Linked \ FirstN(n) /\ FirstN(n) \in SUBSET Linked
         /\ tail' \in 0..(capacity' - 1) /\ count' \in 0..capacity'
         /\ \A i \in 0..(count' - 1) : At(i)' = At(n + i)
<1>1. /\ capacity \in Nat \ {0} /\ count \in 0..capacity /\ n \in 0..capacity
      /\ n \in Nat /\ count - n \in Nat /\ count - n \in 0..capacity
      /\ n + (count - n) = count /\ count =< capacity
  BY DEF TypeOK
<1>2. \A i \in 0..(count - n) : i \in Nat /\ n + i =< capacity
  BY <1>1
<1>3. \A i \in 0..(count - n) : Cell(i)' = Cell(n + i)
  <2> TAKE i \in 0..(count - n)
  <2>1. (Cell(n) + i) % capacity = Cell(n + i)
    BY <1>1, <1>2, CellShift, Zenon
  <2> QED BY <2>1, Zenon DEF Cell
<1>4. /\ \A i \in 0..(count' - 1) : i \in 0..(count - n) /\ n + i \in 0..(count - 1)
      /\ \A i \in 0..(count' - 1) : n + i \notin 0..(n - 1)
      /\ \A i, j \in 0..(count' - 1) : n + i = n + j => i = j
      /\ \A k \in 0..(count - 1) : k \in 0..(n - 1) \/ k - n \in 0..(count' - 1)
      /\ \A k \in 0..(count - 1) : n + (k - n) = k
      /\ \A k \in 0..(n - 1) : k \in 0..(count - 1)
      /\ count' \in 0..(count - n)
  BY <1>1
<1>5. \A i \in 0..(count' - 1) : At(i)' = At(n + i)
  BY <1>3, <1>4, Zenon DEF At
<1>6. head' = Cell(count)'
  <2>1. \A k : k = count - n => Cell(k)' = Cell(count)
    BY <1>1, <1>3, <1>4, Zenon
  <2> QED BY <2>1, Zenon DEF RingOK, Cell
<1>7. FirstN(n) \in SUBSET Linked
  BY <1>4, Zenon DEF FirstN, Linked
<1>8. Linked' = Linked \ FirstN(n)
  <2>1. ASSUME NEW x, x \in Linked' PROVE x \in Linked /\ x \notin FirstN(n)
    <3>1. PICK i \in 0..(count' - 1) : x = At(n + i)
      BY <1>5, <2>1, Zenon DEF Linked
    <3>2. \A k \in 0..(n - 1) : At(k) # At(n + i)
      BY <1>4, Zenon DEF RingOK
    <3> QED BY <1>4, <3>1, <3>2, Zenon DEF Linked, FirstN
  <2>2. ASSUME NEW x, x \in Linked, x \notin FirstN(n) PROVE x \in Linked'
    <3>1. PICK k \in 0..(count - 1) : x = At(k)
      BY <2>2, Zenon DEF Linked
    <3>2. k - n \in 0..(count' - 1) /\ n + (k - n) = k
      BY <1>4, <2>2, <3>1, Zenon DEF FirstN
    <3>3. At(k - n)' = At(k)
      BY <1>5, <3>2, Zenon
    <3> QED BY <3>1, <3>2, <3>3, Zenon DEF Linked
  <2> QED BY <2>1, <2>2, Zenon
<1>9. RingOK'
  <2>1. ASSUME NEW i \in 0..(count' - 1)
        PROVE  At(i)' \in Entry
    <3>1. At(i)' = At(n + i) /\ n + i \in 0..(count - 1)
      BY <1>4, <1>5, Zenon
    <3> QED BY <3>1, Zenon DEF RingOK
  <2>2. ASSUME NEW i \in 0..(count' - 1), NEW j \in 0..(count' - 1),
               At(i)' = At(j)'
        PROVE  i = j
    <3>1. /\ At(i)' = At(n + i) /\ n + i \in 0..(count - 1)
          /\ At(j)' = At(n + j) /\ n + j \in 0..(count - 1)
      BY <1>4, <1>5, Zenon
    <3>2. n + i = n + j
      BY <2>2, <3>1, Zenon DEF RingOK
    <3> QED BY <1>4, <3>2, Zenon
  <2> QED BY <1>6, <2>1, <2>2, Zenon DEF RingOK
<1>10. tail' \in 0..(capacity' - 1)
  BY <1>1, CellRange, Zenon
<1> QED BY <1>1, <1>5, <1>7, <1>8, <1>9, <1>10

------------------------------------------------------------------------------
(* The references.                                                         *)

(* The holders of references are finitely many.                            *)
LEMMA HoldersFinite ==
  ASSUME Inv
  PROVE  IsFiniteSet(Holders) /\ Cardinality(Holders) \in Nat
<1>1. Holders \in SUBSET Entry
  BY DEF Inv, TypeOK, Holders
<1> QED BY <1>1, EntryAssumption, FS_Subset, FS_CardinalityType

(* A live entry keeps the queue alive, and so does the engine.             *)
LEMMA QueueAlive ==
  ASSUME Inv
  PROVE  /\ \A e \in Entry : memory[e] = "live" => ~Destroyed
         /\ engine # "gone" => ~Destroyed
<1>1. ASSUME NEW e \in Entry, memory[e] = "live"
      PROVE  ~Destroyed
  <2>1. e \in Holders
    BY <1>1 DEF Holders
  <2>2. Cardinality(Holders) # 0
    BY <2>1, HoldersFinite, FS_EmptySet
  <2> QED BY <2>2, HoldersFinite DEF Inv, RefcountExact, Destroyed
<1>2. engine # "gone" => ~Destroyed
  BY HoldersFinite DEF Inv, RefcountExact, Destroyed
<1> QED BY <1>1, <1>2

(* A step that frees nothing and takes or releases no reference.           *)
LEMMA QuietStep ==
  ASSUME Inv, UNCHANGED <<queueVars, refcount, memory, dropped, engine>>
  PROVE  RingOK' /\ Linked' = Linked /\ RefcountExact'
<1>1. RingOK' /\ Linked' = Linked
  BY RingUnchanged DEF Inv, queueVars, ringVars
<1>2. Holders' = Holders
  BY DEF Holders
<1> QED BY <1>1, <1>2 DEF Inv, RefcountExact

------------------------------------------------------------------------------
(* The callback.                                                           *)

(* The callback starts: only the aio changes.                              *)
LEMMA CallbackEnterStep ==
  ASSUME Inv, NEW e \in Entry, CallbackEnter(e)
  PROVE  Inv'
<1>1. RingOK' /\ Linked' = Linked /\ RefcountExact'
  BY QuietStep DEF CallbackEnter, entryVars, loopVars
<1>2. TypeOK'
  BY DEF Inv, TypeOK, CallbackEnter, queueVars, entryVars, loopVars
<1>3. LinkedOK' /\ ActorsOK'
  BY <1>1 DEF Inv, LinkedOK, ActorsOK, CallbackEnter, queueVars, entryVars, loopVars
<1>4. \A f \in Entry : EntryOK(f)'
  BY <1>1 DEF Inv, TypeOK, EntryOK, CallbackEnter, entryVars
<1> QED BY <1>1, <1>2, <1>3, <1>4 DEF Inv

(* A completion that is not queued touches neither ring nor entry.         *)
LEMMA CompleteRefusedStep ==
  ASSUME Inv, NEW e \in Entry, CompleteRefused(e)
  PROVE  Inv'
<1>1. RingOK' /\ Linked' = Linked /\ RefcountExact'
  BY QuietStep DEF CompleteRefused, entryVars, loopVars
<1>2. TypeOK'
  BY DEF Inv, TypeOK, CompleteRefused, queueVars, entryVars, loopVars
<1>3. LinkedOK' /\ ActorsOK'
  BY <1>1 DEF Inv, LinkedOK, ActorsOK, CompleteRefused, queueVars, entryVars, loopVars
<1>4. \A f \in Entry : EntryOK(f)'
  BY <1>1 DEF Inv, TypeOK, EntryOK, CompleteRefused, entryVars
<1> QED BY <1>1, <1>2, <1>3, <1>4 DEF Inv

(* A completion puts its entry at the head of the ring.                    *)
LEMMA CompleteStep ==
  ASSUME Inv, NEW e \in Entry, Complete(e)
  PROVE  Inv'
<1>1. /\ aio[e] = "callback" /\ state[e] = "IDLE" /\ memory[e] = "live"
      /\ e \notin Linked
  BY DEF Inv, TypeOK, LinkedOK, EntryOK, Complete
<1>2. /\ RingOK' /\ Linked' \in SUBSET (Linked \cup {e})
      /\ capacity' \in Nat \ {0}
      /\ entries' \in [0..(capacity' - 1) -> Entry \cup {NoEntry}]
      /\ head' \in 0..(capacity' - 1) /\ count' \in 0..capacity'
      /\ tail' \in 0..(capacity' - 1)
  <2>1. CASE AppendInPlace(e)
    BY <1>1, <2>1, RingAppend DEF Inv, TypeOK, AppendInPlace
  <2>2. CASE GrowAndAppend(e)
    BY <1>1, <2>2, RingGrow DEF Inv
  <2>3. CASE GrowFails
    BY <2>3, RingUnchanged DEF Inv, TypeOK, GrowFails, ringVars
  <2> QED BY <2>1, <2>2, <2>3 DEF Complete
<1>3. TypeOK'
  <2>1. wake' \in 0..PipeCapacity
    BY PipeAssumption DEF Inv, TypeOK, Complete, WriteWakeByte
  <2> QED BY <1>2, <2>1 DEF Inv, TypeOK, Complete, loopVars
<1>4. LinkedOK'
  BY <1>1, <1>2 DEF Inv, TypeOK, LinkedOK, Complete
<1>5. ActorsOK'
  BY DEF Inv, ActorsOK, Complete, loopVars
<1>6. \A f \in Entry : EntryOK(f)'
  BY <1>1, <1>2 DEF Inv, TypeOK, EntryOK, Complete
<1>7. RefcountExact'
  BY DEF Inv, RefcountExact, Holders, Complete, loopVars
<1> QED BY <1>2, <1>3, <1>4, <1>5, <1>6, <1>7 DEF Inv

------------------------------------------------------------------------------
(* The helper.                                                             *)

(* A new entry counts as a holder of the queue.                            *)
LEMMA EntryNewStep ==
  ASSUME Inv, NEW e \in Entry, EntryNew(e)
  PROVE  Inv'
<1>1. RingOK' /\ Linked' = Linked
  BY RingUnchanged DEF Inv, EntryNew, queueVars, ringVars
<1>2. memory[e] = "unborn" /\ state[e] = "IDLE" /\ aio[e] = "idle"
      /\ e \notin Linked /\ e \notin Holders
  BY DEF Inv, LinkedOK, EntryOK, ActorsOK, Holders, EntryNew
<1>3. TypeOK'
  BY DEF Inv, TypeOK, EntryNew, queueVars, loopVars
<1>4. LinkedOK' /\ ActorsOK'
  BY <1>1, <1>2 DEF Inv, TypeOK, LinkedOK, ActorsOK, EntryNew, queueVars, loopVars
<1>5. \A f \in Entry : EntryOK(f)'
  BY <1>1, <1>2 DEF Inv, TypeOK, EntryOK, EntryNew
<1>6. Holders' = Holders \cup {e}
  BY <1>2 DEF Inv, TypeOK, Holders, EntryNew
<1>7. Cardinality(Holders') = Cardinality(Holders) + 1
  BY <1>2, <1>6, HoldersFinite, FS_AddElement
<1>8. RefcountExact'
  BY <1>7, HoldersFinite DEF Inv, RefcountExact, EntryNew, loopVars
<1> QED BY <1>1, <1>3, <1>4, <1>5, <1>8 DEF Inv

(* An operation starts on an entry that nobody frees.                      *)
LEMMA StartOpStep ==
  ASSUME Inv, NEW e \in Entry, StartOp(e)
  PROVE  Inv'
<1>1. RingOK' /\ Linked' = Linked /\ RefcountExact'
  BY QuietStep DEF StartOp, loopVars
<1>2. TypeOK'
  BY DEF Inv, TypeOK, StartOp, queueVars, loopVars
<1>3. LinkedOK' /\ ActorsOK'
  BY <1>1 DEF Inv, LinkedOK, ActorsOK, StartOp, queueVars, loopVars
<1>4. \A f \in Entry : EntryOK(f)'
  BY <1>1 DEF Inv, TypeOK, EntryOK, StartOp, loopVars
<1> QED BY <1>1, <1>2, <1>3, <1>4 DEF Inv

(* The loop is done with the operation.                                    *)
LEMMA FinishOpStep ==
  ASSUME Inv, NEW e \in Entry, FinishOp(e)
  PROVE  Inv'
<1>1. RingOK' /\ Linked' = Linked /\ RefcountExact'
  BY QuietStep DEF FinishOp, loopVars
<1>2. TypeOK'
  BY DEF Inv, TypeOK, FinishOp, queueVars, loopVars
<1>3. LinkedOK' /\ ActorsOK'
  BY <1>1 DEF Inv, LinkedOK, ActorsOK, FinishOp, queueVars, loopVars
<1>4. \A f \in Entry : EntryOK(f)'
  BY <1>1 DEF Inv, TypeOK, EntryOK, FinishOp, loopVars
<1> QED BY <1>1, <1>2, <1>3, <1>4 DEF Inv

(* The helper begins to free its entry.                                    *)
LEMMA FreeBeginStep ==
  ASSUME Inv, NEW e \in Entry, FreeBegin(e)
  PROVE  Inv'
<1>1. RingOK' /\ Linked' = Linked /\ RefcountExact'
  BY QuietStep DEF FreeBegin, entryVars, loopVars
<1>2. TypeOK'
  BY DEF Inv, TypeOK, FreeBegin, queueVars, entryVars, loopVars
<1>3. LinkedOK' /\ ActorsOK'
  BY <1>1 DEF Inv, LinkedOK, ActorsOK, FreeBegin, queueVars, entryVars, loopVars
<1>4. \A f \in Entry : EntryOK(f)'
  BY <1>1 DEF Inv, TypeOK, EntryOK, FreeBegin, entryVars, loopVars
<1> QED BY <1>1, <1>2, <1>3, <1>4 DEF Inv

(* The slot id of the entry is cleared.                                    *)
LEMMA EntryFreeClearSlotStep ==
  ASSUME Inv, NEW e \in Entry, EntryFreeClearSlot(e)
  PROVE  Inv'
<1>1. RingOK' /\ Linked' = Linked /\ RefcountExact'
  BY QuietStep DEF EntryFreeClearSlot, loopVars, AioStopped
<1>2. TypeOK'
  BY DEF Inv, TypeOK, EntryFreeClearSlot, queueVars, loopVars, AioStopped
<1>3. LinkedOK' /\ ActorsOK'
  BY <1>1 DEF Inv, LinkedOK, ActorsOK, EntryFreeClearSlot, queueVars, loopVars, AioStopped
<1>4. \A f \in Entry : EntryOK(f)'
  BY <1>1 DEF Inv, TypeOK, EntryOK, EntryFreeClearSlot, loopVars, AioStopped
<1> QED BY <1>1, <1>2, <1>3, <1>4 DEF Inv

(* The entry is marked FREED; one that was not queued is its helper's to   *)
(* reclaim.                                                                *)
LEMMA EntryFreeMarkStep ==
  ASSUME Inv, NEW e \in Entry, EntryFreeMark(e)
  PROVE  Inv'
<1>1. RingOK' /\ Linked' = Linked /\ RefcountExact'
  BY QuietStep DEF EntryFreeMark, loopVars
<1>2. TypeOK'
  BY DEF Inv, TypeOK, EntryFreeMark, queueVars, loopVars
<1>3. LinkedOK' /\ ActorsOK'
  BY <1>1 DEF Inv, TypeOK, LinkedOK, ActorsOK, EntryFreeMark, queueVars, loopVars
<1>4. state[e] = "IDLE" => e \notin Linked
  BY DEF Inv, LinkedOK
<1>5. \A f \in Entry : EntryOK(f)'
  BY <1>1, <1>4 DEF Inv, TypeOK, EntryOK, EntryFreeMark, Reclaims
<1> QED BY <1>1, <1>2, <1>3, <1>5 DEF Inv

(* An entry that is not linked is reclaimed by its helper.                 *)
LEMMA EntryFreeReclaimStep ==
  ASSUME Inv, NEW e \in Entry, EntryFreeReclaim(e)
  PROVE  Inv'
<1>1. RingOK' /\ Linked' = Linked
  BY RingUnchanged DEF Inv, EntryFreeReclaim, queueVars, ringVars
<1>2. /\ memory[e] = "live" /\ e \notin Linked /\ aio[e] = "idle"
      /\ e \in Holders /\ e \notin dropped["reader"] /\ e \notin dropped["engine"]
  BY DEF Inv, EntryOK, ActorsOK, Holders, EntryFreeReclaim
<1>3. Holders' = Holders \ {e}
  BY <1>2 DEF Inv, TypeOK, Holders, EntryFreeReclaim
<1>4. Cardinality(Holders') = Cardinality(Holders) - 1
      /\ Cardinality(Holders') \in Nat
  BY <1>2, <1>3, HoldersFinite, FS_RemoveElement, FS_CardinalityType
<1>5. RefcountExact' /\ refcount' \in Nat
  BY <1>4, HoldersFinite DEF Inv, RefcountExact, EntryFreeReclaim, loopVars
<1>6. TypeOK'
  BY <1>5 DEF Inv, TypeOK, EntryFreeReclaim, queueVars, loopVars
<1>7. LinkedOK' /\ ActorsOK'
  BY <1>1, <1>2 DEF Inv, TypeOK, LinkedOK, ActorsOK, EntryFreeReclaim, queueVars, loopVars
<1>8. \A f \in Entry : EntryOK(f)'
  BY <1>1, <1>2 DEF Inv, TypeOK, EntryOK, EntryFreeReclaim
<1> QED BY <1>1, <1>5, <1>6, <1>7, <1>8 DEF Inv

------------------------------------------------------------------------------
(* Unlinking.                                                              *)

(* Unlinking linked entries moves the references of the FREED ones from    *)
(* the entries to the actor that has to release them.                      *)
LEMMA UnlinkEntries ==
  ASSUME Inv, NEW S \in SUBSET Linked, NEW actor \in {"reader", "engine"},
         dropped[actor] = {}, Unlink(S, actor),
         Linked' = Linked \ S, UNCHANGED <<slot_id, aio, helper>>
  PROVE  /\ LinkedOK' /\ \A e \in Entry : EntryOK(e)'
         /\ Holders' = Holders
         /\ state' \in [Entry -> {"IDLE", "QUEUED", "FREED"}]
         /\ memory' \in [Entry -> {"unborn", "live", "freed"}]
         /\ dropped' \in [{"reader", "engine"} -> SUBSET Entry]
         /\ \A a \in {"reader", "engine"} : a # actor => dropped'[a] = dropped[a]
         /\ \A a \in {"reader", "engine"} : \A e \in dropped'[a] : memory'[e] = "freed"
<1> DEFINE orphans == {e \in S : state[e] = "FREED"}
<1>1. /\ state' = [e \in Entry |-> IF e \in S THEN "IDLE" ELSE state[e]]
      /\ memory' = [e \in Entry |-> IF e \in orphans THEN "freed" ELSE memory[e]]
      /\ dropped' = [dropped EXCEPT ![actor] = orphans]
  BY DEF Unlink
<1>2. S \in SUBSET Entry /\ orphans \in SUBSET Entry
      /\ \A e \in S : memory[e] = "live" /\ state[e] \in {"QUEUED", "FREED"}
  BY LinkedType DEF Inv, LinkedOK
<1>3. state' \in [Entry -> {"IDLE", "QUEUED", "FREED"}]
      /\ memory' \in [Entry -> {"unborn", "live", "freed"}]
  BY <1>1 DEF Inv, TypeOK
<1>4. dropped' \in [{"reader", "engine"} -> SUBSET Entry]
      /\ dropped'[actor] = orphans
      /\ \A a \in {"reader", "engine"} : a # actor => dropped'[a] = dropped[a]
  BY <1>1, <1>2 DEF Inv, TypeOK
<1>5. LinkedOK'
  BY <1>1, <1>2, LinkedType DEF Inv, LinkedOK
<1>6. ASSUME NEW e \in Entry
      PROVE  EntryOK(e)'
  <2>1. EntryOK(e)
    BY DEF Inv
  <2>2. e \in S => e \in Linked /\ memory[e] = "live"
    BY <1>2
  <2>3. state'[e] = (IF e \in S THEN "IDLE" ELSE state[e])
        /\ memory'[e] = (IF e \in orphans THEN "freed" ELSE memory[e])
        /\ helper'[e] = helper[e] /\ aio'[e] = aio[e]
    BY <1>1
  <2>4. e \in orphans <=> e \in S /\ state[e] = "FREED"
    OBVIOUS
  <2>5. state[e] \in {"QUEUED", "FREED"} \/ e \notin S
    BY <1>2
  <2> HIDE DEF orphans
  <2> QED BY <2>1, <2>2, <2>3, <2>4, <2>5 DEF EntryOK
<1>7. \A a \in {"reader", "engine"} : \A e \in dropped'[a] : memory'[e] = "freed"
  <2>1. \A a \in {"reader", "engine"} : \A e \in dropped[a] :
           memory[e] = "freed" /\ e \in Entry
    BY DEF Inv, ActorsOK, TypeOK
  <2> QED BY <1>1, <1>2, <1>4, <2>1
<1>8. Holders' = Holders
  <2>1. Holders = {e \in Entry : memory[e] = "live"} \cup
                    dropped["reader"] \cup dropped["engine"]
    BY DEF Holders
  <2>2. Holders' = {e \in Entry : memory'[e] = "live"} \cup
                     dropped'["reader"] \cup dropped'["engine"]
    BY DEF Holders
  <2>3. {e \in Entry : memory'[e] = "live"} =
          {e \in Entry : memory[e] = "live"} \ orphans
    BY <1>1
  <2>4. orphans \in SUBSET {e \in Entry : memory[e] = "live"}
    BY <1>2
  <2>5. dropped'["reader"] \cup dropped'["engine"] =
          dropped["reader"] \cup dropped["engine"] \cup orphans
    <3>1. CASE actor = "reader"
      BY <1>4, <3>1
    <3>2. CASE actor = "engine"
      BY <1>4, <3>2
    <3> QED BY <3>1, <3>2
  <2> HIDE DEF orphans
  <2> QED BY <2>1, <2>2, <2>3, <2>4, <2>5
<1> QED BY <1>3, <1>4, <1>5, <1>6, <1>7, <1>8

(* Releasing the references of dropped entries keeps the count exact.      *)
LEMMA ReleaseReferences ==
  ASSUME Inv, NEW actor \in {"reader", "engine"}, NEW own \in {0, 1},
         own = 1 <=> (engine # "gone" /\ engine' = "gone"),
         engine = "gone" => engine' = "gone",
         dropped["reader"] = {} \/ dropped["engine"] = {},
         ReleaseDropped(actor, own), UNCHANGED memory
  PROVE  /\ RefcountExact' /\ refcount' \in Nat
         /\ dropped' \in [{"reader", "engine"} -> SUBSET Entry]
         /\ dropped'[actor] = {}
         /\ \A a \in {"reader", "engine"} : a # actor => dropped'[a] = dropped[a]
<1>1. /\ refcount' = refcount - Cardinality(dropped[actor]) - own
      /\ dropped' = [dropped EXCEPT ![actor] = {}]
  BY DEF ReleaseDropped
<1>2. /\ dropped' \in [{"reader", "engine"} -> SUBSET Entry]
      /\ dropped'[actor] = {}
      /\ \A a \in {"reader", "engine"} : a # actor => dropped'[a] = dropped[a]
  BY <1>1 DEF Inv, TypeOK
<1>3. dropped[actor] \in SUBSET Holders
  BY DEF Holders
<1>4. Holders' = Holders \ dropped[actor]
  <2>1. \A e \in dropped[actor] : memory[e] = "freed"
    BY DEF Inv, ActorsOK
  <2>2. CASE actor = "reader"
    BY <1>2, <2>1, <2>2 DEF Holders
  <2>3. CASE actor = "engine"
    BY <1>2, <2>1, <2>3 DEF Holders
  <2> QED BY <2>2, <2>3
<1>5. /\ IsFiniteSet(Holders) /\ Cardinality(Holders) \in Nat
      /\ IsFiniteSet(dropped[actor]) /\ Cardinality(dropped[actor]) \in Nat
  BY <1>3, HoldersFinite, FS_Subset, FS_CardinalityType
<1>6. Cardinality(Holders') = Cardinality(Holders) - Cardinality(dropped[actor])
      /\ Cardinality(Holders') \in Nat
  <2>1. Holders \cap dropped[actor] = dropped[actor]
    BY <1>3
  <2>2. /\ IsFiniteSet(Holders \ dropped[actor])
        /\ Cardinality(Holders \ dropped[actor])
             = Cardinality(Holders) - Cardinality(Holders \cap dropped[actor])
    BY <1>5, FS_Difference
  <2> QED BY <1>4, <2>1, <2>2, FS_CardinalityType
<1>7. refcount = Cardinality(Holders) + (IF engine = "gone" THEN 0 ELSE 1)
  BY DEF Inv, RefcountExact
<1>8. refcount' = Cardinality(Holders') + (IF engine' = "gone" THEN 0 ELSE 1)
  BY <1>1, <1>5, <1>6, <1>7
<1> QED BY <1>2, <1>6, <1>8 DEF RefcountExact

------------------------------------------------------------------------------
(* The reader.                                                             *)

(* Reading the pipe touches no entry.                                      *)
LEMMA ReadPipeStep ==
  ASSUME Inv, ReadPipe
  PROVE  Inv'
<1>1. RingOK' /\ Linked' = Linked /\ RefcountExact'
  BY QuietStep DEF ReadPipe, entryVars
<1>2. TypeOK'
  BY PipeAssumption DEF Inv, TypeOK, ReadPipe, queueVars, entryVars
<1>3. LinkedOK' /\ ActorsOK'
  BY <1>1 DEF Inv, LinkedOK, ActorsOK, ReadPipe, queueVars, entryVars
<1>4. \A f \in Entry : EntryOK(f)'
  BY <1>1 DEF Inv, TypeOK, EntryOK, ReadPipe, entryVars
<1> QED BY <1>1, <1>2, <1>3, <1>4 DEF Inv

(* A drain unlinks the oldest entries.                                     *)
LEMMA DrainBatchStep ==
  ASSUME Inv, DrainBatch
  PROVE  Inv'
<1>1. PICK n \in 0..count :
        /\ batch' = Emitted(n)
        /\ Unlink(FirstN(n), "reader")
        /\ tail' = Cell(n)
        /\ count' = count - n
  BY DEF DrainBatch
<1>2. /\ RingOK' /\ Linked' = Linked \ FirstN(n)
      /\ FirstN(n) \in SUBSET Linked
      /\ tail' \in 0..(capacity' - 1) /\ count' \in 0..capacity'
  BY <1>1, RingTake DEF Inv, DrainBatch
<1>3. reader = "draining" /\ engine = "open"
      /\ dropped["reader"] = {} /\ dropped["engine"] = {}
  BY DEF Inv, ActorsOK, DrainBatch
<1>4. /\ LinkedOK' /\ \A e \in Entry : EntryOK(e)'
      /\ Holders' = Holders
      /\ state' \in [Entry -> {"IDLE", "QUEUED", "FREED"}]
      /\ memory' \in [Entry -> {"unborn", "live", "freed"}]
      /\ dropped' \in [{"reader", "engine"} -> SUBSET Entry]
      /\ \A a \in {"reader", "engine"} : a # "reader" => dropped'[a] = dropped[a]
      /\ \A a \in {"reader", "engine"} : \A e \in dropped'[a] : memory'[e] = "freed"
  BY <1>1, <1>2, <1>3, UnlinkEntries DEF DrainBatch
<1>5. batch' \in SUBSET Entry
  BY <1>1, <1>2, LinkedType DEF Inv, Emitted
<1>6. TypeOK'
  BY <1>2, <1>4, <1>5 DEF Inv, TypeOK, DrainBatch
<1>7. ActorsOK'
  BY <1>3, <1>4 DEF Inv, ActorsOK, DrainBatch
<1>8. RefcountExact'
  BY <1>4 DEF Inv, RefcountExact, DrainBatch
<1> QED BY <1>2, <1>4, <1>6, <1>7, <1>8 DEF Inv

(* The loop acts on the batch and reclaims what was dropped.               *)
LEMMA ResolveBatchStep ==
  ASSUME Inv, ResolveBatch
  PROVE  Inv'
<1>1. RingOK' /\ Linked' = Linked
  BY RingUnchanged DEF Inv, ResolveBatch, queueVars, ringVars
<1>2. engine = "open" /\ dropped["engine"] = {}
  BY DEF Inv, ActorsOK, ResolveBatch
<1>3. /\ RefcountExact' /\ refcount' \in Nat
      /\ dropped' \in [{"reader", "engine"} -> SUBSET Entry]
      /\ dropped'["reader"] = {} /\ dropped'["engine"] = dropped["engine"]
  BY <1>2, ReleaseReferences DEF ResolveBatch, entryVars
<1>4. TypeOK'
  BY <1>3 DEF Inv, TypeOK, ResolveBatch, queueVars, entryVars
<1>5. LinkedOK' /\ ActorsOK'
  BY <1>1, <1>2, <1>3 DEF Inv, LinkedOK, ActorsOK, ResolveBatch, queueVars, entryVars
<1>6. \A f \in Entry : EntryOK(f)'
  BY <1>1 DEF Inv, TypeOK, EntryOK, ResolveBatch, entryVars
<1> QED BY <1>1, <1>3, <1>4, <1>5, <1>6 DEF Inv

------------------------------------------------------------------------------
(* The engine.                                                             *)

(* Closing the queue unlinks whatever it holds.                            *)
LEMMA QueueCloseStep ==
  ASSUME Inv, QueueClose, dropped["engine"] = {}, dropped["reader"] = {},
         reader = "idle",
         engine # "gone", engine' \in {"closing", "freeing"}
  PROVE  Inv'
<1>1. FirstN(count) = Linked
  BY DEF FirstN, Linked
<1>2. count \in 0..count /\ count - count = 0
  BY DEF Inv, TypeOK
<1>3. /\ RingOK' /\ Linked' = Linked \ Linked
      /\ tail' \in 0..(capacity' - 1) /\ count' \in 0..capacity'
  BY <1>1, <1>2, RingTake DEF Inv, QueueClose
<1>4. /\ LinkedOK' /\ \A e \in Entry : EntryOK(e)'
      /\ Holders' = Holders
      /\ state' \in [Entry -> {"IDLE", "QUEUED", "FREED"}]
      /\ memory' \in [Entry -> {"unborn", "live", "freed"}]
      /\ dropped' \in [{"reader", "engine"} -> SUBSET Entry]
      /\ \A a \in {"reader", "engine"} : a # "engine" => dropped'[a] = dropped[a]
      /\ \A a \in {"reader", "engine"} : \A e \in dropped'[a] : memory'[e] = "freed"
  BY <1>3, UnlinkEntries DEF QueueClose
<1>5. TypeOK'
  BY <1>3, <1>4 DEF Inv, TypeOK, QueueClose
<1>6. ActorsOK'
  BY <1>4 DEF Inv, ActorsOK, QueueClose
<1>7. RefcountExact'
  BY <1>4 DEF Inv, RefcountExact, QueueClose
<1> QED BY <1>3, <1>4, <1>5, <1>6, <1>7 DEF Inv

(* Closing the engine empties the ring.                                    *)
LEMMA EngineCloseStep ==
  ASSUME Inv, EngineClose \/ EngineDel
  PROVE  Inv'
<1>1. /\ QueueClose /\ reader = "idle" /\ dropped["engine"] = {}
      /\ dropped["reader"] = {}
      /\ engine # "gone" /\ engine' \in {"closing", "freeing"}
  BY DEF Inv, TypeOK, ActorsOK, EngineClose, EngineDel
<1> QED BY <1>1, QueueCloseStep

(* The engine gives up its descriptors and its reference.                  *)
LEMMA EngineReleaseStep ==
  ASSUME Inv, EngineCloseFds \/ EngineRelease
  PROVE  Inv'
<1>1. /\ UNCHANGED <<queueVars, entryVars, aio, helper, future, reader, batch>>
      /\ engine \in {"closing", "freeing"} /\ engine' \in {"closed", "gone"}
      /\ reader = "idle" /\ dropped["reader"] = {}
      /\ wake' \in 0..PipeCapacity
  BY PipeAssumption DEF Inv, TypeOK, ActorsOK, EngineCloseFds, EngineRelease
<1>2. RingOK' /\ Linked' = Linked
  BY <1>1, RingUnchanged DEF Inv, queueVars, ringVars
<1>3. /\ RefcountExact' /\ refcount' \in Nat
      /\ dropped' \in [{"reader", "engine"} -> SUBSET Entry]
      /\ dropped'["engine"] = {} /\ dropped'["reader"] = dropped["reader"]
  <2>1. CASE EngineCloseFds
    BY <1>1, <2>1, ReleaseReferences DEF EngineCloseFds, entryVars
  <2>2. CASE EngineRelease
    BY <1>1, <2>2, ReleaseReferences DEF EngineRelease, entryVars
  <2> QED BY <2>1, <2>2
<1>4. TypeOK'
  BY <1>1, <1>3 DEF Inv, TypeOK, queueVars, entryVars
<1>5. LinkedOK' /\ ActorsOK'
  BY <1>1, <1>2, <1>3 DEF Inv, LinkedOK, ActorsOK, queueVars, entryVars
<1>6. \A f \in Entry : EntryOK(f)'
  BY <1>1, <1>2 DEF Inv, TypeOK, EntryOK, entryVars
<1> QED BY <1>2, <1>3, <1>4, <1>5, <1>6 DEF Inv

------------------------------------------------------------------------------
(* The invariant and what follows from it.                                 *)

(* The invariant holds of a new queue.                                     *)
LEMMA InitInv == Init => Inv
<1> SUFFICES ASSUME Init PROVE Inv
  OBVIOUS
<1>1. TypeOK
  <2>1. /\ capacity \in Nat \ {0}
        /\ head \in 0..(capacity - 1)
        /\ tail \in 0..(capacity - 1)
        /\ count \in 0..capacity
        /\ refcount \in Nat
        /\ wake \in 0..PipeCapacity
    BY CapacityAssumption, PipeAssumption DEF Init, QueueNew
  <2>2. entries \in [0..(capacity - 1) -> Entry \cup {NoEntry}]
    BY DEF Init, QueueNew
  <2>3. /\ closed \in BOOLEAN
        /\ write_fd \in BOOLEAN
    BY DEF Init, QueueNew
  <2>4. /\ state \in [Entry -> {"IDLE", "QUEUED", "FREED"}]
        /\ slot_id \in [Entry -> {"none", "waiting"}]
        /\ memory \in [Entry -> {"unborn", "live", "freed"}]
        /\ aio \in [Entry -> {"idle", "pending", "callback"}]
        /\ helper \in [Entry -> {"unborn", "ready", "waiting", "freeing",
                                 "unslotted", "reclaiming", "gone"}]
        /\ future \in [Entry -> {"none", "pending", "done"}]
    BY DEF Init
  <2>5. /\ reader \in {"idle", "draining", "resolving"}
        /\ batch \in SUBSET Entry
        /\ engine \in {"open", "closing", "closed", "freeing", "gone"}
        /\ dropped \in [{"reader", "engine"} -> SUBSET Entry]
    BY DEF Init
  <2> QED BY <2>1, <2>2, <2>3, <2>4, <2>5, Zenon DEF TypeOK
<1>2. Linked = {} /\ RingOK
  <2>1. 0 \in 0..capacity /\ tail = 0 /\ capacity \in Nat \ {0}
        /\ tail \in 0..(capacity - 1)
    BY CapacityAssumption DEF Init, QueueNew
  <2>2. Cell(0) = Wrapped(tail, 0, capacity)
    BY <2>1, WrapIs, Zenon DEF Cell
  <2>3. Cell(count) = 0
    BY <2>1, <2>2 DEF Init, QueueNew, Wrapped
  <2>4. count = 0 /\ head = 0 /\ 0..(count - 1) = {}
    BY DEF Init, QueueNew
  <2> QED BY <2>3, <2>4, Zenon DEF Linked, RingOK
<1>3. LinkedOK /\ ActorsOK
  BY <1>2 DEF Init, QueueNew, LinkedOK, ActorsOK
<1>4. \A e \in Entry : EntryOK(e)
  BY <1>2 DEF Init, EntryOK
<1>5. RefcountExact
  <2>1. Holders = {}
    BY DEF Init, Holders
  <2> QED BY <2>1, FS_EmptySet DEF Init, QueueNew, RefcountExact
<1> QED BY <1>1, <1>2, <1>3, <1>4, <1>5 DEF Inv

(* Every step preserves it.                                                *)
LEMMA NextInv == Inv /\ [Next \/ Finished]_vars => Inv'
<1> SUFFICES ASSUME Inv, [Next \/ Finished]_vars PROVE Inv'
  OBVIOUS
<1>1. ASSUME NEW e \in Entry, Callback(e) PROVE Inv'
  BY <1>1, CallbackEnterStep, CompleteStep, CompleteRefusedStep DEF Callback
<1>2. ASSUME NEW e \in Entry, Owner(e) PROVE Inv'
  BY <1>2, EntryNewStep, StartOpStep, FinishOpStep, FreeBeginStep,
     EntryFreeClearSlotStep, EntryFreeMarkStep, EntryFreeReclaimStep
     DEF Owner, Free
<1>3. CASE Reader
  BY <1>3, ReadPipeStep, DrainBatchStep, ResolveBatchStep DEF Reader
<1>4. CASE Engine
  BY <1>4, EngineCloseStep, EngineReleaseStep DEF Engine
<1>5. CASE UNCHANGED vars
  <2>1. RingOK' /\ Linked' = Linked /\ RefcountExact'
    BY <1>5, QuietStep DEF vars, queueVars
  <2>2. TypeOK' /\ LinkedOK' /\ ActorsOK'
    BY <1>5, <2>1 DEF Inv, TypeOK, LinkedOK, ActorsOK, vars
  <2>3. \A f \in Entry : EntryOK(f)'
    BY <1>5, <2>1 DEF Inv, EntryOK, vars
  <2> QED BY <2>1, <2>2, <2>3 DEF Inv
<1> QED BY <1>1, <1>2, <1>3, <1>4, <1>5 DEF Next, Finished

(* So it holds throughout.                                                 *)
LEMMA Invariance == Spec => []Inv
BY InitInv, NextInv, PTL DEF Spec

(* Every variable keeps its type: the ring's indices stay in the array     *)
(* through wrapping and growing, and no reference is released that is not  *)
(* held (pynng_mpsc_queue_new to pynng_mpsc_queue_free).                   *)
THEOREM TypeCorrect == Spec => []TypeOK
<1>1. Inv => TypeOK
  BY DEF Inv
<1> QED BY <1>1, Invariance, PTL

(* The reference count is the number of holders, whoever frees an entry    *)
(* and in whatever order engine and helpers are finalized                  *)
(* (_pynng_mpsc_queue_retain and _pynng_mpsc_queue_release).               *)
THEOREM RefcountCorrect == Spec => []RefcountExact
<1>1. Inv => RefcountExact
  BY DEF Inv
<1> QED BY <1>1, Invariance, PTL

(* No callback, helper, reader or closing engine uses a freed entry or a   *)
(* destroyed queue, and no wake byte goes to a closed descriptor.          *)
THEOREM MemorySafe == Spec => []NoUseAfterFree
<1>1. Inv => NoUseAfterFree
  <2> SUFFICES ASSUME Inv PROVE NoUseAfterFree
    OBVIOUS
  <2>1. ASSUME NEW e \in Entry,
               aio[e] # "idle" \/ helper[e] \notin {"unborn", "gone"}
        PROVE  memory[e] = "live" /\ ~Destroyed
    <3>1. memory[e] = "live"
      BY <2>1 DEF Inv, EntryOK
    <3> QED BY <3>1, QueueAlive
  <2>2. \A e \in Linked : memory[e] = "live"
    BY DEF Inv, LinkedOK
  <2>3. engine # "gone" => ~Destroyed
    BY QueueAlive
  <2>4. write_fd => engine = "open"
    BY DEF Inv, ActorsOK
  <2> QED BY <2>1, <2>2, <2>3, <2>4 DEF NoUseAfterFree
<1> QED BY <1>1, Invariance, PTL

------------------------------------------------------------------------------
(* Waking the loop.                                                        *)

(* While the queue is open its wake descriptor is valid, and what it holds *)
(* has the loop's attention.                                               *)
WakeInv ==
  /\ Inv
  /\ ~closed => write_fd
  /\ NoLostWakeup

(* A completion leaves a byte in the pipe: its own, or one that was there. *)
LEMMA CompleteWakes ==
  ASSUME Inv, write_fd, WriteWakeByte
  PROVE  wake' > 0
BY PipeAssumption DEF Inv, TypeOK, WriteWakeByte

(* A drain that ends with an empty batch has emptied the queue.            *)
LEMMA DrainEmptiesOrEmits ==
  ASSUME Inv, DrainBatch
  PROVE  count' = 0 \/ batch' # {}
<1>1. PICK n \in 0..count :
        StopsAt(n) /\ batch' = Emitted(n) /\ count' = count - n
  BY DEF DrainBatch
<1>2. CASE n = count
  BY <1>1, <1>2 DEF Inv, TypeOK
<1>3. CASE Cardinality(Emitted(n)) = MaxBatch
  BY <1>1, <1>3, BatchAssumption, FS_EmptySet
<1> QED BY <1>1, <1>2, <1>3 DEF StopsAt

(* No step leaves entries behind without a wakeup on its way.              *)
LEMMA WakeStep ==
  ASSUME WakeInv, [Next \/ Finished]_vars
  PROVE  (~closed => write_fd)' /\ NoLostWakeup'
<1>1. Inv /\ (~closed => write_fd) /\ NoLostWakeup
  BY DEF WakeInv
<1>2. ASSUME UNCHANGED <<count, closed, write_fd, reader, batch, wake>>
      PROVE  (~closed => write_fd)' /\ NoLostWakeup'
  BY <1>1, <1>2 DEF NoLostWakeup
<1>3. ASSUME NEW e \in Entry, Complete(e)
      PROVE  (~closed => write_fd)' /\ NoLostWakeup'
  <2>1. write_fd /\ WriteWakeByte /\ UNCHANGED <<closed, write_fd>>
    BY <1>1, <1>3 DEF Complete
  <2> QED BY <1>1, <2>1, CompleteWakes DEF NoLostWakeup
<1>4. ASSUME NEW e \in Entry, Callback(e) \/ Owner(e)
      PROVE  (~closed => write_fd)' /\ NoLostWakeup'
  BY <1>2, <1>3, <1>4 DEF Callback, Owner, Free, CallbackEnter, CompleteRefused,
     EntryNew, StartOp, FinishOp, FreeBegin, EntryFreeClearSlot, EntryFreeMark,
     EntryFreeReclaim, queueVars, loopVars
<1>5. CASE ReadPipe
  BY <1>1, <1>5 DEF ReadPipe, queueVars, NoLostWakeup
<1>6. CASE DrainBatch
  BY <1>1, <1>6, DrainEmptiesOrEmits DEF DrainBatch, NoLostWakeup
<1>7. CASE ResolveBatch
  BY <1>1, <1>7 DEF ResolveBatch, queueVars, NoLostWakeup
<1>8. CASE Engine
  <2>1. closed'
    BY <1>1, <1>8 DEF Engine, EngineClose, EngineCloseFds, EngineDel, EngineRelease,
       QueueClose, queueVars, Inv, ActorsOK
  <2> QED BY <2>1 DEF NoLostWakeup
<1>9. CASE UNCHANGED vars
  BY <1>2, <1>9 DEF vars
<1> QED
  BY <1>4, <1>5, <1>6, <1>7, <1>8, <1>9 DEF Next, Reader, Finished

(* An open queue that holds something has the loop's attention: a wake     *)
(* byte waits in the pipe, or the reader looks again before it sleeps.  It *)
(* holds whether or not growing the array can fail                         *)
(* (pynng_native_aio_complete, MPSCAIOEngine._on_notify).                  *)
THEOREM WakeupsNotLost == Spec => []NoLostWakeup
<1>1. Init => WakeInv
  BY InitInv DEF Init, QueueNew, WakeInv, NoLostWakeup
<1>2. WakeInv /\ [Next \/ Finished]_vars => WakeInv'
  BY NextInv, WakeStep DEF WakeInv
<1>3. WakeInv => NoLostWakeup
  BY DEF WakeInv
<1> QED BY <1>1, <1>2, <1>3, PTL DEF Spec

------------------------------------------------------------------------------
(* Who frees an entry, when growing the array cannot fail.                 *)

(* A QUEUED entry is linked, and one given up is linked or freed.          *)
OwnedInv ==
  /\ Inv
  /\ \A e \in Entry : state[e] = "QUEUED" => e \in Linked
  /\ FreedByUnlinker

(* A completion links its entry, unless the array cannot grow.             *)
LEMMA CompleteLinks ==
  ASSUME Inv, NEW e \in Entry, Complete(e), ~MallocMayFail
  PROVE  Linked' = Linked \cup {e}
<1>1. e \notin Linked
  BY DEF Inv, LinkedOK, Complete
<1> QED BY <1>1, RingAppend, RingGrow DEF Complete, Inv, GrowFails

(* Unlinking makes the entries that are owned IDLE and frees the others.   *)
LEMMA UnlinkFrees ==
  ASSUME OwnedInv, NEW S \in SUBSET Linked, NEW actor \in {"reader", "engine"},
         Unlink(S, actor), Linked' = Linked \ S, UNCHANGED helper
  PROVE  /\ \A e \in Entry : state'[e] = "QUEUED" => e \in Linked'
         /\ FreedByUnlinker'
<1>1. ASSUME NEW e \in Entry
      PROVE  /\ state'[e] = (IF e \in S THEN "IDLE" ELSE state[e])
             /\ memory'[e] = (IF e \in S /\ state[e] = "FREED" THEN "freed"
                              ELSE memory[e])
  BY DEF Unlink
<1>2. \A e \in Entry : state'[e] = "QUEUED" => e \in Linked'
  BY <1>1 DEF OwnedInv
<1>3. ASSUME NEW e \in Entry, helper[e] = "gone"
      PROVE  memory'[e] = "freed" \/ e \in Linked'
  <2>1. CASE e \in S
    <3>1. memory[e] = "live" /\ state[e] = "FREED"
      BY <1>3, <2>1 DEF OwnedInv, Inv, LinkedOK, EntryOK
    <3> QED BY <1>1, <2>1, <3>1
  <2>2. CASE e \notin S
    BY <1>1, <1>3, <2>2 DEF OwnedInv, FreedByUnlinker
  <2> QED BY <2>1, <2>2
<1> QED BY <1>2, <1>3 DEF FreedByUnlinker

(* While every drain finds memory, an entry whose helper is gone is linked *)
(* or freed.                                                               *)
LEMMA OwnedStep ==
  ASSUME OwnedInv, [Next \/ Finished]_vars, ~MallocMayFail
  PROVE  /\ \A e \in Entry : state'[e] = "QUEUED" => e \in Linked'
         /\ FreedByUnlinker'
<1> DEFINE Goal == /\ \A f \in Entry : state'[f] = "QUEUED" => f \in Linked'
                   /\ FreedByUnlinker'
<1> SUFFICES Goal
  OBVIOUS
<1>1. /\ Inv /\ FreedByUnlinker
      /\ \A f \in Entry : state[f] = "QUEUED" => f \in Linked
  BY DEF OwnedInv
<1>2. ASSUME UNCHANGED <<queueVars, state, memory, helper>>
      PROVE  Goal
  <2>1. Linked' = Linked
    BY <1>1, <1>2, RingUnchanged DEF Inv, queueVars, ringVars
  <2> QED BY <1>1, <1>2, <2>1 DEF FreedByUnlinker
<1>3. ASSUME NEW e \in Entry, Complete(e)
      PROVE  Goal
  <2>1. Linked' = Linked \cup {e}
    BY <1>1, <1>3, CompleteLinks
  <2> QED BY <1>1, <1>3, <2>1 DEF Complete, Inv, TypeOK, FreedByUnlinker
<1>4. ASSUME NEW e \in Entry, Owner(e)
      PROVE  Goal
  <2>1. UNCHANGED queueVars
    BY <1>4 DEF Owner, Free, EntryNew, StartOp, FinishOp, FreeBegin,
       EntryFreeClearSlot, EntryFreeMark, EntryFreeReclaim
  <2>2. Linked' = Linked
    BY <1>1, <2>1, RingUnchanged DEF Inv, queueVars, ringVars
  <2>3. CASE EntryNew(e)
    BY <1>1, <2>2, <2>3 DEF EntryNew, Inv, TypeOK, FreedByUnlinker
  <2>4. CASE StartOp(e) \/ FinishOp(e) \/ FreeBegin(e) \/ EntryFreeClearSlot(e)
    BY <1>1, <2>2, <2>4 DEF StartOp, FinishOp, FreeBegin, EntryFreeClearSlot,
       entryVars, Inv, TypeOK, FreedByUnlinker
  <2>5. CASE EntryFreeMark(e)
    <3>1. state[e] \in {"IDLE", "QUEUED"}
      BY <1>1, <2>5 DEF EntryFreeMark, Inv, TypeOK, EntryOK
    <3> QED BY <1>1, <2>2, <2>5, <3>1 DEF EntryFreeMark, Reclaims, Inv, TypeOK,
               FreedByUnlinker
  <2>6. CASE EntryFreeReclaim(e)
    BY <1>1, <2>2, <2>6 DEF EntryFreeReclaim, Inv, TypeOK, FreedByUnlinker
  <2> QED BY <1>4, <2>3, <2>4, <2>5, <2>6 DEF Owner, Free
<1>5. CASE DrainBatch
  <2>1. PICK n \in 0..count :
          Unlink(FirstN(n), "reader") /\ tail' = Cell(n) /\ count' = count - n
    BY <1>5 DEF DrainBatch
  <2>2. Linked' = Linked \ FirstN(n) /\ FirstN(n) \in SUBSET Linked
    BY <1>1, <1>5, <2>1, RingTake DEF Inv, DrainBatch
  <2> QED BY <1>5, <2>1, <2>2, UnlinkFrees DEF DrainBatch
<1>6. CASE EngineClose \/ EngineDel
  <2>1. QueueClose
    BY <1>6 DEF EngineClose, EngineDel
  <2>2. count \in 0..count /\ count - count = 0 /\ FirstN(count) = Linked
    BY <1>1 DEF Inv, TypeOK, FirstN, Linked
  <2>3. Linked' = Linked \ Linked
    BY <1>1, <2>1, <2>2, RingTake DEF Inv, QueueClose
  <2> QED BY <2>1, <2>3, UnlinkFrees DEF QueueClose
<1> HIDE DEF Goal
<1>7. CASE EngineCloseFds \/ EngineRelease \/ ReadPipe \/ ResolveBatch
  BY <1>2, <1>7 DEF EngineCloseFds, EngineRelease, ReadPipe, ResolveBatch, entryVars
<1>8. ASSUME NEW e \in Entry, CallbackEnter(e) \/ CompleteRefused(e)
      PROVE  Goal
  BY <1>2, <1>8 DEF CallbackEnter, CompleteRefused, entryVars
<1>9. CASE UNCHANGED vars
  BY <1>2, <1>9 DEF vars, queueVars
<1> QED
  BY <1>3, <1>4, <1>5, <1>6, <1>7, <1>8, <1>9
     DEF Next, Callback, Reader, Engine, Finished

(* "A QUEUED entry is freed by whoever unlinks it from the queue" is true  *)
(* as long as growing the array does not fail: an entry is linked at most  *)
(* once, QUEUED only while linked, and none that its owner gave up is      *)
(* forgotten (pynng_aio_entry_free, pynng_mpsc_drain_batch,                *)
(* pynng_mpsc_queue_close).                                                *)
THEOREM EntriesOwnedOrLinked ==
  ASSUME ~MallocMayFail
  PROVE  Spec => []OwnedOrLinked
<1>1. Init => OwnedInv
  BY InitInv DEF Init, OwnedInv, FreedByUnlinker
<1>2. OwnedInv /\ [Next \/ Finished]_vars => OwnedInv'
  <2> SUFFICES ASSUME OwnedInv, [Next \/ Finished]_vars PROVE OwnedInv'
    OBVIOUS
  <2>1. Inv'
    BY NextInv DEF OwnedInv
  <2> QED BY <2>1, OwnedStep DEF OwnedInv
<1>3. OwnedInv => OwnedOrLinked
  BY DEF OwnedInv, Inv, RingOK, LinkedOK, OwnedOrLinked
<1> QED BY <1>1, <1>2, <1>3, PTL DEF Spec

------------------------------------------------------------------------------
(* The ring implements the abstract queue, step by step.                   *)

(* A function on 1..n is a sequence of length n.                           *)
LEMMA FunctionIsSeq ==
  ASSUME NEW S, NEW n \in Nat, NEW f \in [1..n -> S]
  PROVE  f \in Seq(S) /\ Len(f) = n
<1>1. f \in Seq(S)
  BY SeqDef
<1>2. Len(f) \in Nat /\ DOMAIN f = 1..Len(f)
  BY <1>1, LenProperties
<1>3. 1..Len(f) = 1..n
  BY <1>2
<1> QED BY <1>1, <1>2, <1>3

(* What the ring holds, oldest first, is a sequence of entries.            *)
LEMMA ContentsIsSeq ==
  ASSUME TypeOK, RingOK
  PROVE  /\ Contents \in Seq(Entry) /\ Len(Contents) = count
         /\ \A i \in 1..count : Contents[i] = At(i - 1)
<1>1. count \in Nat /\ \A i \in 1..count : i - 1 \in 0..(count - 1)
  BY DEF TypeOK
<1>2. Contents \in [1..count -> Entry]
  BY <1>1 DEF Contents, RingOK
<1>3. \A i \in 1..count : Contents[i] = At(i - 1)
  BY Zenon DEF Contents
<1> QED BY <1>1, <1>2, <1>3, FunctionIsSeq

(* The same of the next state.                                             *)
LEMMA NextContentsIsSeq ==
  ASSUME TypeOK', RingOK'
  PROVE  /\ Contents' \in Seq(Entry) /\ Len(Contents') = count'
         /\ \A i \in 1..count' : Contents'[i] = At(i - 1)'
<1>1. count' \in Nat /\ \A i \in 1..count' : i - 1 \in 0..(count' - 1)
  <2>1. capacity' \in Nat \ {0} /\ count' \in 0..capacity'
    BY Zenon DEF TypeOK
  <2>2. count' \in Nat
    BY <2>1
  <2>3. ASSUME NEW k \in Nat
        PROVE  \A i \in 1..k : i - 1 \in 0..(k - 1)
    OBVIOUS
  <2> QED BY <2>2, <2>3, Zenon
<1>2. \A i \in 1..count' : Contents'[i] = At(i - 1)'
  BY Zenon DEF Contents
<1>3. \A i \in 0..(count' - 1) : At(i)' \in Entry
  BY DEF RingOK
<1>4. Contents' \in [1..count' -> Entry]
  <2>1. Contents' = [i \in 1..count' |-> At(i - 1)']
    BY Zenon DEF Contents
  <2> QED BY <1>1, <1>3, <2>1
<1> QED BY <1>1, <1>2, <1>4, FunctionIsSeq

(* A ring that does not change holds the same.                             *)
LEMMA ContentsUnchanged ==
  ASSUME UNCHANGED ringVars
  PROVE  Contents' = Contents
BY DEF Contents, At, Cell, ringVars

(* The abstract queue's members are the linked entries.                    *)
LEMMA QueuedIsLinked ==
  ASSUME TypeOK, RingOK
  PROVE  /\ Fifo!Queued = Linked
         /\ \A n \in 0..count : Fifo!FirstN(n) = FirstN(n)
<1>1. /\ Len(Contents) = count
      /\ \A i \in 1..count : Contents[i] = At(i - 1)
  BY ContentsIsSeq
<1>2. /\ \A i \in 1..count : i - 1 \in 0..(count - 1)
      /\ \A k \in 0..(count - 1) : k + 1 \in 1..count /\ (k + 1) - 1 = k
  BY DEF TypeOK
<1>3. \A k \in 0..(count - 1) : Contents[k + 1] = At(k)
  BY <1>1, <1>2
<1>4. Fifo!Queued = {Contents[i] : i \in 1..count}
  BY <1>1, Zenon DEF Fifo!Queued
<1>5. Fifo!Queued = Linked
  <2>1. \A i \in 1..count : Contents[i] \in Linked
    BY <1>1, <1>2, Zenon DEF Linked
  <2>2. \A k \in 0..(count - 1) : At(k) \in {Contents[i] : i \in 1..count}
    BY <1>2, <1>3, Zenon
  <2> QED BY <1>4, <2>1, <2>2 DEF Linked
<1>6. ASSUME NEW n \in 0..count
      PROVE  Fifo!FirstN(n) = FirstN(n)
  <2>1. /\ \A i \in 1..n : i - 1 \in 0..(n - 1) /\ i \in 1..count
        /\ \A k \in 0..(n - 1) : k + 1 \in 1..n /\ k \in 0..(count - 1)
    BY DEF TypeOK
  <2>2. \A i \in 1..n : Contents[i] \in FirstN(n)
    BY <1>1, <2>1, Zenon DEF FirstN
  <2>3. \A k \in 0..(n - 1) : At(k) \in {Contents[i] : i \in 1..n}
    BY <1>3, <2>1, Zenon
  <2> QED BY <2>2, <2>3 DEF FirstN, Fifo!FirstN
<1> QED BY <1>5, <1>6

(* A linked completion is the abstract one; one that a full array refuses  *)
(* leaves the abstract queue alone.                                        *)
LEMMA CompleteRefines ==
  ASSUME Inv, Inv', NEW e \in Entry, Complete(e)
  PROVE  Fifo!Complete(e) \/ UNCHANGED Fifo!vars
<1>1. e \notin Linked /\ ~closed /\ UNCHANGED <<closed, batch>>
  BY DEF Inv, LinkedOK, Complete, loopVars
<1>2. TypeOK /\ RingOK /\ TypeOK' /\ RingOK' /\ count \in Nat
  <2>1. TypeOK /\ RingOK /\ TypeOK' /\ RingOK'
    BY DEF Inv
  <2>2. capacity \in Nat /\ count \in 0..capacity
    BY <2>1 DEF TypeOK
  <2> QED BY <2>1, <2>2
<1>3. CASE GrowFails
  BY <1>1, <1>3, ContentsUnchanged DEF GrowFails, Fifo!vars
<1>4. CASE AppendInPlace(e) \/ GrowAndAppend(e)
  <2>1. /\ \A i \in 0..(count - 1) : At(i)' = At(i)
        /\ \A k : k = count => At(k)' = e
    BY <1>1, <1>2, <1>4, RingAppend, RingGrow, Zenon
  <2>2. count' = count + 1
    BY <1>4 DEF AppendInPlace, GrowAndAppend
  <2>3. /\ Contents \in Seq(Entry) /\ Len(Contents) = count
        /\ \A i \in 1..count : Contents[i] = At(i - 1)
    BY <1>2, ContentsIsSeq
  <2>4. /\ Contents' \in Seq(Entry) /\ Len(Contents') = count'
        /\ \A i \in 1..count' : Contents'[i] = At(i - 1)'
    BY <1>2, NextContentsIsSeq
  <2>5. /\ Append(Contents, e) \in Seq(Entry)
        /\ Len(Append(Contents, e)) = count + 1
        /\ \A i \in 1..count : Append(Contents, e)[i] = Contents[i]
        /\ \A i : i = count + 1 => Append(Contents, e)[i] = e
    BY <2>3, AppendProperties
  <2>6. ASSUME NEW i \in 1..(count + 1)
        PROVE  Contents'[i] = Append(Contents, e)[i]
    <3>1. Contents'[i] = At(i - 1)'
      BY <2>2, <2>4, Zenon
    <3>2. CASE i = count + 1
      <4>1. i - 1 = count
        BY <1>2, <3>2
      <4> QED BY <2>1, <2>5, <3>1, <3>2, <4>1, Zenon
    <3>3. CASE i # count + 1
      <4>1. i \in 1..count /\ i - 1 \in 0..(count - 1)
        BY <1>2, <3>3
      <4> QED BY <2>1, <2>3, <2>5, <3>1, <4>1, Zenon
    <3> QED BY <3>2, <3>3
  <2>7. Contents' = Append(Contents, e)
    BY <2>2, <2>4, <2>5, <2>6, SeqEqual
  <2>8. e \notin Fifo!Queued
    BY <1>1, <1>2, QueuedIsLinked
  <2> QED BY <1>1, <2>7, <2>8 DEF Fifo!Complete
<1> QED BY <1>3, <1>4 DEF Complete

(* What the first n entries emit grows by at most one with n.              *)
LEMMA EmittedGrows ==
  ASSUME Inv, NEW n \in 1..count
  PROVE  Emitted(n) \in SUBSET (Emitted(n - 1) \cup {At(n - 1)})
<1>1. 0..(n - 1) = 0..((n - 1) - 1) \cup {n - 1}
  BY DEF Inv, TypeOK
<1>2. FirstN(n) = FirstN(n - 1) \cup {At(n - 1)}
  BY <1>1, Zenon DEF FirstN
<1> QED BY <1>2, Zenon DEF Emitted

(* A batch fits the caller's buffer.                                       *)
LEMMA BatchFits ==
  ASSUME Inv, NEW n \in 0..count, StopsAt(n)
  PROVE  Cardinality(Emitted(n)) =< MaxBatch
<1>1. CASE n = 0
  <2>1. 0..(n - 1) = {}
    BY <1>1
  <2>2. Emitted(n) = {}
    BY <2>1, Zenon DEF Emitted, FirstN
  <2> QED BY <2>2, FS_EmptySet, BatchAssumption
<1>2. CASE n # 0
  <2>1. n \in 1..count /\ n - 1 \in 0..(n - 1) /\ n - 1 \in 0..count
    BY <1>2 DEF Inv, TypeOK
  <2>2. Cardinality(Emitted(n - 1)) < MaxBatch
    BY <2>1, Zenon DEF StopsAt
  <2>3. Emitted(n) \in SUBSET (Emitted(n - 1) \cup {At(n - 1)})
    BY <2>1, EmittedGrows
  <2>4. Emitted(n - 1) \in SUBSET Entry
    <3>1. FirstN(n - 1) \in SUBSET Entry
      <4>1. \A k \in 0..((n - 1) - 1) : k \in 0..(count - 1)
        BY <2>1 DEF Inv, TypeOK
      <4>2. \A k \in 0..(count - 1) : At(k) \in Entry
        BY DEF Inv, RingOK
      <4> QED BY <4>1, <4>2, Zenon DEF FirstN
    <3> QED BY <3>1, Zenon DEF Emitted
  <2>5. IsFiniteSet(Emitted(n - 1)) /\ Cardinality(Emitted(n - 1)) \in Nat
    BY <2>4, EntryAssumption, FS_Subset, FS_CardinalityType
  <2>6. /\ IsFiniteSet(Emitted(n - 1) \cup {At(n - 1)})
        /\ Cardinality(Emitted(n - 1) \cup {At(n - 1)})
             =< Cardinality(Emitted(n - 1)) + 1
    BY <2>5, FS_AddElement
  <2>7. /\ Cardinality(Emitted(n)) \in Nat
        /\ Cardinality(Emitted(n)) =< Cardinality(Emitted(n - 1) \cup {At(n - 1)})
        /\ Cardinality(Emitted(n - 1) \cup {At(n - 1)}) \in Nat
    BY <2>3, <2>6, FS_Subset, FS_CardinalityType
  <2> QED BY <2>2, <2>5, <2>6, <2>7, BatchAssumption
<1> QED BY <1>1, <1>2

(* The abstract queue counts as the ring does.                             *)
LEMMA SameCardinality == \A S : Fifo!Cardinality(S) = Cardinality(S)
BY Zenon DEF Fifo!Cardinality, Cardinality

(* A drain takes the oldest entries and hands out a full batch unless it   *)
(* took them all.                                                          *)
LEMMA DrainRefines ==
  ASSUME Inv, Inv', DrainBatch
  PROVE  Fifo!Drain
<1>1. PICK n \in 0..count :
        StopsAt(n) /\ batch' = Emitted(n) /\ tail' = Cell(n) /\ count' = count - n
  BY DEF DrainBatch
<1>2. /\ TypeOK /\ RingOK /\ TypeOK' /\ RingOK' /\ count \in Nat
      /\ UNCHANGED <<entries, capacity, head, closed>>
  <2>1. TypeOK /\ RingOK /\ TypeOK' /\ RingOK'
    BY DEF Inv
  <2>2. capacity \in Nat /\ count \in 0..capacity
    BY <2>1 DEF TypeOK
  <2> QED BY <2>1, <2>2 DEF DrainBatch
<1>3. \A i \in 0..(count' - 1) : At(i)' = At(n + i)
  BY <1>1, <1>2, RingTake, Zenon
<1>4. /\ Contents \in Seq(Entry) /\ Len(Contents) = count
      /\ \A i \in 1..count : Contents[i] = At(i - 1)
  BY <1>2, ContentsIsSeq
<1>5. /\ Contents' \in Seq(Entry) /\ Len(Contents') = count'
      /\ \A i \in 1..count' : Contents'[i] = At(i - 1)'
  BY <1>2, NextContentsIsSeq
<1>6. /\ SubSeq(Contents, n + 1, count) \in Seq(Entry)
      /\ Len(SubSeq(Contents, n + 1, count)) = count - n
      /\ \A i \in 1..(count - n) :
           SubSeq(Contents, n + 1, count)[i] = Contents[n + i]
  <2>1. \A i \in (n + 1)..count : Contents[i] \in Entry
    BY <1>2, <1>4, ElementOfSeq
  <2>2. /\ SubSeq(Contents, n + 1, count) \in Seq(Entry)
        /\ Len(SubSeq(Contents, n + 1, count))
             = IF n + 1 =< count THEN count - (n + 1) + 1 ELSE 0
        /\ \A i \in 1..(count - (n + 1) + 1) :
             SubSeq(Contents, n + 1, count)[i] = Contents[(n + 1) + i - 1]
    BY <1>2, <2>1, SubSeqProperties
  <2>3. count - (n + 1) + 1 = count - n
        /\ \A i \in 1..(count - n) : (n + 1) + i - 1 = n + i
    BY <1>2
  <2> QED BY <1>2, <2>2, <2>3
<1>7. ASSUME NEW i \in 1..(count - n)
      PROVE  Contents'[i] = SubSeq(Contents, n + 1, count)[i]
  <2>1. /\ i - 1 \in 0..(count' - 1) /\ i \in 1..count' /\ n + i \in 1..count
        /\ n + (i - 1) = (n + i) - 1
    BY <1>1, <1>2
  <2>2. Contents'[i] = At(n + (i - 1))
    BY <1>3, <1>5, <2>1, Zenon
  <2>3. Contents[n + i] = At((n + i) - 1)
    BY <1>4, <2>1, Zenon
  <2> QED BY <1>6, <2>1, <2>2, <2>3, Zenon
<1>8. Contents' = SubSeq(Contents, n + 1, Len(Contents))
  BY <1>1, <1>4, <1>5, <1>6, <1>7, SeqEqual
<1>9. /\ batch' \in SUBSET Fifo!FirstN(n)
      /\ Cardinality(batch') =< MaxBatch
      /\ n < Len(Contents) => Cardinality(batch') = MaxBatch
  <2>1. Fifo!FirstN(n) = FirstN(n)
    BY <1>2, QueuedIsLinked
  <2>2. batch' \in SUBSET Fifo!FirstN(n)
    BY <1>1, <2>1, Zenon DEF Emitted
  <2>3. Cardinality(batch') =< MaxBatch
    BY <1>1, BatchFits, Zenon
  <2>4. n < Len(Contents) => Cardinality(batch') = MaxBatch
    BY <1>1, <1>2, <1>4 DEF StopsAt
  <2> QED BY <2>2, <2>3, <2>4
<1>10. n \in 0..Len(Contents) /\ UNCHANGED ~closed
  BY <1>2, <1>4
<1> QED BY <1>8, <1>9, <1>10, SameCardinality, Zenon DEF Fifo!Drain

(* A closed queue holds nothing.                                           *)
LEMMA CloseRefines ==
  ASSUME Inv', QueueClose
  PROVE  Fifo!Close
<1>1. /\ Contents' \in Seq(Entry) /\ Len(Contents') = 0
  BY NextContentsIsSeq DEF Inv, QueueClose
<1>2. Contents' = <<>>
  BY <1>1, EmptySeq
<1> QED BY <1>2 DEF Fifo!Close, QueueClose

(* Every step of the ring is a step of the abstract queue, or leaves it    *)
(* alone.                                                                  *)
LEMMA StepRefines ==
  ASSUME Inv, Inv', [Next \/ Finished]_vars
  PROVE  [Fifo!Next]_Fifo!vars
<1>1. ASSUME UNCHANGED <<queueVars, batch>>
      PROVE  UNCHANGED Fifo!vars
  BY <1>1, ContentsUnchanged DEF Fifo!vars, queueVars, ringVars
<1>2. ASSUME NEW e \in Entry, Complete(e)
      PROVE  [Fifo!Next]_Fifo!vars
  BY <1>2, CompleteRefines DEF Fifo!Next
<1>3. ASSUME NEW e \in Entry, Callback(e) \/ Owner(e)
      PROVE  [Fifo!Next]_Fifo!vars
  BY <1>1, <1>2, <1>3 DEF Callback, Owner, Free, CallbackEnter, CompleteRefused,
     EntryNew, StartOp, FinishOp, FreeBegin, EntryFreeClearSlot, EntryFreeMark,
     EntryFreeReclaim, loopVars
<1>4. CASE DrainBatch
  BY <1>4, DrainRefines DEF Fifo!Next
<1>5. CASE ResolveBatch
  <2>1. Contents' = Contents /\ batch' = {} /\ closed' = closed
    BY <1>5, ContentsUnchanged DEF ResolveBatch, queueVars, ringVars
  <2> QED BY <2>1 DEF Fifo!Next, Fifo!Resolve
<1>6. CASE EngineClose \/ EngineDel
  BY <1>6, CloseRefines DEF EngineClose, EngineDel, Fifo!Next
<1>7. CASE ReadPipe \/ EngineCloseFds \/ EngineRelease
  BY <1>1, <1>7 DEF ReadPipe, EngineCloseFds, EngineRelease
<1>8. CASE UNCHANGED vars
  BY <1>1, <1>8 DEF vars, queueVars
<1> QED
  BY <1>3, <1>4, <1>5, <1>6, <1>7, <1>8 DEF Next, Reader, Engine, Finished

(* The ring buffer implements the queue: wrapping, growing and the batches *)
(* neither lose, repeat nor reorder an entry, for every capacity and batch *)
(* size, and a batch that is not full leaves nothing behind                *)
(* (pynng_native_aio_complete, pynng_mpsc_drain_batch,                     *)
(* pynng_mpsc_queue_close).                                                *)
THEOREM RingImplementsFifo == Spec => RefinesFifo
<1>1. Init => Fifo!Init
  <2> SUFFICES ASSUME Init PROVE Fifo!Init
    OBVIOUS
  <2>1. Inv /\ count = 0 /\ ~closed /\ batch = {}
    BY InitInv DEF Init, QueueNew
  <2>2. Contents \in Seq(Entry) /\ Len(Contents) = 0
    BY <2>1, ContentsIsSeq DEF Inv
  <2>3. Contents = <<>>
    BY <2>2, EmptySeq
  <2> QED BY <2>1, <2>3 DEF Fifo!Init
<1>2. Inv /\ Inv' /\ [Next \/ Finished]_vars => [Fifo!Next]_Fifo!vars
  BY StepRefines
<1> QED BY <1>1, <1>2, Invariance, PTL DEF Spec, RefinesFifo, Fifo!Spec
=============================================================================
