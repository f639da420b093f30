---------------------------- MODULE RingArithmetic ----------------------------
(***************************************************************************)
(* Facts about the positions of a ring buffer of c cells: position k,      *)
(* counted from the tail t, is the cell (t + k) % c.                       *)
(***************************************************************************)
EXTENDS Integers, TLAPS

(* The cell of a position without the remainder, for one round.            *)
Wrapped(t, k, c) == IF t + k < c THEN t + k ELSE t + k - c

(* One subtraction reduces a position that is at most a round away.        *)
LEMMA WrapIs ==
  ASSUME NEW c \in Nat \ {0}, NEW t \in 0..(c - 1), NEW k \in 0..c
  PROVE  (t + k) % c = Wrapped(t, k, c)
<1>1. CASE t + k < c
  BY <1>1 DEF Wrapped
<1>2. CASE ~(t + k < c)
  BY <1>2 DEF Wrapped
<1> QED BY <1>1, <1>2

(* Positions are cells.                                                    *)
LEMMA WrapRange ==
  ASSUME NEW c \in Nat \ {0}, NEW t \in 0..(c - 1), NEW k \in 0..c
  PROVE  (t + k) % c \in 0..(c - 1)
<1>1. Wrapped(t, k, c) \in 0..(c - 1)
  BY DEF Wrapped
<1> QED BY <1>1, WrapIs, Zenon

(* Positions less than a round apart are different cells.                  *)
LEMMA WrapInjective ==
  ASSUME NEW c \in Nat \ {0}, NEW t \in 0..(c - 1),
         NEW i \in 0..(c - 1), NEW j \in 0..(c - 1)
  PROVE  (t + i) % c = (t + j) % c => i = j
<1>1. i \in 0..c /\ j \in 0..c
  OBVIOUS
<1>2. (t + i) % c = Wrapped(t, i, c) /\ (t + j) % c = Wrapped(t, j, c)
  BY <1>1, WrapIs, Zenon
<1>3. Wrapped(t, i, c) = Wrapped(t, j, c) => i = j
  BY DEF Wrapped
<1> QED BY <1>2, <1>3, Zenon

(* Moving the tail by n renumbers the positions by n.                      *)
LEMMA WrapShift ==
  ASSUME NEW c \in Nat \ {0}, NEW t \in 0..(c - 1),
         NEW n \in Nat, NEW i \in Nat, n + i =< c
  PROVE  (((t + n) % c) + i) % c = (t + (n + i)) % c
<1> DEFINE u == Wrapped(t, n, c)
<1>1. n \in 0..c /\ i \in 0..c /\ n + i \in 0..c
  OBVIOUS
<1>2. u \in 0..(c - 1)
  BY <1>1 DEF Wrapped
<1>3. Wrapped(u, i, c) = Wrapped(t, n + i, c)
  BY <1>1 DEF Wrapped
<1>4. (t + n) % c = u /\ (t + (n + i)) % c = Wrapped(t, n + i, c)
  BY <1>1, WrapIs, Zenon
<1> HIDE DEF u
<1>5. (u + i) % c = Wrapped(u, i, c)
  BY <1>1, <1>2, WrapIs, Zenon
<1> QED BY <1>3, <1>4, <1>5, Zenon
=============================================================================
