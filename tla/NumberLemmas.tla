---------------------------- MODULE NumberLemmas ----------------------------
(***************************************************************************)
(* Arithmetic the proofs share: the rings of descriptors of eth_dma.vhd    *)
(* and the beats of a frame (remainders, places on a ring, quotients), and *)
(* the least number of a set, which the priority encoders choose.          *)
(***************************************************************************)
EXTENDS Naturals, WellFoundedInduction, TLAPS

NatLess == {ss \in Nat \X Nat : ss[1] < ss[2]}

(* The library's fact, for the relation written as a set. *)
LEMMA NatLessWellFounded == IsWellFoundedOn(NatLess, Nat)
  BY NatLessThanWellFounded, Zenon DEF OpToRel, NatLess

(* A set of numbers has a least one. *)
LEMMA LeastNumber ==
  ASSUME NEW T, T \subseteq Nat, T # {}
  PROVE  \E p \in T : \A q \in T : p <= q
<1>1. PICK p \in T : \A q \in T : ~(<<q, p>> \in NatLess)
  BY NatLessWellFounded, WFMin
<1>2. \A q \in T : p <= q
  <2> SUFFICES ASSUME NEW q \in T PROVE p <= q
    OBVIOUS
  <2>1. p \in Nat /\ q \in Nat
    OBVIOUS
  <2>2. ~(q < p)
    BY <1>1, <2>1 DEF NatLess
  <2> QED BY <2>1, <2>2
<1> QED BY <1>2

(* One turn around a ring of n. *)
LEMMA ModTurn ==
  ASSUME NEW n \in Nat \ {0}, NEW x \in 0 .. 2 * n - 1
  PROVE  x % n = IF x < n THEN x ELSE x - n
OBVIOUS

(* A number without remainder is a multiple. *)
LEMMA ModQuotient ==
  ASSUME NEW n \in Nat \ {0}, NEW x \in Nat, x % n = 0
  PROVE  \E q \in Nat : x = n * q
<1>1. x \div n \in Nat
  BY Z3
<1>2. x = n * (x \div n) + (x % n)
  BY Z3
<1>3. x = n * (x \div n)
  BY <1>1, <1>2
<1> QED BY <1>1, <1>3

LEMMA ModMultiple ==
  ASSUME NEW n \in Nat \ {0}, NEW q \in Nat
  PROVE  (n * q) % n = 0
BY Z3

(* The next multiple. *)
LEMMA ModStep ==
  ASSUME NEW n \in Nat \ {0}, NEW x \in Nat, x % n = 0
  PROVE  (x + n) % n = 0
<1>1. PICK q \in Nat : x = n * q
  BY ModQuotient
<1>2. x + n = n * (q + 1)
  BY <1>1
<1>3. (n * (q + 1)) % n = 0
  BY ModMultiple
<1> QED BY <1>2, <1>3

(* Multiples lie at least n apart. *)
LEMMA ModApart ==
  ASSUME NEW n \in Nat \ {0}, NEW x \in Nat, NEW y \in Nat,
         x % n = 0, y % n = 0, x <= y, y < x + n
  PROVE  x = y
<1>1. PICK q \in Nat : x = n * q
  BY ModQuotient
<1>2. PICK r \in Nat : y = n * r
  BY ModQuotient
<1>3. CASE r > q
  <2>1. PICK d \in Nat : r = q + 1 + d
    BY <1>3
  <2>2. y = x + n + n * d
    BY <1>1, <1>2, <2>1
  <2>3. n * d >= 0
    OBVIOUS
  <2> QED BY <2>2, <2>3
<1>4. CASE r < q
  <2>1. PICK d \in Nat : q = r + 1 + d
    BY <1>4
  <2>2. x = y + n + n * d
    BY <1>1, <1>2, <2>1
  <2>3. n * d >= 0
    OBVIOUS
  <2> QED BY <2>2, <2>3
<1>5. CASE r = q
  BY <1>1, <1>2, <1>5
<1> QED BY <1>3, <1>4, <1>5

-----------------------------------------------------------------------------
(* On a ring of n: the place k on from p, and how far i lies ahead of p. *)
At(n, p, k) == IF p + k < n THEN p + k ELSE p + k - n
Dist(n, i, p) == IF i >= p THEN i - p ELSE i + n - p

LEMMA AtMod ==
  \A n \in Nat \ {0} : \A p \in 0 .. n - 1 : \A k \in 0 .. n :
    (p + k) % n = At(n, p, k)
<1> SUFFICES ASSUME NEW n \in Nat \ {0}, NEW p \in 0 .. n - 1, NEW k \in 0 .. n
             PROVE  (p + k) % n = At(n, p, k)
  OBVIOUS
<1>1. PICK y \in 0 .. 2 * n - 1 : y = p + k
  OBVIOUS
<1>2. y % n = IF y < n THEN y ELSE y - n
  BY ModTurn
<1> QED BY <1>1, <1>2 DEF At

LEMMA DistMod ==
  \A n \in Nat \ {0} : \A i, p \in 0 .. n - 1 :
    (i + n - p) % n = Dist(n, i, p)
<1> SUFFICES ASSUME NEW n \in Nat \ {0}, NEW i \in 0 .. n - 1, NEW p \in 0 .. n - 1
             PROVE  (i + n - p) % n = Dist(n, i, p)
  OBVIOUS
<1>1. PICK y \in 0 .. 2 * n - 1 : y = i + n - p
  OBVIOUS
<1>2. y % n = IF y < n THEN y ELSE y - n
  BY ModTurn
<1> QED BY <1>1, <1>2 DEF Dist

-----------------------------------------------------------------------------
(* Quotients: of a multiple and a rest, and a lower bound. *)
LEMMA DivRest ==
  ASSUME NEW b \in Nat \ {0}, NEW q \in Nat, NEW r \in 0 .. b - 1
  PROVE  (b * q + r) \div b = q
BY Z3

LEMMA DivAtLeast ==
  ASSUME NEW b \in Nat \ {0}, NEW q \in Nat, NEW d \in Nat
  PROVE  (b * q + d) \div b >= q
<1>1. PICK e, r \in Nat : d = b * e + r /\ r < b
  <2>1. d \div b \in Nat /\ d % b \in Nat /\ d % b < b
    BY Z3
  <2>2. d = b * (d \div b) + (d % b)
    BY Z3
  <2> QED BY <2>1, <2>2
<1>2. b * q + d = b * (q + e) + r
  BY <1>1
<1>3. (b * (q + e) + r) \div b = q + e
  BY <1>1, DivRest
<1> QED BY <1>2, <1>3

-----------------------------------------------------------------------------
(* Places and distances on a ring *)
LEMMA DistType ==
  ASSUME NEW n \in Nat \ {0}, NEW i \in 0 .. n - 1, NEW p \in 0 .. n - 1
  PROVE  Dist(n, i, p) \in 0 .. n - 1 /\ At(n, p, Dist(n, i, p)) = i
         /\ (Dist(n, i, p) = 0 <=> i = p)
BY DEF Dist, At

LEMMA AtDist ==
  ASSUME NEW n \in Nat \ {0}, NEW p \in 0 .. n - 1, NEW k \in 0 .. n - 1
  PROVE  At(n, p, k) \in 0 .. n - 1 /\ Dist(n, At(n, p, k), p) = k
BY DEF Dist, At

LEMMA AtNext ==
  ASSUME NEW n \in Nat \ {0}, n >= 2, NEW p \in 0 .. n - 1, NEW k \in 0 .. n - 1
  PROVE  /\ At(n, At(n, p, k), 1) = At(n, p, k + 1)
         /\ At(n, p, 0) = p /\ At(n, p, n) = p
         /\ At(n, At(n, p, 1), k) = At(n, p, k + 1)
BY DEF At

LEMMA DistNext ==
  ASSUME NEW n \in Nat \ {0}, n >= 2, NEW i \in 0 .. n - 1, NEW p \in 0 .. n - 1
  PROVE  Dist(n, i, At(n, p, 1)) = IF i = p THEN n - 1 ELSE Dist(n, i, p) - 1
BY DEF Dist, At
=============================================================================
