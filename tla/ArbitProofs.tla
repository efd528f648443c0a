---------------------------- MODULE ArbitProofs ----------------------------
(***************************************************************************)
(* What the arbiter guarantees for every number of agents.                 *)
(***************************************************************************)
EXTENDS ArbitEnv, NumberLemmas, TLAPS

(* The sum of two residues, reduced once: the rotation of a request. *)
LEMMA ModSum ==
    ASSUME NEW n \in Nat \ {0}, NEW i \in 0 .. n - 1, NEW j \in 0 .. n - 1
    PROVE  (i + j) % n = IF i + j < n THEN i + j ELSE i + j - n
  OBVIOUS

(* The difference of two residues, made positive and reduced: the index the *)
(* rotation is undone with.                                                 *)
LEMMA ModDiff ==
    ASSUME NEW n \in Nat \ {0}, NEW i \in 0 .. n - 1, NEW j \in 0 .. n - 1
    PROVE  (i + n - j) % n = IF i >= j THEN i - j ELSE i + n - j
  OBVIOUS

(* ffc finds a requester: the winning position is that of an agent that asks. *)
LEMMA WinnerIsRequester ==
    ASSUME NEW reqs \in SUBSET Agents, reqs # {}, rotvec \in Agents
    PROVE  Winner(reqs) \in Agents /\ \E a \in reqs : Winner(reqs) = Rotated(a)
<1> DEFINE T == {Rotated(a) : a \in reqs}
<1>1. \A a \in reqs : Rotated(a) \in Agents
  <2> SUFFICES ASSUME NEW a \in reqs PROVE Rotated(a) \in Agents
    OBVIOUS
  <2>1. (a + rotvec) % NAGENTS =
           IF a + rotvec < NAGENTS THEN a + rotvec ELSE a + rotvec - NAGENTS
    BY ModSum, ArbitAssumption DEF Agents
  <2> QED BY <2>1, ArbitAssumption DEF Rotated, Agents
<1>2. T \subseteq Nat /\ T # {}
  <2>1. \A p \in T : p \in Agents
    BY <1>1
  <2>2. Agents \subseteq Nat
    BY ArbitAssumption DEF Agents
  <2> QED BY <2>1, <2>2
<1>4. PICK p \in T : \A q \in T : p <= q
  <2> HIDE DEF T
  <2> QED BY <1>2, LeastNumber
<1>5. /\ p \in Agents
      /\ \E a \in reqs : p = Rotated(a)
      /\ \A a \in reqs : p <= Rotated(a)
  BY <1>1, <1>4
<1> QED BY <1>5 DEF Winner

-----------------------------------------------------------------------------
(* The registers keep their ranges and at most one agent is granted. *)
LEMMA GntType ==
    ASSUME ArbitTypeOK, NEW reqs
    PROVE  Gnt(reqs) \in Agents \union {None}
  BY DEF Gnt, ArbitTypeOK

(* The arbiter's edge keeps the ranges, the wrap of rotor and rotvec included. *)
LEMMA ArbitClockType ==
    ASSUME ArbitTypeOK, NEW wait \in BOOLEAN, NEW gnt \in Agents \union {None},
           ArbitClock(wait, gnt)
    PROVE  ArbitTypeOK'
<1>1. rotor' \in 0 .. RotorMod - 1
  BY ArbitAssumption DEF ArbitTypeOK, ArbitClock
<1>2. rotvec' \in Agents
  BY ArbitAssumption DEF ArbitTypeOK, ArbitClock, Agents
<1> QED BY <1>1, <1>2 DEF ArbitTypeOK, ArbitClock, Agents

(* The arbiter's registers stay in range under every load, for every number *)
(* of agents and every width of the rotor (snoop_arbit.vhd:63-78).          *)
THEOREM ArbitTypeSafety == EnvSpec => []EnvTypeOK
<1>1. EnvInit => EnvTypeOK
  <2> SUFFICES ASSUME EnvInit PROVE EnvTypeOK
    OBVIOUS
  <2>1. 0 \in 0 .. RotorMod - 1 /\ 0 \in Agents /\ 0 \in Nat
    BY ArbitAssumption DEF Agents
  <2> QED BY <2>1, Zenon DEF EnvInit, EnvTypeOK, ArbitInit, ArbitTypeOK
<1>2. EnvTypeOK /\ [EnvNext]_envVars => EnvTypeOK'
  <2> SUFFICES ASSUME EnvTypeOK, [EnvNext]_envVars PROVE EnvTypeOK'
    OBVIOUS
  <2>1. CASE EnvNext
    <3>1. PICK reqs \in SUBSET Agents, wait \in BOOLEAN : EnvClock(reqs, wait)
      BY <2>1 DEF EnvNext
    <3>2. ArbitTypeOK'
      BY <3>1, GntType, ArbitClockType DEF EnvClock, EnvTypeOK
    <3>3. watched' \in Agents /\ age' \in Nat
      BY <3>1 DEF EnvClock, EnvTypeOK
    <3> QED BY <3>2, <3>3 DEF EnvTypeOK
  <2>2. CASE UNCHANGED envVars
    BY <2>2 DEF EnvTypeOK, envVars, ArbitTypeOK, arbitVars
  <2> QED BY <2>1, <2>2
<1> QED BY <1>1, <1>2, PTL DEF EnvSpec

-----------------------------------------------------------------------------
(* How long a request may stand.  rotvec turns modulo NAGENTS and rotor      *)
(* modulo RotorMod, so the two come back together after a common multiple of *)
(* both, and once in that time the watched agent is first in the rotated     *)
(* order and the rotation is undone rightly.                                 *)

Multiples(n) == {n * i : i \in Nat}

LEMMA MultipleSum ==
    ASSUME NEW n \in Nat \ {0}, NEW x \in Multiples(n), NEW y \in Multiples(n)
    PROVE  x + y \in Multiples(n) /\ x \in Nat
<1>1. PICK i \in Nat : x = n * i
  BY DEF Multiples
<1>2. PICK j \in Nat : y = n * j
  BY DEF Multiples
<1>3. PICK k \in Nat : k = i + j
  OBVIOUS
<1>4. x + y = n * k /\ n * i \in Nat
  BY <1>1, <1>2, <1>3
<1> QED BY <1>1, <1>4 DEF Multiples

LEMMA MultipleLess ==
    ASSUME NEW n \in Nat \ {0}, NEW x \in Multiples(n), x >= n
    PROVE  x - n \in Multiples(n)
<1>1. PICK i \in Nat : x = n * i
  BY DEF Multiples
<1>2. i # 0
  BY <1>1
<1>3. i - 1 \in Nat /\ x - n = n * (i - 1)
  BY <1>1, <1>2
<1> QED BY <1>3 DEF Multiples

LEMMA MultipleSmall ==
    ASSUME NEW n \in Nat \ {0}, NEW x \in Multiples(n), x < n
    PROVE  x = 0
<1>1. PICK i \in Nat : x = n * i
  BY DEF Multiples
<1>2. i >= 1 => n * i >= n
  <2>1. i >= 1 => i - 1 \in Nat /\ n * i = n + n * (i - 1)
    OBVIOUS
  <2>2. i >= 1 => n * (i - 1) \in Nat
    BY <2>1
  <2> QED BY <2>1, <2>2
<1> QED BY <1>1, <1>2

(* A counter that turns modulo n takes one clock off the way to a multiple. *)
LEMMA TurnCounter ==
    ASSUME NEW n \in Nat \ {0}, NEW r \in 0 .. n - 1, NEW x \in Nat,
           r + x \in Multiples(n), x > 0
    PROVE  ((r + 1) % n) + (x - 1) \in Multiples(n)
<1>1. CASE r + 1 < n
  BY <1>1
<1>2. CASE r + 1 = n
  <2>1. r + x >= n
    BY <1>2
  <2>2. (r + x) - n \in Multiples(n)
    BY <2>1, MultipleLess
  <2>3. (r + 1) % n = 0
    BY <1>2
  <2> QED BY <1>2, <2>2, <2>3
<1> QED BY <1>1, <1>2

(* In k more clocks without wait the turn of the watched agent comes. *)
Due(k) ==
    /\ rotvec + (watched + k) \in Multiples(NAGENTS)
    /\ rotor + (watched + k) \in Multiples(RotorMod)

LEMMA DueGrants ==
    ASSUME EnvTypeOK, Due(0), NEW reqs \in SUBSET Agents, watched \in reqs, ~use_gnt_reg
    PROVE  Gnt(reqs) = watched
<1>1. /\ rotvec \in 0 .. NAGENTS - 1 /\ rotor \in 0 .. RotorMod - 1
      /\ watched \in 0 .. NAGENTS - 1 /\ watched \in Agents
      /\ NAGENTS \in Nat \ {0} /\ RotorMod \in Nat \ {0} /\ RotorMod >= NAGENTS
  BY ArbitAssumption DEF EnvTypeOK, ArbitTypeOK, Agents
<1>2. /\ rotvec + watched \in Multiples(NAGENTS)
      /\ rotor + watched \in Multiples(RotorMod)
  BY <1>1 DEF Due
<1>3. rotvec + watched = 0 \/ rotvec + watched = NAGENTS
  <2>1. CASE rotvec + watched < NAGENTS
    BY <1>1, <1>2, <2>1, MultipleSmall
  <2>2. CASE rotvec + watched >= NAGENTS
    <3>1. rotvec + watched - NAGENTS \in Multiples(NAGENTS)
      BY <1>1, <1>2, <2>2, MultipleLess
    <3>2. rotvec + watched - NAGENTS = 0
      BY <1>1, <3>1, MultipleSmall
    <3> QED BY <1>1, <3>2
  <2> QED BY <1>1, <2>1, <2>2
<1>4. rotor + watched = 0 \/ rotor + watched = RotorMod
  <2>1. CASE rotor + watched < RotorMod
    BY <1>1, <1>2, <2>1, MultipleSmall
  <2>2. CASE rotor + watched >= RotorMod
    <3>1. rotor + watched - RotorMod \in Multiples(RotorMod)
      BY <1>1, <1>2, <2>2, MultipleLess
    <3>2. rotor + watched - RotorMod = 0
      BY <1>1, <3>1, MultipleSmall
    <3> QED BY <1>1, <3>2
  <2> QED BY <1>1, <2>1, <2>2
<1>5. Rotated(watched) = 0
  BY <1>1, <1>3, ModSum DEF Rotated
<1>6. Winner(reqs) \in Agents /\ \E a \in reqs : Winner(reqs) = Rotated(a)
  BY <1>1, WinnerIsRequester DEF Agents
<1>7. Winner(reqs) = 0
  <2>1. \A p \in Agents : (\A a \in reqs : p <= Rotated(a)) => p = 0
    BY <1>1, <1>5 DEF Agents
  <2>2. \A a \in Agents : Rotated(a) \in Nat
    BY <1>1 DEF Agents, Rotated
  <2>3. 0 \in Agents /\ (\E a \in reqs : 0 = Rotated(a)) /\ (\A a \in reqs : 0 <= Rotated(a))
    BY <1>1, <1>5, <2>2 DEF Agents
  <2> QED BY <2>1, <2>3 DEF Winner
<1>8. GrantIndex(reqs) = watched
  <2>1. (0 + RotorMod - rotor) % RotorMod = IF 0 >= rotor THEN 0 - rotor ELSE 0 + RotorMod - rotor
    BY <1>1, ModDiff
  <2>2. (0 + RotorMod - rotor) % RotorMod = watched
    BY <1>1, <1>4, <2>1
  <2> QED BY <1>7, <2>2 DEF GrantIndex
<1> QED BY <1>1, <1>8 DEF Gnt

(* A request has stood for no longer than its turn allows; when its turn     *)
(* comes while the bus waits, the grant that is frozen is its own.           *)
AgeInv(m) ==
    \E k \in 0 .. m - 1 :
        /\ Due(k) /\ age + k <= m
        /\ k = 0 /\ use_gnt_reg /\ age > 0 => gnt_reg = watched

(* However many agents there are and whatever they request, a request that   *)
(* is held is granted within m clocks without wait, for every common         *)
(* multiple m of NAGENTS and of the number of values of rotor                *)
(* (snoop_arbit.vhd:50-78): NAGENTS clocks when that is a power of two, and  *)
(* 24 for the six agents of the board.                                       *)
THEOREM WaitSafety ==
    ASSUME NEW m \in Nat \ {0}, m \in Multiples(NAGENTS), m \in Multiples(RotorMod),
           m < WaitBound
    PROVE  EnvSpec => []BoundedWait
<1>p. /\ NAGENTS \in Nat \ {0} /\ RotorMod \in Nat \ {0} /\ RotorMod >= NAGENTS
      /\ WaitBound \in Nat
  BY ArbitAssumption, EnvAssumption
<1>m. m >= RotorMod
  BY <1>p, MultipleSmall
<1>1. EnvInit /\ EnvTypeOK => AgeInv(m)
  <2> SUFFICES ASSUME EnvInit, EnvTypeOK PROVE AgeInv(m)
    OBVIOUS
  <2>1. rotor = 0 /\ rotvec = 0 /\ ~use_gnt_reg /\ age = 0 /\ watched \in 0 .. NAGENTS - 1
    BY DEF EnvInit, ArbitInit, Agents
  <2>2. CASE watched = 0
    <3>1. 0 \in Multiples(NAGENTS) /\ 0 \in Multiples(RotorMod)
      <4>1. NAGENTS * 0 = 0 /\ RotorMod * 0 = 0
        BY <1>p
      <4> QED BY <4>1 DEF Multiples
    <3>2. Due(0) /\ 0 \in 0 .. m - 1 /\ age + 0 <= m
      BY <2>1, <2>2, <3>1 DEF Due
    <3> QED BY <2>1, <3>2 DEF AgeInv
  <2>3. CASE watched # 0
    <3>1. m - watched \in 0 .. m - 1 /\ watched + (m - watched) = m
      BY <1>p, <1>m, <2>1, <2>3
    <3>2. Due(m - watched)
      BY <2>1, <3>1 DEF Due
    <3>3. age + (m - watched) <= m
      BY <1>p, <2>1
    <3> QED BY <2>1, <3>1, <3>2, <3>3 DEF AgeInv
  <2> QED BY <2>2, <2>3
<1>2. EnvTypeOK /\ AgeInv(m) /\ [EnvNext]_envVars => AgeInv(m)'
  <2> SUFFICES ASSUME EnvTypeOK, AgeInv(m), [EnvNext]_envVars PROVE AgeInv(m)'
    OBVIOUS
  <2>1. CASE UNCHANGED envVars
    BY <2>1 DEF envVars, arbitVars, AgeInv, Due
  <2>2. ASSUME NEW reqs \in SUBSET Agents, NEW wait \in BOOLEAN, EnvClock(reqs, wait)
        PROVE  AgeInv(m)'
    <3>0. /\ rotvec \in 0 .. NAGENTS - 1 /\ rotor \in 0 .. RotorMod - 1
          /\ watched \in 0 .. NAGENTS - 1 /\ age \in Nat
      BY DEF EnvTypeOK, ArbitTypeOK, Agents
    <3>1. PICK k \in 0 .. m - 1 : /\ Due(k) /\ age + k <= m
                                  /\ k = 0 /\ use_gnt_reg /\ age > 0 => gnt_reg = watched
      BY DEF AgeInv
    <3>2. watched' = watched /\ use_gnt_reg' = wait /\ gnt_reg' = Gnt(reqs)
      BY <2>2 DEF EnvClock, ArbitClock
    <3>3. CASE wait
      <4>1. rotor' = rotor /\ rotvec' = rotvec
        BY <2>2, <3>3 DEF EnvClock, ArbitClock
      <4>2. age' = 0 \/ (age' = age /\ watched \in reqs)
        BY <2>2, <3>3 DEF EnvClock
      <4>3. Due(k)' /\ age' + k <= m
        BY <3>0, <3>1, <3>2, <4>1, <4>2 DEF Due
      <4>4. ASSUME k = 0, age' > 0 PROVE Gnt(reqs) = watched
        <5>1. age > 0 /\ watched \in reqs
          BY <4>2, <4>4
        <5>2. CASE use_gnt_reg
          BY <3>1, <4>4, <5>1, <5>2 DEF Gnt
        <5>3. CASE ~use_gnt_reg
          BY <3>1, <4>4, <5>1, <5>3, DueGrants
        <5> QED BY <5>2, <5>3 DEF EnvTypeOK, ArbitTypeOK
      <4> QED BY <3>2, <4>3, <4>4 DEF AgeInv
    <3>4. CASE ~wait
      <4>1. rotor' = (rotor + 1) % RotorMod /\ rotvec' = (rotvec + 1) % NAGENTS
            /\ ~use_gnt_reg'
        BY <2>2, <3>2, <3>4 DEF EnvClock, ArbitClock
      <4>2. age' \in Nat /\ age' <= age + 1
        BY <2>2, <3>0, <3>4 DEF EnvClock
      <4>3. CASE k > 0
        <5>1. watched + k \in Nat /\ watched + k > 0 /\ (watched + k) - 1 = watched + (k - 1)
          BY <3>0, <4>3
        <5>2. Due(k - 1)'
          <6>1. ((rotvec + 1) % NAGENTS) + ((watched + k) - 1) \in Multiples(NAGENTS)
            BY <1>p, <3>0, <3>1, <5>1, TurnCounter DEF Due
          <6>2. ((rotor + 1) % RotorMod) + ((watched + k) - 1) \in Multiples(RotorMod)
            BY <1>p, <3>0, <3>1, <5>1, TurnCounter DEF Due
          <6> QED BY <3>2, <4>1, <5>1, <6>1, <6>2 DEF Due
        <5>3. k - 1 \in 0 .. m - 1 /\ age' + (k - 1) <= m
          <6>1. PICK b : b = age'
            OBVIOUS
          <6>2. b \in Nat /\ b <= age + 1
            BY <4>2, <6>1
          <6>3. k - 1 \in 0 .. m - 1 /\ b + (k - 1) <= m
            BY <3>0, <3>1, <4>3, <6>2
          <6> QED BY <6>1, <6>3
        <5> QED BY <4>1, <5>2, <5>3 DEF AgeInv
      <4>4. CASE k = 0
        <5>1. age' <= 1
          <6>1. CASE age = 0
            BY <4>2, <6>1
          <6>2. CASE age > 0 /\ watched \in reqs
            <7>1. Gnt(reqs) = watched
              <8>1. CASE use_gnt_reg
                BY <3>1, <4>4, <6>2, <8>1 DEF Gnt
              <8>2. CASE ~use_gnt_reg
                BY <3>1, <4>4, <6>2, <8>2, DueGrants
              <8> QED BY <8>1, <8>2
            <7> QED BY <2>2, <3>4, <7>1 DEF EnvClock
          <6>3. CASE watched \notin reqs
            BY <2>2, <6>3 DEF EnvClock
          <6> QED BY <3>0, <6>1, <6>2, <6>3
        <5>2. /\ watched + m \in Nat /\ watched + m > 0
              /\ (watched + m) - 1 = watched + (m - 1)
          BY <3>0
        <5>3. /\ rotvec + (watched + m) \in Multiples(NAGENTS)
              /\ rotor + (watched + m) \in Multiples(RotorMod)
          <6>1. rotvec + watched \in Multiples(NAGENTS) /\ rotor + watched \in Multiples(RotorMod)
            BY <3>0, <3>1, <4>4 DEF Due
          <6>2. (rotvec + watched) + m \in Multiples(NAGENTS)
            BY <1>p, <6>1, MultipleSum
          <6>3. (rotor + watched) + m \in Multiples(RotorMod)
            BY <1>p, <6>1, MultipleSum
          <6> QED BY <3>0, <6>2, <6>3
        <5>4. Due(m - 1)'
          <6>1. ((rotvec + 1) % NAGENTS) + ((watched + m) - 1) \in Multiples(NAGENTS)
            BY <1>p, <3>0, <5>2, <5>3, TurnCounter
          <6>2. ((rotor + 1) % RotorMod) + ((watched + m) - 1) \in Multiples(RotorMod)
            BY <1>p, <3>0, <5>2, <5>3, TurnCounter
          <6> QED BY <3>2, <4>1, <5>2, <6>1, <6>2 DEF Due
        <5>5. m - 1 \in 0 .. m - 1 /\ age' + (m - 1) <= m
          <6>1. PICK b : b = age'
            OBVIOUS
          <6>2. b \in Nat /\ b <= 1
            BY <4>2, <5>1, <6>1
          <6>3. m - 1 \in 0 .. m - 1 /\ b + (m - 1) <= m
            BY <6>2
          <6> QED BY <6>1, <6>3
        <5> QED BY <4>1, <5>4, <5>5 DEF AgeInv
      <4> QED BY <4>3, <4>4
    <3> QED BY <3>3, <3>4
  <2> QED BY <2>1, <2>2 DEF EnvNext
<1>3. EnvTypeOK /\ AgeInv(m) => BoundedWait
  BY <1>p DEF EnvTypeOK, AgeInv, BoundedWait
<1> QED BY <1>1, <1>2, <1>3, ArbitTypeSafety, PTL DEF EnvSpec
=============================================================================
