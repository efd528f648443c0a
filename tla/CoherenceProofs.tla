-------------------------- MODULE CoherenceProofs --------------------------
(***************************************************************************)
(* What the abstract memory system guarantees, for any agents and lines.   *)
(***************************************************************************)
EXTENDS Coherence, TLAPS

(* The permissions and contents keep their types. *)
LEMMA CoherenceTypeSafety == CoherenceSpec => []CoherenceTypeOK
<1>1. CoherenceInit => CoherenceTypeOK
  BY DEF CoherenceInit, CoherenceTypeOK, Permission
<1>2. CoherenceTypeOK /\ [CoherenceNext]_coherenceVars => CoherenceTypeOK'
  <2> SUFFICES ASSUME CoherenceTypeOK, [CoherenceNext]_coherenceVars
               PROVE  CoherenceTypeOK'
    OBVIOUS
  <2>1. CASE CoherenceNext
    <3>1. PICK a \in Agents : AgentStep(a)
      BY <2>1 DEF CoherenceNext
    <3>2. PICK q \in [Lines -> Permission] : perm' = [perm EXCEPT ![a] = q]
      BY <3>1 DEF AgentStep
    <3> QED BY <3>1, <3>2 DEF CoherenceTypeOK, AgentStep
  <2>2. CASE UNCHANGED coherenceVars
    BY <2>2 DEF CoherenceTypeOK, coherenceVars
  <2> QED BY <2>1, <2>2
<1> QED BY <1>1, <1>2, PTL DEF CoherenceSpec

(* One writer or many readers, the invariant every cache controller and DMA  *)
(* bridge relies on when it lets an access hit without asking the bus.       *)
THEOREM SingleWriterMultipleReaders == CoherenceSpec => []SWMR
<1>1. CoherenceInit => SWMR
  BY DEF CoherenceInit, SWMR, EXCLUSIVE, NONE
<1>2. CoherenceTypeOK /\ SWMR /\ [CoherenceNext]_coherenceVars => SWMR'
  <2> SUFFICES ASSUME CoherenceTypeOK, SWMR, [CoherenceNext]_coherenceVars
               PROVE  SWMR'
    OBVIOUS
  <2>1. CASE CoherenceNext
    <3>1. PICK c \in Agents : AgentStep(c)
      BY <2>1 DEF CoherenceNext
    <3>2. PICK q \in [Lines -> Permission] :
            /\ \A l \in Lines : MayHold(c, l, q[l])
            /\ perm' = [perm EXCEPT ![c] = q]
      BY <3>1 DEF AgentStep
    <3> SUFFICES ASSUME NEW l \in Lines, NEW a \in Agents, NEW b \in Agents,
                        a # b, perm'[a][l] = EXCLUSIVE
                 PROVE  perm'[b][l] = NONE
      BY DEF SWMR
    <3>3. \A x \in Agents : perm'[x][l] = IF x = c THEN q[l] ELSE perm[x][l]
      BY <3>2 DEF CoherenceTypeOK
    <3>4. /\ q[l] \in Permission
          /\ \A x \in Agents : perm[x][l] \in Permission
      BY DEF CoherenceTypeOK
    <3>5. CASE a = c
      <4>1. q[l] = EXCLUSIVE /\ perm'[b][l] = perm[b][l]
        BY <3>3, <3>5
      <4>2. CASE Compatible(c, l, q[l])
        BY <3>5, <4>1, <4>2 DEF Compatible
      <4>3. CASE q[l] <= perm[c][l]
        <5>1. perm[c][l] = EXCLUSIVE
          BY <3>4, <4>1, <4>3 DEF Permission, EXCLUSIVE, SHARED, NONE
        <5> QED BY <3>5, <4>1, <5>1 DEF SWMR
      <4> QED BY <3>2, <4>2, <4>3 DEF MayHold
    <3>6. CASE a # c /\ b = c
      <4>1. perm[a][l] = EXCLUSIVE /\ perm'[b][l] = q[l]
        BY <3>3, <3>6
      <4>2. CASE Compatible(c, l, q[l])
        BY <3>4, <3>6, <4>1, <4>2 DEF Compatible, Permission, EXCLUSIVE, SHARED, NONE
      <4>3. CASE q[l] <= perm[c][l]
        <5>1. perm[c][l] = NONE
          BY <3>6, <4>1 DEF SWMR
        <5> QED BY <3>4, <4>1, <4>3, <5>1 DEF Permission, EXCLUSIVE, SHARED, NONE
      <4> QED BY <3>2, <4>2, <4>3 DEF MayHold
    <3>7. CASE a # c /\ b # c
      BY <3>3, <3>7 DEF SWMR
    <3> QED BY <3>5, <3>6, <3>7
  <2>2. CASE UNCHANGED coherenceVars
    BY <2>2 DEF SWMR, coherenceVars
  <2> QED BY <2>1, <2>2
<1> QED BY <1>1, <1>2, CoherenceTypeSafety, PTL DEF CoherenceSpec

(* Only the exclusive holder of a line changes it, and while an agent holds a *)
(* line, shared or exclusive, nobody else does: what a load returns on a hit  *)
(* is current.                                                                *)
HoldersSeeNoForeignStore ==
    \A a \in Agents, l \in Lines :
        val'[l] # val[l] /\ perm[a][l] # NONE => perm[a][l] = EXCLUSIVE

(* So a cache that still holds a line SHARED never misses a store to it: the  *)
(* reason why z48cc.vhd may let loads hit in SHARED lines without a snoop.    *)
THEOREM NoForeignStore == CoherenceSpec => [][HoldersSeeNoForeignStore]_coherenceVars
<1>1. SWMR /\ CoherenceNext => HoldersSeeNoForeignStore
  <2> SUFFICES ASSUME SWMR, CoherenceNext, NEW a \in Agents, NEW l \in Lines,
                      val'[l] # val[l], perm[a][l] # NONE
               PROVE  perm[a][l] = EXCLUSIVE
    BY DEF HoldersSeeNoForeignStore
  <2>1. PICK c \in Agents : AgentStep(c)
    BY DEF CoherenceNext
  <2>2. perm[c][l] = EXCLUSIVE
    BY <2>1 DEF AgentStep
  <2> QED BY <2>2 DEF SWMR
<1>2. SWMR /\ [CoherenceNext]_coherenceVars => [HoldersSeeNoForeignStore]_coherenceVars
  BY <1>1
<1> QED BY <1>2, SingleWriterMultipleReaders, PTL DEF CoherenceSpec
=============================================================================
