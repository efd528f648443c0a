----------------------------- MODULE Coherence -----------------------------
(***************************************************************************)
(* What the coherent memory system promises, without bus, arbiter, tags or *)
(* state machines: an agent holds each line with no, shared or exclusive   *)
(* permission, gains a permission only when the others' allow it, and      *)
(* changes the contents of a line only while it holds it exclusively.      *)
(***************************************************************************)
EXTENDS Naturals

CONSTANTS Agents, Lines, Val

VARIABLES
    perm,           \* permission of each agent for each line
    val             \* contents of each line

coherenceVars == <<perm, val>>

NONE == 0
SHARED == 1
EXCLUSIVE == 2

Permission == {NONE, SHARED, EXCLUSIVE}

CoherenceTypeOK ==
    /\ perm \in [Agents -> [Lines -> Permission]]
    /\ val \in [Lines -> Val]

CoherenceInit ==
    /\ perm = [a \in Agents |-> [l \in Lines |-> NONE]]
    /\ val \in [Lines -> Val]

\* What agent a may hold of line l beside what the others hold of it.
Compatible(a, l, p) ==
    \A b \in Agents \ {a} :
        /\ p = EXCLUSIVE => perm[b][l] = NONE
        /\ p = SHARED => perm[b][l] # EXCLUSIVE

\* A permission is kept, lowered at will, or raised when it is compatible.
MayHold(a, l, p) == p <= perm[a][l] \/ Compatible(a, l, p)

\* An agent moves to other permissions and changes lines it holds exclusively.
\* Several lines may change in one step: a refill lets a victim go.
AgentStep(a) ==
    /\ \E q \in [Lines -> Permission] :
         /\ \A l \in Lines : MayHold(a, l, q[l])
         /\ perm' = [perm EXCEPT ![a] = q]
    /\ val' \in [Lines -> Val]
    /\ \A l \in Lines : val'[l] # val[l] => perm[a][l] = EXCLUSIVE

CoherenceNext == \E a \in Agents : AgentStep(a)

CoherenceSpec == CoherenceInit /\ [][CoherenceNext]_coherenceVars

-----------------------------------------------------------------------------
\* One writer or many readers: an exclusive permission stands alone.
SWMR ==
    \A l \in Lines : \A a, b \in Agents :
        a # b /\ perm[a][l] = EXCLUSIVE => perm[b][l] = NONE
=============================================================================
