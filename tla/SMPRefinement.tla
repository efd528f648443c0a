--------------------------- MODULE SMPRefinement ---------------------------
(***************************************************************************)
(* The multiprocessor implements Coherence.  An agent's permission for a   *)
(* line is what its snoop port answers for it: the tags as that port sees  *)
(* them and, once the bus has answered a miss, the miss register.  The     *)
(* contents of a line are what the last store wrote.                       *)
(***************************************************************************)
EXTENDS SMP

AbsPerm(a, l) ==
    IF PermStates(a, l) = {} THEN 0
    ELSE IF \E s \in PermStates(a, l) : s >= T_STATE_EXCLUSIVE THEN 2
    ELSE 1

Abs == INSTANCE Coherence WITH
    perm <- [a \in Agents |-> [l \in Lines |-> AbsPerm(a, l)]],
    val <- last

\* Every step of every agent is a step the abstract memory system allows: a
\* permission is gained only beside compatible ones, and a line changes only
\* by the agent that holds it exclusively.
ImplementsCoherence == Abs!CoherenceSpec
=============================================================================
