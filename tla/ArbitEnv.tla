----------------------------- MODULE ArbitEnv -----------------------------
(***************************************************************************)
(* The arbiter under every load the agents can put on it: in each clock    *)
(* any set of agents requests the bus and the bus waits or not.  One agent *)
(* is watched, to count the clocks that its request stands.                *)
(***************************************************************************)
EXTENDS SnoopArbit

CONSTANTS
    WaitBound       \* unstalled clocks a request may stand before its grant

ASSUME EnvAssumption == WaitBound \in Nat

VARIABLES
    watched,        \* the agent whose request is watched
    age             \* unstalled clocks its request has stood without a grant

envVars == <<arbitVars, watched, age>>

\* The registers of snoop_arbit.vhd keep their ranges under every load.
EnvTypeOK ==
    /\ ArbitTypeOK
    /\ watched \in Agents
    /\ age \in Nat

EnvInit ==
    /\ ArbitInit
    /\ watched \in Agents
    /\ age = 0

\* One clock with the requests reqs.  An agent that is granted the bus in a
\* clock without wait drives it in the next one and withdraws its request.
EnvClock(reqs, wait) ==
    /\ ArbitClock(wait, Gnt(reqs))
    /\ age' = IF watched \notin reqs \/ (~wait /\ Gnt(reqs) = watched) THEN 0
              ELSE IF wait THEN age
              ELSE age + 1
    /\ UNCHANGED watched

EnvNext == \E reqs \in SUBSET Agents, wait \in BOOLEAN : EnvClock(reqs, wait)

EnvSpec == EnvInit /\ [][EnvNext]_envVars
-----------------------------------------------------------------------------
\* A request that is held is granted within WaitBound clocks in which the bus
\* does not wait, whatever the other agents request and whenever the bus waits.
BoundedWait == age < WaitBound
=============================================================================
