---------------------------- MODULE SnoopArbit ----------------------------
(***************************************************************************)
(* The snoop bus arbiter (snoop_arbit.vhd).  The request vector is rotated *)
(* left by rotvec, the lowest requesting position wins, and the grant goes *)
(* to position winner - rotor.  rotvec is a one-hot register of NAGENTS    *)
(* bits and turns modulo NAGENTS; rotor is an integer that the hardware    *)
(* holds in RotorMod = 2^w values, so it, and the grant index computed     *)
(* from it, wrap modulo RotorMod.  The two agree when NAGENTS is a power   *)
(* of two and drift apart when it is not.                                  *)
(***************************************************************************)
EXTENDS Naturals

CONSTANTS
    NAGENTS,        \* number of agents on the snoop bus
    RotorMod,       \* number of values the rotor register holds
    None            \* "no agent", "no request", "no line"

ASSUME ArbitAssumption ==
    /\ NAGENTS \in Nat \ {0}
    /\ RotorMod \in Nat /\ RotorMod >= NAGENTS
    /\ None \notin Nat

Agents == 0 .. NAGENTS - 1

VARIABLES
    rotor,          \* integer register, 0 .. RotorMod - 1
    rotvec,         \* position of the one bit set in the rotvec register
    gnt_reg,        \* the agent granted in the previous clock, or None
    use_gnt_reg     \* the grant is frozen because the bus was waiting

arbitVars == <<rotor, rotvec, gnt_reg, use_gnt_reg>>

ArbitTypeOK ==
    /\ rotor \in 0 .. RotorMod - 1
    /\ rotvec \in Agents
    /\ gnt_reg \in Agents \union {None}
    /\ use_gnt_reg \in BOOLEAN

ArbitInit ==
    /\ rotor = 0
    /\ rotvec = 0
    /\ gnt_reg = None
    /\ use_gnt_reg = FALSE

\* Where agent a's request stands after the rotation by rotvec.
Rotated(a) == (a + rotvec) % NAGENTS

\* ffc(reqs_rot): the lowest position that holds a request.
Winner(reqs) ==
    CHOOSE p \in Agents :
        /\ \E a \in reqs : p = Rotated(a)
        /\ \A a \in reqs : p <= Rotated(a)

\* winner - rotor as a RotorMod-valued index; RotorMod is added first because
\* the difference may be negative.
GrantIndex(reqs) == (Winner(reqs) + RotorMod - rotor) % RotorMod

\* The grant wires.  An index past the last agent grants nobody.
Gnt(reqs) ==
    IF use_gnt_reg THEN gnt_reg
    ELSE IF reqs # {} /\ GrantIndex(reqs) \in Agents THEN GrantIndex(reqs)
    ELSE None

\* Slip: the rotor does not wrap.
ArbitClockNoWrap(wait, gnt) ==
    /\ rotor' = IF wait THEN rotor ELSE rotor + 1
    /\ rotvec' = IF wait THEN rotvec ELSE (rotvec + 1) % NAGENTS
    /\ gnt_reg' = gnt
    /\ use_gnt_reg' = wait

\* Slip: the priority turns only while the bus waits.
ArbitClockFixed(wait, gnt) ==
    /\ rotor' = IF wait THEN (rotor + 1) % RotorMod ELSE rotor
    /\ rotvec' = IF wait THEN (rotvec + 1) % NAGENTS ELSE rotvec
    /\ gnt_reg' = gnt
    /\ use_gnt_reg' = wait

\* The clock edge: wait and gnt are the wires sampled before it.
ArbitClock(wait, gnt) ==
    /\ rotor' = IF wait THEN rotor ELSE (rotor + 1) % RotorMod
    /\ rotvec' = IF wait THEN rotvec ELSE (rotvec + 1) % NAGENTS
    /\ gnt_reg' = gnt
    /\ use_gnt_reg' = wait
=============================================================================
