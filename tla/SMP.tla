-------------------------------- MODULE SMP --------------------------------
(***************************************************************************)
(* The multiprocessor of prj_de2_115_smp.vhd: processors and DMA bridges   *)
(* on one snoop bus with its arbiter, in front of one memory.              *)
(***************************************************************************)
EXTENDS CCDMA

ASSUME SMPAssumption == Agents = CPUs \union DMAs

vars == <<turn, bus, arbitVars, busVars, ccVars, dmaVars>>

\* The open-drain answer wires and the grant, from the agents' registers.
BusWires ==
    [wait  |-> (\E c \in CPUs : CCWait(c)) \/ (\E d \in DMAs : DMAWait(d)),
     ack   |-> \E a \in Agents : Active(a),
     share |-> (\E c \in CPUs : CCShare(c)) \/ (\E d \in DMAs : DMAShare(d)),
     excl  |-> (\E c \in CPUs : CCExcl(c)) \/ (\E d \in DMAs : DMAExcl(d)),
     r     |-> RequestWire,
     gnt   |-> Gnt(Requesters)]

Init ==
    /\ ArbitInit /\ BusInit /\ L1Init /\ CCInit /\ DMAInit
    /\ bus = BusWires

CPUClockWith(c, m_halt, moves) ==
    /\ turn = c
    /\ CPUEdge(c, m_halt, moves)
    /\ turn' = turn + 1
    /\ UNCHANGED <<bus, arbitVars, dmaVars>>

CPUClock(c) ==
    \E m_halt \in HaltChoices(c), moves \in MoveChoices(c) :
        CPUClockWith(c, m_halt, moves)

DMAClockWith(d, m_halt, m_valid) ==
    /\ turn = d
    /\ m_valid => read_count[d] > 0
    /\ DMAEdge(d, m_halt, m_valid)
    /\ turn' = turn + 1
    /\ UNCHANGED <<bus, arbitVars, ctlVars, d1, d2, fifo, mdat,
                   tag, rtag, xtag, dreq, ireq, mshr, bitmap>>

DMAClock(d) ==
    \E m_halt \in BOOLEAN, m_valid \in BOOLEAN : DMAClockWith(d, m_halt, m_valid)

\* The arbiter's edge ends the cycle; the wires settle for the next one.
Settle ==
    /\ turn = NAGENTS
    /\ ArbitClock(bus.wait, bus.gnt)
    /\ UNCHANGED <<busVars, ccVars, dmaVars>>
    /\ bus' = BusWires'
    /\ turn' = 0

Next ==
    \/ \E c \in CPUs : CPUClock(c)
    \/ \E d \in DMAs : DMAClock(d)
    \/ Settle

Spec == Init /\ [][Next]_vars

\* Memory does not halt a controller or a bridge forever, answers reads, and a
\* transfer that has data does not stand still forever.
MemoryServesCPU(c) ==
    /\ HaltChoices(c) = BOOLEAN
    /\ \E moves \in MoveChoices(c) : CPUClockWith(c, FALSE, moves)

TransferMoves(c) ==
    /\ MoveChoices(c) = BOOLEAN
    /\ \E m_halt \in HaltChoices(c) : CPUClockWith(c, m_halt, TRUE)

Fairness ==
    /\ WF_vars(Next)
    /\ \A c \in CPUs : SF_vars(MemoryServesCPU(c)) /\ SF_vars(TransferMoves(c))
    /\ \A d \in DMAs :
         /\ SF_vars(\E m_valid \in BOOLEAN : DMAClockWith(d, FALSE, m_valid))
         /\ SF_vars(\E m_halt \in BOOLEAN : DMAClockWith(d, m_halt, TRUE))

FairSpec == Spec /\ Fairness
-----------------------------------------------------------------------------
\* Every register and wire of the model keeps to its type; the integer rotor of
\* snoop_arbit.vhd to the values its register holds.
TypeOK == ArbitTypeOK /\ BusTypeOK /\ L1TypeOK /\ CCTypeOK /\ DMATypeOK

\* No PARANOID check of z48cc.vhd ever fires (mce, then s_bug for good): while a
\* controller's own request is answered it answers none, somebody acknowledges
\* it, and nobody claims a line that was asked for exclusively.
NoMachineCheck == \A c \in CPUs : st[c] # "s_bug"

\* At a clock boundary at most one agent drives the tri-stated request wires
\* s_bus_r_addr, s_bus_r_sharen and s_bus_r_excln of prj_de2_115_smp.vhd.
OneDriver == turn = 0 => \A a, b \in Drivers : a = b

\* The state in which an agent holds line l, as the snoop port answers for it.
PermStates(a, l) ==
    IF a \in CPUs THEN {cache_state_unlock(s) : s \in MatchStates(a, l)}
    ELSE IF l_addr[a] = l THEN {l_state[a]} \ {T_STATE_INVALID} ELSE {}

\* A line held EXCLUSIVE or MODIFIED by one agent is held by no other, as the
\* snoop ports of z48cc.vhd and ccdma.vhd answer for it.
SingleWriter ==
    \A l \in Lines : \A a, b \in Agents :
        (a # b /\ \E s \in PermStates(a, l) : s >= T_STATE_EXCLUSIVE)
            => PermStates(b, l) = {}

\* Every load and every fetch that hits returns what the last store to the
\* line wrote (the hit tests of l1.vhd, early restart included).
LoadsSeeLastStore ==
    \A c \in CPUs :
        /\ dreq[c] # None /\ dreq[c].op \in {"rd", "ll"} =>
             \A w \in HitWays(c, DWays, dreq[c]) : d1[c][w] = last[dreq[c].addr]
        /\ ireq[c] # None =>
             \A w \in HitWays(c, IWays, ireq[c]) : d1[c][w] = last[ireq[c].addr]

\* A controller that reads a line from memory finds the last store there: no
\* dirty copy and no writeback under way is missed.
RefillsSeeLastStore ==
    \A c \in CPUs : MemRead(c) => mem[mshr[c].addr] = last[mshr[c].addr]

\* A read of a DMA bridge that goes to memory finds the last store there.
DMASeesLastStore ==
    \A d \in DMAs : sreq[d] # None /\ ~l_attn(d) => mem[sreq[d].addr] = last[sreq[d].addr]

\* No store is lost on the way to memory: a line that nobody holds EXCLUSIVE or
\* MODIFIED and that is in no writeback FIFO is up to date in memory.
NoStoreLost ==
    \A l \in Lines :
        \/ mem[l] = last[l]
        \/ \E a \in Agents : \E s \in PermStates(a, l) : s >= T_STATE_EXCLUSIVE
        \/ \E c \in CPUs : fifo[c] # None /\ fifo[c].addr = l

\* Strict exclusion inside a processor (z48cc.vhd:597): a line is in at most
\* one way of its two L1 caches, and not in L2 when it is in L1.
OneCopyPerCPU ==
    \A c \in CPUs, l \in Lines :
        LET copies == {w \in Ways : Holds(tag[c].l1[w], l)}
        IN /\ \A w, x \in copies : w = x
           /\ copies # {} => \A s \in L2Sets : ~Holds(tag[c].l2[s], l)

\* What the agents of the snoop bus hold fits together: no machine check, one
\* writer per line among the agents and one copy of it inside each processor.
Coherent == NoMachineCheck /\ SingleWriter /\ OneCopyPerCPU

\* Whoever reads a line, a processor's port from its L1, a controller or a
\* bridge from memory, finds the last store there, and no store is lost on the
\* way from l1.vhd through the FIFO of z48cc.vhd to memory.
DataCurrent ==
    LoadsSeeLastStore /\ RefillsSeeLastStore /\ DMASeesLastStore /\ NoStoreLost

\* A store conditional that succeeds has seen no foreign store since its LL,
\* whatever kept LLlocal meanwhile: killed accesses, store conditionals that
\* failed (LLtrack of l1.vhd).
ScAtomic == \A c \in CPUs : ScOK(c) => ~link[c].lost

\* A bridge never has more reads outstanding than its counter can count, which
\* would wrap it: read_limit of ccdma.vhd takes effect with the clock that takes
\* the last read.
ReadsFit == \A d \in DMAs : read_count[d] \in 0 .. MAX_READS

\* Every access of a data port is served in the end: no request starves on the
\* bus, no two controllers wait for each other.  The glue picks between the two
\* ports of a processor by a bit that toggles every clock, so one port can lose
\* to the other for as long as that one keeps missing; it stops missing because
\* the instruction queue fills up, or drains.
AccessServed ==
    \A c \in CPUs : dreq[c] # None ~> (dreq[c] = None \/ ireq[c] # None)

\* The same for the instruction port: a fetch that has to leave another way of
\* the processor first (s_miss1 of z48cc.vhd) is served in the end.
FetchServed ==
    \A c \in CPUs : ireq[c] # None ~> (ireq[c] = None \/ dreq[c] # None)

\* Every access of the master behind a DMA bridge reaches memory in the end:
\* the bridge obtains its line on the bus (s_lsnoop1 to s_return1 of ccdma.vhd)
\* however often the processors take it away.
DMAServed == \A d \in DMAs : sreq[d] # None ~> sreq[d] = None
=============================================================================
