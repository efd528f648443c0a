----------------------------- MODULE SMPProofs -----------------------------
(***************************************************************************)
(* What holds of the multiprocessor for every number of processors and DMA *)
(* bridges, every cache geometry and every set of lines.                   *)
(***************************************************************************)
EXTENDS SMPRefinement, NumberLemmas, TLAPS

(* What an agent may do to its request wires at a clock edge. *)
Keeps(a) == drv' = [drv EXCEPT ![a] = IF bus.wait THEN @ ELSE None]
Drops(a) == drv' = [drv EXCEPT ![a] = None]
Takes(a) == MayDrive(a) /\ \E r : drv' = [drv EXCEPT ![a] = r]

(* Every state of a controller keeps its request while the bus waits, drops *)
(* it otherwise, or puts one on the bus that was granted to it. *)
LEMMA ControllerDrive ==
    ASSUME NEW c, NEW dk, NEW ik, NEW m_halt, NEW moves,
           StateMachine(c, dk, ik, m_halt, moves)
    PROVE  Keeps(c) \/ Takes(c)
<1>1. CASE s_idle(c, dk, ik)
  BY <1>1 DEF s_idle, Release, Keeps
<1>2. CASE s_miss1(c)
  BY <1>2 DEF s_miss1, Release, Keeps
<1>3. CASE s_miss2(c) \/ s_miss3(c)
  BY <1>3 DEF s_miss2, s_miss3, Release, Keeps
<1>4. CASE s_miss4(c, m_halt) \/ s_miss5(c, moves)
  BY <1>4 DEF s_miss4, s_miss5, Release, Keeps
<1>5. CASE s_lsnoop_promote1(c) \/ s_lsnoop_miss1(c)
  <2>1. LSnoopAbandon(c) => Keeps(c)
    BY DEF LSnoopAbandon, Release, Keeps
  <2>2. ASSUME NEW excl, NEW next, LSnoopArbitrate(c, excl, next)
        PROVE  Keeps(c) \/ Takes(c)
    BY <2>2 DEF LSnoopArbitrate, Release, Keeps, Takes
  <2> QED BY <1>5, <2>1, <2>2 DEF s_lsnoop_promote1, s_lsnoop_miss1
<1>6. CASE s_lsnoop_promote2(c) \/ s_lsnoop_miss2(c)
  BY <1>6 DEF s_lsnoop_promote2, s_lsnoop_miss2, LSnoopAbandon, LSnoopRequest,
              Release, Keeps
<1>7. CASE s_lsnoop_promote3(c) \/ s_lsnoop_miss3(c)
  BY <1>7 DEF s_lsnoop_promote3, s_lsnoop_miss3, Release, Keeps
<1>8. CASE s_inv0(c) \/ s_inv1(c) \/ s_inv2(c)
  BY <1>8 DEF s_inv0, s_inv1, s_inv2, Release, Keeps
<1>9. CASE s_inv3(c) \/ s_inv4(c) \/ s_inv7(c)
  BY <1>9 DEF s_inv3, s_inv4, s_inv7, InvDelay, Release, Keeps
<1>10. CASE s_inv5(c) \/ s_inv6(c, moves)
  BY <1>10 DEF s_inv5, s_inv6, Release, Keeps
<1>11. CASE s_return1(c) \/ s_return2(c)
  BY <1>11 DEF s_return1, s_return2, Release, Keeps
<1> QED BY <1>1, <1>2, <1>3, <1>4, <1>5, <1>6, <1>7, <1>8, <1>9, <1>10, <1>11
        DEF StateMachine

(* A bridge drops its request at every edge, or takes the granted bus. *)
LEMMA BridgeDrive ==
    ASSUME NEW d, NEW m_halt, NEW m_valid, DMAEdge(d, m_halt, m_valid)
    PROVE  Drops(d) \/ Takes(d)
<1>1. CASE DMAIdle(d)
  BY <1>1 DEF DMAIdle, DMARelease, Drops
<1>2. CASE DMALsnoop1(d)
  BY <1>2 DEF DMALsnoop1, DMARelease, Drops, Takes
<1>3. CASE DMALsnoop2(d) \/ DMALsnoop3(d)
  BY <1>3 DEF DMALsnoop2, DMALsnoop3, DMARelease, Drops
<1>4. CASE DMARsnoop1(d, m_halt) \/ DMAReturn1(d)
  BY <1>4 DEF DMARsnoop1, DMAReturn1, DMARelease, Drops
<1> QED BY <1>1, <1>2, <1>3, <1>4 DEF DMAEdge

-----------------------------------------------------------------------------
(* OneDriver speaks of clock boundaries only.  Inside a clock the agents that *)
(* have taken their edge drive only by the grant, those that have not still *)
(* hold the request of the last clock, and if the bus waits nothing new has *)
(* come. *)
AtMostOne(S) == \A a, b \in S : drv[a] # None /\ drv[b] # None => a = b

DriveInv ==
    /\ turn \in 0 .. NAGENTS
    /\ drv = [a \in Agents |-> drv[a]]
    /\ bus.wait => AtMostOne(Agents)
    /\ ~bus.wait => /\ \A a \in Agents : a < turn /\ drv[a] # None => bus.gnt = a
                    /\ AtMostOne({a \in Agents : a >= turn})

(* The edge of one agent keeps it. *)
LEMMA EdgeKeepsDriveInv ==
    ASSUME DriveInv, NEW c \in Agents, turn = c, turn' = turn + 1, bus' = bus,
           Keeps(c) \/ Drops(c) \/ Takes(c)
    PROVE  DriveInv'
<1>1. turn' \in 0 .. NAGENTS
  BY ArbitAssumption DEF DriveInv, Agents
<1>2. drv' = [a \in Agents |-> drv'[a]]
  BY DEF DriveInv, Keeps, Drops, Takes
<1>3. \A a \in Agents : a # c => drv'[a] = drv[a]
  BY DEF DriveInv, Keeps, Drops, Takes
<1>4. ASSUME bus.wait PROVE AtMostOne(Agents)'
  <2>1. drv'[c] # None => drv'[c] = drv[c]
    BY <1>4 DEF DriveInv, Keeps, Drops, Takes, MayDrive
  <2>2. AtMostOne(Agents)
    BY <1>4 DEF DriveInv
  <2> QED BY <1>3, <2>1, <2>2 DEF AtMostOne
<1>5. ASSUME ~bus.wait
      PROVE  /\ \A a \in Agents : a < turn' /\ drv'[a] # None => bus.gnt = a
             /\ AtMostOne({a \in Agents : a >= turn})'
  <2>1. drv'[c] # None => bus.gnt = c
    BY <1>5 DEF DriveInv, Keeps, Drops, Takes, MayDrive
  <2>2. \A a \in Agents : a < turn /\ drv[a] # None => bus.gnt = a
    BY <1>5 DEF DriveInv
  <2>3. \A a \in Agents : a < turn' => a < turn \/ a = c
    BY ArbitAssumption DEF Agents
  <2>4. \A a \in Agents : a >= turn' => a >= turn /\ a # c
    BY ArbitAssumption DEF Agents
  <2>5. AtMostOne({a \in Agents : a >= turn})
    BY <1>5 DEF DriveInv
  <2>6. \A a \in Agents : a < turn' /\ drv'[a] # None => bus.gnt = a
    BY <1>3, <2>1, <2>2, <2>3
  <2>7. AtMostOne({a \in Agents : a >= turn})'
    BY <1>3, <2>4, <2>5 DEF AtMostOne
  <2> QED BY <2>6, <2>7
<1> QED BY <1>1, <1>2, <1>4, <1>5 DEF DriveInv

(* The arbiter's edge starts the next clock with at most one driver. *)
LEMMA SettleKeepsDriveInv ==
    ASSUME DriveInv, Settle
    PROVE  DriveInv'
<1>1. turn = NAGENTS /\ turn' = 0 /\ drv' = drv
  BY DEF Settle, busVars
<1>2. AtMostOne(Agents)
  <2>1. CASE bus.wait
    BY <2>1 DEF DriveInv
  <2>2. CASE ~bus.wait
    <3>1. \A a \in Agents : a < turn
      BY <1>1, ArbitAssumption DEF Agents
    <3> QED BY <2>2, <3>1 DEF DriveInv, AtMostOne
  <2> QED BY <2>1, <2>2
<1>3. AtMostOne(Agents)' /\ AtMostOne({a \in Agents : a >= turn})'
  BY <1>1, <1>2 DEF AtMostOne
<1>4. \A a \in Agents : ~(a < turn')
  BY <1>1, ArbitAssumption DEF Agents
<1>5. turn' \in 0 .. NAGENTS
  BY <1>1, ArbitAssumption
<1> QED BY <1>1, <1>3, <1>4, <1>5 DEF DriveInv

(* The request wires of the snoop bus never have two drivers: the grant, the *)
(* wait and the one-clock delay of s_bus_r_*_oe fit together, for any number *)
(* of agents (prj_de2_115_smp.vhd:614-623). *)
THEOREM OneDriverSafety == Spec => []OneDriver
<1>1. Init => DriveInv
  <2> SUFFICES ASSUME Init PROVE DriveInv
    OBVIOUS
  <2>1. turn = 0 /\ drv = [a \in Agents |-> None]
    BY DEF Init, BusInit
  <2>2. 0 \in 0 .. NAGENTS
    BY ArbitAssumption
  <2>3. \A a \in Agents : drv[a] = None
    BY <2>1
  <2> QED BY <2>1, <2>2, <2>3 DEF DriveInv, AtMostOne
<1>2. DriveInv /\ [Next]_vars => DriveInv'
  <2> SUFFICES ASSUME DriveInv, [Next]_vars PROVE DriveInv'
    OBVIOUS
  <2>1. ASSUME NEW c \in CPUs, CPUClock(c) PROVE DriveInv'
    <3>1. PICK m_halt, moves : CPUClockWith(c, m_halt, moves)
      BY <2>1 DEF CPUClock
    <3>2. turn = c /\ turn' = turn + 1 /\ bus' = bus
      BY <3>1 DEF CPUClockWith
    <3>3. PICK dk, ik : StateMachine(c, dk, ik, m_halt, moves)
      BY <3>1 DEF CPUClockWith, CPUEdge
    <3> QED BY <3>2, <3>3, ControllerDrive, EdgeKeepsDriveInv, SMPAssumption
  <2>2. ASSUME NEW d \in DMAs, DMAClock(d) PROVE DriveInv'
    <3>1. PICK m_halt, m_valid : DMAClockWith(d, m_halt, m_valid)
      BY <2>2 DEF DMAClock
    <3>2. turn = d /\ turn' = turn + 1 /\ bus' = bus
      BY <3>1 DEF DMAClockWith
    <3>3. Drops(d) \/ Takes(d)
      BY <3>1, BridgeDrive DEF DMAClockWith
    <3> QED BY <3>2, <3>3, EdgeKeepsDriveInv, SMPAssumption
  <2>3. CASE Settle
    BY <2>3, SettleKeepsDriveInv
  <2>4. CASE UNCHANGED vars
    <3>1. turn' = turn /\ bus' = bus /\ drv' = drv
      BY <2>4 DEF vars, busVars
    <3> QED BY <3>1 DEF DriveInv, AtMostOne
  <2> QED BY <2>1, <2>2, <2>3, <2>4 DEF Next
<1>3. DriveInv => OneDriver
  <2> SUFFICES ASSUME DriveInv, turn = 0 PROVE \A a, b \in Drivers : a = b
    BY DEF OneDriver
  <2>1. \A a \in Agents : a >= turn
    BY ArbitAssumption DEF Agents
  <2>2. AtMostOne(Agents)
    BY <2>1 DEF DriveInv, AtMostOne
  <2> QED BY <2>2 DEF AtMostOne, Drivers
<1> QED BY <1>1, <1>2, <1>3, PTL DEF Spec

-----------------------------------------------------------------------------
(* The counters of all bridges are in range, as one function. *)
ReadsInv == read_count \in [DMAs -> 0 .. MAX_READS]

(* The edge of a bridge counts a read only below the limit, and an answer *)
(* only while a read is outstanding; both in one clock cancel out. *)
LEMMA BridgeKeepsReadsInv ==
    ASSUME ReadsInv, NEW d \in DMAs, NEW m_halt \in BOOLEAN,
           NEW m_valid \in BOOLEAN, DMAClockWith(d, m_halt, m_valid)
    PROVE  ReadsInv'
<1>1. MAX_READS \in Nat \ {0}
  BY DMAAssumption
<1>2. /\ m_valid => read_count[d] > 0
      /\ CountReads(d, m_halt, m_valid)
  BY DEF DMAClockWith, DMAEdge
<1> DEFINE read == Taken(d, m_halt) /\ ~sreq[d].wr
           n == read_count[d] + (IF read THEN 1 ELSE 0) - (IF m_valid THEN 1 ELSE 0)
<1>3. read_count' = [read_count EXCEPT ![d] = n]
  BY <1>2 DEF CountReads
<1>4. read_count[d] \in 0 .. MAX_READS
  BY DEF ReadsInv
<1>5. read => read_count[d] # MAX_READS
  BY DEF Taken, read_limit
<1> HIDE DEF read
<1>6. n \in 0 .. MAX_READS
  BY <1>1, <1>2, <1>4, <1>5
<1> HIDE DEF n
<1> QED BY <1>3, <1>6 DEF ReadsInv

(* A bridge never has more reads outstanding than its counter holds, and *)
(* never counts an answer below zero, for any number of bridges, any limit *)
(* and any delay of memory (read_count and read_limit, ccdma.vhd:129-151). *)
THEOREM ReadsFitSafety == Spec => []ReadsFit
<1>1. Init => ReadsInv
  <2>1. 0 \in 0 .. MAX_READS
    BY DMAAssumption
  <2> QED BY <2>1 DEF Init, DMAInit, ReadsInv
<1>2. ReadsInv /\ [Next]_vars => ReadsInv'
  <2> SUFFICES ASSUME ReadsInv, [Next]_vars PROVE ReadsInv'
    OBVIOUS
  <2>1. ASSUME NEW c \in CPUs, CPUClock(c) PROVE ReadsInv'
    BY <2>1 DEF CPUClock, CPUClockWith, dmaVars, ReadsInv
  <2>2. ASSUME NEW d \in DMAs, DMAClock(d) PROVE ReadsInv'
    BY <2>2, BridgeKeepsReadsInv DEF DMAClock
  <2>3. CASE Settle
    BY <2>3 DEF Settle, dmaVars, ReadsInv
  <2>4. CASE UNCHANGED vars
    BY <2>4 DEF vars, dmaVars, ReadsInv
  <2> QED BY <2>1, <2>2, <2>3, <2>4 DEF Next
<1>3. ReadsInv => ReadsFit
  BY DEF ReadsInv, ReadsFit
<1> QED BY <1>1, <1>2, <1>3, PTL DEF Spec

-----------------------------------------------------------------------------
(* The types.  TypeOK is not inductive: what a controller writes to its tags,*)
(* its FIFO and the bus has its type because of what the state it is in says *)
(* of the miss register, the invalidation and the victim. *)

MissStates == {"s_miss1", "s_lsnoop_promote1", "s_lsnoop_promote2", "s_lsnoop_promote3"}
RefillStates == {"s_lsnoop_miss1", "s_lsnoop_miss2", "s_lsnoop_miss3",
                 "s_miss2", "s_miss3", "s_miss4", "s_miss5"}
CopyStates == {"s_inv3", "s_inv4", "s_inv5", "s_inv6"}
InvStates == CopyStates \union {"s_inv0", "s_inv1", "s_inv2", "s_inv7"}

(* An entry that is not INVALID has an address; L2 holds no lock. *)
L1Entry == {e \in Entry : cache_state_unlock(e.st) # T_STATE_INVALID => e.addr \in Lines}
L2Slot == {e \in L1Entry : e.st \in UnlockedStates}
Tags == [l1 : [Ways -> L1Entry], l2 : [L2Sets -> L2Slot]]

InvReg == [act : InvActs \union {None}, addr : Lines \union {None},
           expl : BOOLEAN, way : Ways \union {None}]

(* What a state s says of the miss register m, the invalidation i, the *)
(* victim's address o and the tags t. *)
Fits(s, m, i, o, t) ==
    /\ s \in MissStates \union RefillStates => m.addr \in Lines /\ m.way \in Ways
    /\ s \in RefillStates /\ m.old # T_STATE_INVALID => o \in Lines
    /\ s \in InvStates => i.addr \in Lines
    /\ s \in CopyStates \union {"s_inv2"} => i.way \in Ways /\ t.l1[i.way].addr \in Lines
    /\ s \in CopyStates => o \in Lines
    /\ m.l2hit => HasL2

ControllerInv == \A c \in CPUs : Fits(st[c], mshr[c], inv[c], oldaddr[c], tag[c])

(* A bridge asks for the bus while its line does not cover the access. *)
BridgeInv == \A d \in DMAs : dst[d] = "s_lsnoop1" => l_attn(d)

TagType == tag \in [CPUs -> Tags] /\ rtag \in [CPUs -> Tags] /\ xtag \in [CPUs -> Tags]
PortType ==
    /\ dreq \in [CPUs -> PortReq \union {None}]
    /\ ireq \in [CPUs -> PortReq \union {None}]
    /\ link \in [CPUs -> [v : BOOLEAN, addr : Lines \union {None},
                       wait : BOOLEAN, lost : BOOLEAN]]
CtlType ==
    /\ st \in [CPUs -> CCStates] /\ mshr \in [CPUs -> Mshr] /\ inv \in [CPUs -> InvReg]
    /\ oldaddr \in [CPUs -> Lines \union {None}]
    /\ run \in [CPUs -> {"off", "on", "moved"}] /\ bitmap \in [CPUs -> BOOLEAN]
DataType ==
    /\ d1 \in [CPUs -> [Ways -> Val]] /\ d2 \in [CPUs -> [L2Sets -> Val]]
    /\ fifo \in [CPUs -> [addr : Lines, val : Val] \union {None}]
    /\ mdat \in [CPUs -> Val \union {None}]
    /\ mem \in [Lines -> Val] /\ last \in [Lines -> Val]

TypeInv ==
    /\ ArbitTypeOK /\ BusTypeOK /\ DMATypeOK
    /\ TagType /\ PortType /\ CtlType /\ DataType
    /\ ControllerInv /\ BridgeInv

LEMMA TypeInvSuffices == TypeInv => TypeOK
<1>1. Tags \subseteq TagState
  BY DEF Tags, TagState, L1Entry, L2Slot
<1> QED BY <1>1 DEF TypeInv, TypeOK, L1TypeOK, CCTypeOK, TagType, PortType, CtlType, DataType, InvReg

LEMMA StateFacts ==
    /\ UnlockedStates \subseteq cache_state_t
    /\ T_STATE_INVALID \in UnlockedStates /\ T_STATE_SHARED \in UnlockedStates
    /\ T_STATE_EXCLUSIVE \in UnlockedStates /\ T_STATE_MODIFIED \in UnlockedStates
    /\ T_STATE_MODIFIED # T_STATE_INVALID /\ T_STATE_EXCLUSIVE # T_STATE_INVALID
    /\ \A s \in cache_state_t :
         /\ cache_state_unlock(s) \in UnlockedStates /\ cache_state_lock(s) \in cache_state_t
         /\ cache_state_unlock(cache_state_lock(s)) = cache_state_unlock(s)
    /\ \A s \in UnlockedStates : cache_state_unlock(s) = s
    /\ \A op : MinState(op) \in UnlockedStates
BY DEF UnlockedStates, cache_state_t, cache_state_unlock, cache_state_lock, MinState,
       T_STATE_INVALID, T_STATE_SHARED, T_STATE_EXCLUSIVE, T_STATE_MODIFIED, T_STATE_LOCKED

LEMMA EmptySlot == EmptyEntry \in L2Slot
BY StateFacts DEF EmptyEntry, L2Slot, L1Entry, Entry

LEMMA MadeSlot ==
    ASSUME NEW l \in Lines \union {None}, NEW s \in UnlockedStates,
           s # T_STATE_INVALID => l \in Lines
    PROVE  /\ MkEntry(l, s) \in L2Slot /\ MkEntry(l, s) \in L1Entry
           /\ s # T_STATE_INVALID => MkEntry(l, s).addr = l
<1>1. CASE s = T_STATE_INVALID
  BY <1>1, EmptySlot DEF MkEntry, L2Slot
<1>2. CASE s # T_STATE_INVALID
  BY <1>2, StateFacts DEF MkEntry, L2Slot, L1Entry, Entry
<1> QED BY <1>1, <1>2

LEMMA LockedEntry ==
    ASSUME NEW e \in L1Entry
    PROVE  Locked(e) \in L1Entry /\ Locked(e).addr = e.addr
<1>1. Locked(e) = [addr |-> e.addr, st |-> cache_state_lock(e.st)]
  BY DEF Locked, L1Entry, Entry
<1>2. e.st \in cache_state_t /\ e.addr \in Lines \union {None}
      /\ (cache_state_unlock(e.st) # T_STATE_INVALID => e.addr \in Lines)
  BY DEF L1Entry, Entry
<1>3. Locked(e) \in Entry
  BY <1>1, <1>2, StateFacts DEF Entry
<1>4. Locked(e).st = cache_state_lock(e.st) /\ Locked(e).addr = e.addr
  BY <1>1
<1> QED BY <1>2, <1>3, <1>4, StateFacts DEF L1Entry

(* A register of controller c is written, or left alone. *)
Moves(f, g, c, T) == \E v \in T : g = [f EXCEPT ![c] = v]

LEMMA MovesSame ==
    ASSUME NEW S, NEW T, NEW f \in [S -> T], NEW c \in S, NEW g, g = f
    PROVE  Moves(f, g, c, T) /\ g[c] = f[c]
<1>1. f = [f EXCEPT ![c] = f[c]] /\ f[c] \in T
  OBVIOUS
<1> QED BY <1>1 DEF Moves

LEMMA MovesTo ==
    ASSUME NEW S, NEW T, NEW f \in [S -> T], NEW c \in S, NEW g, NEW v \in T,
           g = [f EXCEPT ![c] = v]
    PROVE  Moves(f, g, c, T) /\ g[c] = v
BY DEF Moves

LEMMA GotoMoves ==
    ASSUME CtlType, NEW c \in CPUs, NEW next \in CCStates, NEW bug, Goto(c, next, bug)
    PROVE  Moves(st, st', c, CCStates) /\ (st'[c] = next \/ st'[c] = "s_bug")
<1>1. PICK x : x = IF bug THEN "s_bug" ELSE next
  OBVIOUS
<1>2. x \in CCStates /\ st' = [st EXCEPT ![c] = x] /\ (x = next \/ x = "s_bug")
  BY <1>1 DEF Goto, CCStates
<1> QED BY <1>2, MovesTo DEF CtlType

(* What a clock of its state machine does to a controller's registers. *)
ControllerMoves(c) ==
    /\ Moves(st, st', c, CCStates) /\ Moves(mshr, mshr', c, Mshr)
    /\ Moves(inv, inv', c, InvReg) /\ Moves(oldaddr, oldaddr', c, Lines \union {None})
    /\ Moves(tag, tag', c, Tags)
    /\ Fits(st'[c], mshr'[c], inv'[c], oldaddr'[c], tag'[c])

(* A write of the L1 tags. *)
LEMMA L1Write ==
    ASSUME TagType, NEW c \in CPUs, NEW ways, NEW l \in Lines \union {None},
           NEW s \in UnlockedStates, s # T_STATE_INVALID => l \in Lines,
           WriteL1(c, ways, l, s)
    PROVE  /\ Moves(tag, tag', c, Tags)
           /\ \A w \in Ways : tag'[c].l1[w] = IF w \in ways THEN MkEntry(l, s) ELSE tag[c].l1[w]
<1> DEFINE f == [w \in Ways |-> IF w \in ways THEN MkEntry(l, s) ELSE tag[c].l1[w]]
<1>0. tag[c] \in Tags
  BY DEF TagType
<1>1. f \in [Ways -> L1Entry]
  BY <1>0, MadeSlot DEF Tags
<1>2. tag' = [tag EXCEPT ![c].l1 = f]
  BY DEF WriteL1
<1> HIDE DEF f
<1>3. [tag[c] EXCEPT !.l1 = f] \in Tags /\ [tag[c] EXCEPT !.l1 = f].l1 = f
  BY <1>0, <1>1 DEF Tags
<1>4. tag' = [tag EXCEPT ![c] = [tag[c] EXCEPT !.l1 = f]]
  BY <1>2
<1>5. Moves(tag, tag', c, Tags) /\ tag'[c].l1 = f
  BY <1>3, <1>4, MovesTo DEF TagType
<1> QED BY <1>5 DEF f

(* A controller's registers have their types, and fit its state. *)
Regs(c) ==
    /\ c \in CPUs /\ CtlType /\ TagType /\ PortType /\ BusTypeOK
    /\ st[c] \in CCStates /\ mshr[c] \in Mshr /\ inv[c] \in InvReg
    /\ oldaddr[c] \in Lines \union {None} /\ tag[c] \in Tags
    /\ xtag[c] \in Tags /\ snp[c] \in Request \union {None}
    /\ Fits(st[c], mshr[c], inv[c], oldaddr[c], tag[c])

LEMMA TypedRegs ==
    ASSUME TypeInv, NEW c \in CPUs
    PROVE  Regs(c)
BY L1Assumption DEF Regs, TypeInv, CtlType, TagType, BusTypeOK, ControllerInv

LEMMA KeepsRegs ==
    ASSUME NEW c, Regs(c)
    PROVE  /\ st' = st => Moves(st, st', c, CCStates) /\ st'[c] = st[c]
           /\ mshr' = mshr => Moves(mshr, mshr', c, Mshr) /\ mshr'[c] = mshr[c]
           /\ inv' = inv => Moves(inv, inv', c, InvReg) /\ inv'[c] = inv[c]
           /\ oldaddr' = oldaddr =>
                Moves(oldaddr, oldaddr', c, Lines \union {None}) /\ oldaddr'[c] = oldaddr[c]
           /\ tag' = tag => Moves(tag, tag', c, Tags) /\ tag'[c] = tag[c]
BY MovesSame DEF Regs, CtlType, TagType

LEMMA NoMshrType == NoMshr \in Mshr /\ ~NoMshr.l2hit
BY StateFacts DEF NoMshr, Mshr

LEMMA NoInvType == NoInv \in InvReg
BY DEF NoInv, InvReg

(* A snoop that needs attention abandons the miss. *)
LEMMA SnoopTaken ==
    ASSUME NEW c, Regs(c), s_attn(c), handle_s_attn(c), UNCHANGED tag,
           Moves(oldaddr, oldaddr', c, Lines \union {None})
    PROVE  ControllerMoves(c)
<1>0. snp[c] \in Request
  BY DEF s_attn, Active, Regs
<1> DEFINE i == [act |-> IF snp[c].excl THEN "hit_wb_inv" ELSE "hit_wb_shar",
                 addr |-> snp[c].addr, expl |-> FALSE, way |-> None]
<1>1. i \in InvReg /\ i.addr \in Lines
  BY <1>0 DEF InvReg, Request, InvActs, CacheOps
<1>2. inv' = [inv EXCEPT ![c] = i] /\ mshr' = [mshr EXCEPT ![c] = NoMshr]
      /\ Goto(c, "s_inv0", FALSE)
  BY DEF handle_s_attn
<1> HIDE DEF i
<1>3. Moves(inv, inv', c, InvReg) /\ inv'[c] = i
  BY <1>1, <1>2, MovesTo DEF Regs, CtlType
<1>4. Moves(mshr, mshr', c, Mshr) /\ mshr'[c] = NoMshr
  BY <1>2, NoMshrType, MovesTo DEF Regs, CtlType
<1>5. Moves(st, st', c, CCStates) /\ (st'[c] = "s_inv0" \/ st'[c] = "s_bug")
  BY <1>2, GotoMoves DEF Regs, CCStates
<1>6. Moves(tag, tag', c, Tags)
  BY KeepsRegs
<1>7. Fits(st'[c], mshr'[c], inv'[c], oldaddr'[c], tag'[c])
  BY <1>1, <1>3, <1>4, <1>5, NoMshrType
     DEF Fits, MissStates, RefillStates, InvStates, CopyStates
<1> QED BY <1>3, <1>4, <1>5, <1>6, <1>7 DEF ControllerMoves

LEMMA IdleMoves ==
    ASSUME NEW c, Regs(c), NEW dk, NEW ik, s_idle(c, dk, ik)
    PROVE  ControllerMoves(c)
<1>0. st[c] = "s_idle" /\ tag' = tag /\ Moves(tag, tag', c, Tags)
  BY KeepsRegs DEF s_idle
<1>1. Moves(oldaddr, oldaddr', c, Lines \union {None})
  <2>1. PICK x \in Lines \union {None} : oldaddr' = [oldaddr EXCEPT ![c] = x]
    BY DEF s_idle, Regs
  <2> QED BY <2>1, MovesTo DEF Regs, CtlType
<1>l. mshr[c].l2hit => HasL2
  BY DEF Regs, Fits
<1>2. CASE IdleSnoop(c)
  BY <1>0, <1>1, <1>2, SnoopTaken DEF IdleSnoop
<1>3. CASE IdleInv(c)
  <2>1. dreq[c] \in PortReq /\ dreq[c].op \in CacheOps
    BY <1>3 DEF IdleInv, CacheOpPending, Regs, PortType
  <2> DEFINE i == [act |-> dreq[c].op, addr |-> dreq[c].addr, expl |-> TRUE, way |-> None]
  <2>2. i \in InvReg /\ i.addr \in Lines
    BY <2>1 DEF InvReg, PortReq, InvActs
  <2>3. inv' = [inv EXCEPT ![c] = i] /\ mshr' = mshr /\ Goto(c, "s_inv1", FALSE)
    BY <1>3 DEF IdleInv
  <2> HIDE DEF i
  <2>4. Moves(inv, inv', c, InvReg) /\ inv'[c] = i
    BY <2>2, <2>3, MovesTo DEF Regs, CtlType
  <2>5. Moves(st, st', c, CCStates) /\ (st'[c] = "s_inv1" \/ st'[c] = "s_bug")
    BY <2>3, GotoMoves DEF Regs, CCStates
  <2>6. Moves(mshr, mshr', c, Mshr) /\ mshr'[c] = mshr[c]
    BY <2>3, KeepsRegs
  <2>7. Fits(st'[c], mshr'[c], inv'[c], oldaddr'[c], tag'[c])
    BY <1>l, <2>2, <2>4, <2>5, <2>6 DEF Fits, MissStates, RefillStates, InvStates, CopyStates
  <2> QED BY <1>0, <1>1, <2>4, <2>5, <2>6, <2>7 DEF ControllerMoves
<1>4. CASE IdleMiss(c, dk, ik)
  <2>1. PICK x, w :
          /\ x \in Misses(c, dk, ik) /\ w \in MissWays(c, x.ways, x.req.addr)
          /\ mshr' = [mshr EXCEPT ![c] = [NoMshr EXCEPT
             !.valid = TRUE, !.share = x.share, !.addr = x.req.addr,
             !.cur = CurState(c, x.ways, x.req.addr),
             !.min = MinState(x.req.op), !.ins = MinState(x.req.op), !.way = w]]
    BY <1>4 DEF IdleMiss
  <2>2. x.req \in PortReq /\ x.share \in BOOLEAN /\ x.ways \subseteq Ways
    <3>1. DMiss(c) => dreq[c] \in PortReq
      BY DEF DMiss, Regs, PortType
    <3>2. IMiss(c) => ireq[c] \in PortReq
      BY DEF IMiss, Regs, PortType
    <3>3. PICK h : h = ~HINT_ICACHE_SHARE
      OBVIOUS
    <3>4. h \in BOOLEAN
      BY Zenon, <3>3
    <3>5. CASE DMiss(c) /\ x = [req |-> dreq[c], ways |-> DWays, share |-> FALSE]
      BY <3>1, <3>5 DEF Ways
    <3>6. CASE IMiss(c) /\ x = [req |-> ireq[c], ways |-> IWays, share |-> h]
      <4>1. x.req = ireq[c] /\ x.ways = IWays /\ x.share = h
        BY <3>6
      <4>2. x.req \in PortReq
        BY <3>2, <3>6, <4>1
      <4>3. x.share \in BOOLEAN
        BY Zenon, <3>4, <4>1
      <4> QED BY <4>1, <4>2, <4>3 DEF Ways
    <3> QED BY <2>1, <3>3, <3>5, <3>6 DEF Misses
  <2>3. PICK l : l = x.req.addr
    OBVIOUS
  <2>4. PICK n : n = MinState(x.req.op)
    OBVIOUS
  <2>5. PICK u : u = CurState(c, x.ways, x.req.addr)
    OBVIOUS
  <2>6. l \in Lines /\ n \in UnlockedStates
    BY <2>2, <2>3, <2>4, StateFacts DEF PortReq
  <2>7. w \in Ways
    BY <2>1, <2>2 DEF MissWays, TagWays, EmptyWays
  <2>8. u \in UnlockedStates
    <3>1. CASE TagWays(c, x.ways, l) = {}
      BY <2>3, <2>5, <3>1, StateFacts DEF CurState
    <3>2. CASE TagWays(c, x.ways, l) # {}
      <4>1. PICK y \in Ways : u = cache_state_unlock(xtag[c].l1[y].st)
        BY <2>2, <2>3, <2>5, <3>2 DEF CurState, TagWays
      <4>2. xtag[c].l1[y].st \in cache_state_t
        BY <4>1 DEF Regs, Tags, L1Entry, Entry
      <4> QED BY <4>1, <4>2, StateFacts
    <3> QED BY <3>1, <3>2
  <2>h. PICK h \in BOOLEAN : h = x.share
    BY <2>2
  <2>9. PICK m : m = [NoMshr EXCEPT !.valid = TRUE, !.share = h, !.addr = l,
                        !.cur = u, !.min = n, !.ins = n, !.way = w]
    OBVIOUS
  <2>10. /\ mshr' = [mshr EXCEPT ![c] = m]
         /\ m \in Mshr /\ m.addr = l /\ m.way = w /\ ~m.l2hit
    <3>1. mshr' = [mshr EXCEPT ![c] = m]
      BY <2>1, <2>3, <2>4, <2>5, <2>h, <2>9
    <3>2. m \in Mshr
      BY <2>6, <2>7, <2>8, <2>9, NoMshrType DEF Mshr
    <3>3. m.addr = l /\ m.way = w /\ ~m.l2hit
      BY <2>9 DEF NoMshr
    <3> QED BY <3>1, <3>2, <3>3
  <2>11. Moves(mshr, mshr', c, Mshr) /\ mshr'[c] = m
    BY <2>10, MovesTo DEF Regs, CtlType
  <2>12. Goto(c, "s_miss1", FALSE) /\ inv' = inv
    BY <1>4 DEF IdleMiss
  <2>13. Moves(st, st', c, CCStates) /\ (st'[c] = "s_miss1" \/ st'[c] = "s_bug")
    BY <2>12, GotoMoves DEF Regs, CCStates
  <2>14. Moves(inv, inv', c, InvReg)
    BY <2>12, KeepsRegs
  <2>15. Fits(st'[c], mshr'[c], inv'[c], oldaddr'[c], tag'[c])
    BY <2>6, <2>7, <2>10, <2>11, <2>13 DEF Fits, MissStates, RefillStates, InvStates, CopyStates
  <2> QED BY <1>0, <1>1, <2>11, <2>13, <2>14, <2>15 DEF ControllerMoves
<1>5. CASE IdleStay(c, dk, ik)
  <2>1. st' = st /\ mshr' = mshr /\ inv' = inv
    BY <1>5 DEF IdleStay
  <2>2. Fits(st'[c], mshr'[c], inv'[c], oldaddr'[c], tag'[c])
    BY <1>0, <1>l, <2>1 DEF Fits, MissStates, RefillStates, InvStates, CopyStates
  <2> QED BY <1>0, <1>1, <2>1, <2>2, KeepsRegs DEF ControllerMoves
<1> QED BY <1>2, <1>3, <1>4, <1>5 DEF s_idle

(* The lookup in L2, before a miss goes to the bus. *)
LEMMA L2Lookup ==
    ASSUME NEW c, Regs(c), NEW l \in Lines
    PROVE  L2Entry(c, l) \in L2Slot /\ (L2Hit(c, l) => HasL2 /\ L2Set[l] \in L2Sets)
<1>1. CASE HasL2
  <2>1. L2Set[l] \in L2Sets
    BY <1>1, L1Assumption DEF HasL2
  <2>2. tag[c].l2[L2Set[l]] \in L2Slot
    BY <2>1 DEF Regs, Tags
  <2> QED BY <1>1, <2>1, <2>2 DEF L2Entry
<1>2. CASE ~HasL2
  <2>1. L2Entry(c, l) = EmptyEntry
    BY <1>2 DEF L2Entry
  <2>2. cache_state_unlock(EmptyEntry.st) = T_STATE_INVALID
    BY StateFacts DEF EmptyEntry
  <2> QED BY <2>1, <2>2, EmptySlot DEF L2Hit, Holds
<1> QED BY <1>1, <1>2

(* A refill locks the way it will fill and takes the line out of L2. *)
LEMMA RefillTags ==
    ASSUME NEW t \in Tags, NEW w \in Ways, NEW u, NEW s \in L2Sets,
           u = [t EXCEPT !.l1[w] = Locked(@), !.l2[s] = EmptyEntry]
    PROVE  u \in Tags
<1>1. PICK f : f = [t.l1 EXCEPT ![w] = Locked(t.l1[w])]
  OBVIOUS
<1>2. PICK g : g = [t.l2 EXCEPT ![s] = EmptyEntry]
  OBVIOUS
<1>3. f \in [Ways -> L1Entry]
  BY <1>1, LockedEntry DEF Tags
<1>4. g \in [L2Sets -> L2Slot]
  BY <1>2, EmptySlot DEF Tags
<1>5. u = [t EXCEPT !.l1 = f, !.l2 = g]
  BY <1>1, <1>2 DEF Tags
<1> QED BY <1>3, <1>4, <1>5 DEF Tags

LEMMA LockTags ==
    ASSUME NEW t \in Tags, NEW w \in Ways, NEW u, u = [t EXCEPT !.l1[w] = Locked(@)]
    PROVE  u \in Tags
<1>1. PICK f : f = [t.l1 EXCEPT ![w] = Locked(t.l1[w])]
  OBVIOUS
<1>2. f \in [Ways -> L1Entry]
  BY <1>1, LockedEntry DEF Tags
<1>3. u = [t EXCEPT !.l1 = f]
  BY <1>1 DEF Tags
<1> QED BY <1>2, <1>3 DEF Tags

LEMMA Miss1Moves ==
    ASSUME NEW c, Regs(c), s_miss1(c)
    PROVE  ControllerMoves(c)
<1> USE DEF MissStates, RefillStates, InvStates, CopyStates
<1>0. /\ st[c] = "s_miss1" /\ mshr[c] \in Mshr /\ mshr[c].addr \in Lines
      /\ mshr[c].way \in Ways /\ (mshr[c].l2hit => HasL2)
  BY DEF s_miss1, Regs, Fits
<1>1. PICK e : e = MissEntry(c)
  OBVIOUS
<1>2. /\ e \in L1Entry /\ e.addr \in Lines \union {None} /\ e.st \in cache_state_t
      /\ (cache_state_unlock(e.st) # T_STATE_INVALID => e.addr \in Lines)
      /\ cache_state_unlock(e.st) \in UnlockedStates
  BY <1>0, <1>1, StateFacts DEF MissEntry, Regs, Tags, L1Entry, Entry
<1>3. Moves(oldaddr, oldaddr', c, Lines \union {None}) /\ oldaddr'[c] = e.addr
  <2>1. oldaddr' = [oldaddr EXCEPT ![c] = e.addr]
    BY <1>1 DEF s_miss1
  <2> QED BY <1>2, <2>1, MovesTo DEF Regs, CtlType
<1>4. CASE Miss1Cross(c)
  <2>1. PICK i : i = [act |-> "hit_wb_inv", addr |-> mshr[c].addr, expl |-> FALSE, way |-> None]
    OBVIOUS
  <2>2. i \in InvReg /\ i.addr \in Lines
    BY <1>0, <2>1 DEF InvReg, InvActs, CacheOps
  <2>3. inv' = [inv EXCEPT ![c] = i] /\ Goto(c, "s_inv1", L2Hit(c, mshr[c].addr))
        /\ mshr' = mshr /\ tag' = tag
    BY <1>4, <2>1 DEF Miss1Cross
  <2>4. Moves(inv, inv', c, InvReg) /\ inv'[c] = i
    BY <2>2, <2>3, MovesTo DEF Regs, CtlType
  <2>5. Moves(st, st', c, CCStates) /\ (st'[c] = "s_inv1" \/ st'[c] = "s_bug")
    BY <2>3, GotoMoves DEF Regs, CCStates
  <2>6. Moves(mshr, mshr', c, Mshr) /\ mshr'[c] = mshr[c] /\ Moves(tag, tag', c, Tags)
    BY <2>3, KeepsRegs
  <2>7. Fits(st'[c], mshr'[c], inv'[c], oldaddr'[c], tag'[c])
    BY <1>0, <2>2, <2>4, <2>5, <2>6 DEF Fits
  <2> QED BY <1>3, <2>4, <2>5, <2>6, <2>7 DEF ControllerMoves
<1>5. CASE Miss1Promote(c)
  <2>1. mshr' = mshr /\ inv' = inv
    BY <1>5 DEF Miss1Promote
  <2>2. Moves(mshr, mshr', c, Mshr) /\ mshr'[c] = mshr[c] /\ Moves(inv, inv', c, InvReg)
    BY <2>1, KeepsRegs
  <2>3. Moves(tag, tag', c, Tags)
    <3>1. CASE tag' = tag
      BY <3>1, KeepsRegs
    <3>2. CASE WriteL1(c, {mshr[c].way}, mshr[c].addr, mshr[c].min)
      <4>1. mshr[c].min \in UnlockedStates
        BY <1>0 DEF Mshr
      <4> QED BY <1>0, <3>2, <4>1, L1Write DEF Regs
    <3> QED BY <1>5, <3>1, <3>2 DEF Miss1Promote
  <2>4. PICK bug : Goto(c, "s_lsnoop_promote1", bug) \/ Goto(c, "s_return1", bug)
    BY <1>5 DEF Miss1Promote
  <2>5. Moves(st, st', c, CCStates)
        /\ st'[c] \in {"s_lsnoop_promote1", "s_return1", "s_bug"}
    BY <2>4, GotoMoves DEF Regs, CCStates
  <2>6. Fits(st'[c], mshr'[c], inv'[c], oldaddr'[c], tag'[c])
    BY <1>0, <2>2, <2>5 DEF Fits
  <2> QED BY <1>3, <2>2, <2>3, <2>5, <2>6 DEF ControllerMoves
<1>6. CASE Miss1Unlock(c)
  <2>1. mshr' = mshr /\ inv' = inv
        /\ WriteL1(c, {mshr[c].way}, e.addr, cache_state_unlock(e.st))
    BY <1>1, <1>6 DEF Miss1Unlock
  <2>2. Moves(mshr, mshr', c, Mshr) /\ mshr'[c] = mshr[c] /\ Moves(inv, inv', c, InvReg)
    BY <2>1, KeepsRegs
  <2>3. Moves(tag, tag', c, Tags)
    <3>1. PICK s \in UnlockedStates : s = cache_state_unlock(e.st)
      BY <1>2
    <3> QED BY <1>2, <2>1, <3>1, L1Write DEF Regs
  <2>4. PICK bug : Goto(c, "s_return1", bug)
    BY <1>6 DEF Miss1Unlock
  <2>5. Moves(st, st', c, CCStates) /\ st'[c] \in {"s_return1", "s_bug"}
    BY <2>4, GotoMoves DEF Regs, CCStates
  <2>6. Fits(st'[c], mshr'[c], inv'[c], oldaddr'[c], tag'[c])
    BY <1>0, <2>2, <2>5 DEF Fits
  <2> QED BY <1>3, <2>2, <2>3, <2>5, <2>6 DEF ControllerMoves
<1>7. CASE Miss1Refill(c)
  <2> DEFINE hit == L2Hit(c, mshr[c].addr)
             l2 == L2Entry(c, mshr[c].addr)
             ins == IF mshr[c].min = T_STATE_MODIFIED /\ l2.st = T_STATE_EXCLUSIVE
                    THEN T_STATE_MODIFIED ELSE l2.st
             old == cache_state_unlock(e.st)
  <2>1. inv' = inv /\ Moves(inv, inv', c, InvReg)
    BY <1>7, KeepsRegs DEF Miss1Refill
  <2>2. CASE hit /\ mshr' = [mshr EXCEPT ![c].old = old, ![c].l2hit = TRUE,
                                         ![c].snooped = TRUE, ![c].ins = ins]
              /\ tag' = [tag EXCEPT ![c].l1[mshr[c].way] = Locked(@),
                                    ![c].l2[L2Set[mshr[c].addr]] = EmptyEntry]
              /\ Goto(c, "s_miss2", L1Matches(c, mshr[c].addr) # {})
    <3>1. l2 \in L2Slot /\ HasL2 /\ L2Set[mshr[c].addr] \in L2Sets
      BY <1>0, <2>2, L2Lookup
    <3>2. ins \in UnlockedStates
      BY <3>1, StateFacts DEF L2Slot
    <3>3. PICK a \in UnlockedStates : a = ins
      BY <3>2
    <3>4. PICK b \in UnlockedStates : b = old
      BY <1>2
    <3>5. PICK m : m = [mshr[c] EXCEPT !.old = b, !.l2hit = TRUE, !.snooped = TRUE, !.ins = a]
      OBVIOUS
    <3>6. mshr' = [mshr EXCEPT ![c] = m]
      BY <2>2, <3>3, <3>4, <3>5
    <3>7. m \in Mshr /\ m.addr = mshr[c].addr /\ m.way = mshr[c].way /\ m.old = b
      BY <1>0, <3>5 DEF Mshr
    <3>8. Moves(mshr, mshr', c, Mshr) /\ mshr'[c] = m
      BY <3>6, <3>7, MovesTo DEF Regs, CtlType
    <3>9. PICK u : u = [tag[c] EXCEPT !.l1[mshr[c].way] = Locked(@),
                                      !.l2[L2Set[mshr[c].addr]] = EmptyEntry]
      OBVIOUS
    <3>10. u \in Tags
      BY <1>0, <3>1, <3>9, RefillTags DEF Regs
    <3>11. tag' = [tag EXCEPT ![c] = u]
      BY <2>2, <3>9
    <3>12. Moves(tag, tag', c, Tags)
      BY <3>10, <3>11, MovesTo DEF Regs, TagType
    <3>13. Moves(st, st', c, CCStates) /\ st'[c] \in {"s_miss2", "s_bug"}
      BY <2>2, GotoMoves DEF Regs, CCStates
    <3>14. Fits(st'[c], mshr'[c], inv'[c], oldaddr'[c], tag'[c])
      BY <1>0, <1>2, <1>3, <3>1, <3>4, <3>7, <3>8, <3>13 DEF Fits
    <3> QED BY <1>3, <2>1, <3>8, <3>12, <3>13, <3>14 DEF ControllerMoves
  <2>3. CASE ~hit /\ mshr' = [mshr EXCEPT ![c].old = old]
              /\ tag' = [tag EXCEPT ![c].l1[mshr[c].way] = Locked(@)]
              /\ Goto(c, "s_lsnoop_miss1", FALSE)
    <3>4. PICK b \in UnlockedStates : b = old
      BY <1>2
    <3>5. PICK m : m = [mshr[c] EXCEPT !.old = b]
      OBVIOUS
    <3>6. mshr' = [mshr EXCEPT ![c] = m]
      BY <2>3, <3>4, <3>5
    <3>7. m \in Mshr /\ m.addr = mshr[c].addr /\ m.way = mshr[c].way /\ m.old = b
          /\ m.l2hit = mshr[c].l2hit
      BY <1>0, <3>5 DEF Mshr
    <3>8. Moves(mshr, mshr', c, Mshr) /\ mshr'[c] = m
      BY <3>6, <3>7, MovesTo DEF Regs, CtlType
    <3>9. PICK u : u = [tag[c] EXCEPT !.l1[mshr[c].way] = Locked(@)]
      OBVIOUS
    <3>10. u \in Tags
      BY <1>0, <3>9, LockTags DEF Regs
    <3>11. tag' = [tag EXCEPT ![c] = u]
      BY <2>3, <3>9
    <3>12. Moves(tag, tag', c, Tags)
      BY <3>10, <3>11, MovesTo DEF Regs, TagType
    <3>13. Moves(st, st', c, CCStates) /\ st'[c] \in {"s_lsnoop_miss1", "s_bug"}
      BY <2>3, GotoMoves DEF Regs, CCStates
    <3>14. Fits(st'[c], mshr'[c], inv'[c], oldaddr'[c], tag'[c])
      BY <1>0, <1>2, <1>3, <3>4, <3>7, <3>8, <3>13 DEF Fits
    <3> QED BY <1>3, <2>1, <3>8, <3>12, <3>13, <3>14 DEF ControllerMoves
  <2> QED BY <1>1, <1>7, <2>2, <2>3 DEF Miss1Refill
<1> QED BY <1>4, <1>5, <1>6, <1>7 DEF s_miss1

(* The states that leave all registers but st alone. *)
LEMMA Advances ==
    ASSUME NEW c, Regs(c), NEW n \in CCStates, NEW bug,
           Goto(c, n, bug) \/ (st' = st /\ n = st[c]),
           UNCHANGED <<mshr, inv, tag, oldaddr>>,
           Fits(n, mshr[c], inv[c], oldaddr[c], tag[c])
    PROVE  ControllerMoves(c)
<1>1. Moves(st, st', c, CCStates) /\ st'[c] \in {n, "s_bug"}
  <2>1. CASE Goto(c, n, bug)
    BY <2>1, GotoMoves DEF Regs
  <2>2. CASE st' = st /\ n = st[c]
    BY <2>2, KeepsRegs
  <2> QED BY <2>1, <2>2
<1>2. /\ Moves(mshr, mshr', c, Mshr) /\ mshr'[c] = mshr[c]
      /\ Moves(inv, inv', c, InvReg) /\ inv'[c] = inv[c]
      /\ Moves(oldaddr, oldaddr', c, Lines \union {None}) /\ oldaddr'[c] = oldaddr[c]
      /\ Moves(tag, tag', c, Tags) /\ tag'[c] = tag[c]
  BY KeepsRegs
<1>3. Fits("s_bug", mshr[c], inv[c], oldaddr[c], tag[c])
  BY DEF Fits, MissStates, RefillStates, InvStates, CopyStates
<1>4. Fits(st'[c], mshr'[c], inv'[c], oldaddr'[c], tag'[c])
  BY <1>1, <1>2, <1>3
<1> QED BY <1>1, <1>2, <1>4 DEF ControllerMoves

LEMMA Miss24Moves ==
    ASSUME NEW c, Regs(c), NEW m_halt, s_miss2(c) \/ s_miss3(c) \/ s_miss4(c, m_halt)
    PROVE  ControllerMoves(c)
<1>1. UNCHANGED <<mshr, inv, tag, oldaddr>>
  BY DEF s_miss2, s_miss3, s_miss4
<1>2. PICK n \in {"s_miss3", "s_miss4", "s_miss5"} : Goto(c, n, FALSE)
  BY DEF s_miss2, s_miss3, s_miss4
<1>3. st[c] \in {"s_miss2", "s_miss3", "s_miss4"}
  BY DEF s_miss2, s_miss3, s_miss4
<1>4. Fits(n, mshr[c], inv[c], oldaddr[c], tag[c])
  BY <1>2, <1>3 DEF Regs, Fits, MissStates, RefillStates, InvStates, CopyStates
<1>5. n \in CCStates
  BY <1>2 DEF CCStates
<1> QED BY <1>1, <1>2, <1>4, <1>5, Advances

LEMMA LSnoop12Moves ==
    ASSUME NEW c, Regs(c),
           \/ s_lsnoop_promote1(c) \/ s_lsnoop_promote2(c)
           \/ s_lsnoop_miss1(c) \/ s_lsnoop_miss2(c)
    PROVE  ControllerMoves(c)
<1>0. tag' = tag /\ oldaddr' = oldaddr
  BY DEF s_lsnoop_promote1, s_lsnoop_promote2, s_lsnoop_miss1, s_lsnoop_miss2, LSnoopKeep
<1>1. CASE LSnoopAbandon(c)
  <2>1. Moves(oldaddr, oldaddr', c, Lines \union {None})
    BY <1>0, KeepsRegs
  <2> QED BY <1>0, <1>1, <2>1, SnoopTaken DEF LSnoopAbandon
<1>2. CASE ~LSnoopAbandon(c)
  <2>1. \/ st[c] = "s_lsnoop_promote1" /\ LSnoopArbitrate(c, TRUE, "s_lsnoop_promote2")
        \/ st[c] = "s_lsnoop_promote2" /\ LSnoopRequest(c, "s_lsnoop_promote3")
        \/ /\ st[c] = "s_lsnoop_miss1"
           /\ LSnoopArbitrate(c, mshr[c].min >= T_STATE_EXCLUSIVE, "s_lsnoop_miss2")
        \/ st[c] = "s_lsnoop_miss2" /\ LSnoopRequest(c, "s_lsnoop_miss3")
    BY <1>2 DEF s_lsnoop_promote1, s_lsnoop_promote2, s_lsnoop_miss1, s_lsnoop_miss2
  <2>2. mshr' = mshr /\ inv' = inv
    BY <2>1 DEF LSnoopArbitrate, LSnoopRequest
  <2>3. ASSUME NEW next \in CCStates, NEW excl,
               LSnoopArbitrate(c, excl, next) \/ LSnoopRequest(c, next),
               Fits(next, mshr[c], inv[c], oldaddr[c], tag[c])
        PROVE  ControllerMoves(c)
    <3>1. PICK n \in {next, st[c]} : Goto(c, n, FALSE) \/ (st' = st /\ n = st[c])
      BY <2>3 DEF LSnoopArbitrate, LSnoopRequest
    <3>2. n \in CCStates /\ Fits(n, mshr[c], inv[c], oldaddr[c], tag[c])
      BY <2>3, <3>1 DEF Regs
    <3> QED BY <1>0, <2>2, <3>1, <3>2, Advances
  <2>4. CASE st[c] \in {"s_lsnoop_promote1", "s_lsnoop_promote2"}
    <3>1. \A n \in {"s_lsnoop_promote2", "s_lsnoop_promote3"} :
             n \in CCStates /\ Fits(n, mshr[c], inv[c], oldaddr[c], tag[c])
      BY <2>4 DEF Regs, Fits, MissStates, RefillStates, InvStates, CopyStates, CCStates
    <3> QED BY <2>1, <2>3, <2>4, <3>1
  <2>5. CASE st[c] \in {"s_lsnoop_miss1", "s_lsnoop_miss2"}
    <3>1. \A n \in {"s_lsnoop_miss2", "s_lsnoop_miss3"} :
             n \in CCStates /\ Fits(n, mshr[c], inv[c], oldaddr[c], tag[c])
      BY <2>5 DEF Regs, Fits, MissStates, RefillStates, InvStates, CopyStates, CCStates
    <3> QED BY <2>1, <2>3, <2>5, <3>1
  <2> QED BY <2>1, <2>4, <2>5
<1> QED BY <1>1, <1>2

LEMMA InvDelayMoves ==
    ASSUME NEW c, Regs(c),
           \/ s_inv0(c) \/ s_inv3(c) \/ s_inv4(c) \/ s_inv5(c) \/ s_inv7(c) \/ s_return1(c)
    PROVE  ControllerMoves(c)
<1>1. UNCHANGED <<mshr, inv, tag, oldaddr>>
  BY DEF s_inv0, s_inv3, s_inv4, s_inv5, s_inv7, s_return1, InvDelay, InvKeep
<1>2. ASSUME NEW n \in CCStates, Goto(c, n, FALSE),
             Fits(n, mshr[c], inv[c], oldaddr[c], tag[c])
      PROVE  ControllerMoves(c)
  BY <1>1, <1>2, Advances
<1>3. \/ st[c] \in {"s_inv0", "s_inv7"} /\ Goto(c, "s_inv1", FALSE)
      \/ st[c] = "s_inv3" /\ Goto(c, "s_inv4", FALSE)
      \/ st[c] = "s_inv4" /\ Goto(c, "s_inv5", FALSE)
      \/ st[c] = "s_inv5" /\ Goto(c, "s_inv5", FALSE)
      \/ st[c] = "s_inv5" /\ Goto(c, "s_inv6", FALSE)
      \/ st[c] = "s_return1" /\ Goto(c, "s_return2", FALSE)
  BY DEF s_inv0, s_inv3, s_inv4, s_inv5, s_inv7, s_return1, InvDelay
<1>4. CASE st[c] \in {"s_inv0", "s_inv7"} /\ Goto(c, "s_inv1", FALSE)
  <2>1. "s_inv1" \in CCStates /\ Fits("s_inv1", mshr[c], inv[c], oldaddr[c], tag[c])
    BY <1>4 DEF Regs, Fits, MissStates, RefillStates, InvStates, CopyStates, CCStates
  <2> QED BY <1>2, <1>4, <2>1
<1>5. CASE st[c] \in {"s_inv3", "s_inv4", "s_inv5"}
  <2>1. \A n \in {"s_inv4", "s_inv5", "s_inv6"} :
           n \in CCStates /\ Fits(n, mshr[c], inv[c], oldaddr[c], tag[c])
    BY <1>5 DEF Regs, Fits, MissStates, RefillStates, InvStates, CopyStates, CCStates
  <2> QED BY <1>2, <1>3, <1>5, <2>1
<1>6. CASE st[c] = "s_return1" /\ Goto(c, "s_return2", FALSE)
  <2>1. "s_return2" \in CCStates /\ Fits("s_return2", mshr[c], inv[c], oldaddr[c], tag[c])
    BY <1>6 DEF Regs, Fits, MissStates, RefillStates, InvStates, CopyStates, CCStates
  <2> QED BY <1>2, <1>6, <2>1
<1> QED BY <1>3, <1>4, <1>5, <1>6

LEMMA Miss5Moves ==
    ASSUME NEW c, Regs(c), NEW moves, s_miss5(c, moves)
    PROVE  ControllerMoves(c)
<1> USE DEF MissStates, RefillStates, InvStates, CopyStates
<1>0. /\ st[c] = "s_miss5" /\ UNCHANGED <<mshr, inv, oldaddr>>
      /\ mshr[c] \in Mshr /\ mshr[c].addr \in Lines /\ mshr[c].way \in Ways
      /\ (mshr[c].old # T_STATE_INVALID => oldaddr[c] \in Lines)
      /\ (mshr[c].l2hit => HasL2)
      /\ tag[c] \in Tags
  BY DEF s_miss5, Regs, Fits
<1>1. CASE Miss5Done(c)
  <2>1. PICK e : e = MkEntry(mshr[c].addr, mshr[c].ins)
    OBVIOUS
  <2>2. PICK v : v = MkEntry(oldaddr[c], VictimState(c))
    OBVIOUS
  <2>3. e \in L1Entry
    <3>1. mshr[c].ins \in UnlockedStates
      BY <1>0 DEF Mshr
    <3> QED BY <1>0, <2>1, <3>1, MadeSlot
  <2>4. mshr[c].old # T_STATE_INVALID => v \in L2Slot
    <3>1. VictimState(c) \in UnlockedStates
      BY <1>0, StateFacts DEF VictimState, Mshr
    <3> QED BY <1>0, <2>2, <3>1, MadeSlot
  <2>5. PICK f : f = [tag[c].l1 EXCEPT ![mshr[c].way] = e]
    OBVIOUS
  <2>6. f \in [Ways -> L1Entry]
    BY <1>0, <2>3, <2>5 DEF Tags
  <2>7. PICK g : g = [s \in L2Sets |->
                        IF mshr[c].old # T_STATE_INVALID /\ s = L2Set[oldaddr[c]]
                        THEN v ELSE tag[c].l2[s]]
    OBVIOUS
  <2>8. g \in [L2Sets -> L2Slot]
    BY <1>0, <2>4, <2>7 DEF Tags
  <2>9. PICK u : u = [tag[c] EXCEPT !.l1 = f, !.l2 = g]
    OBVIOUS
  <2>10. tag' = [tag EXCEPT ![c] = u]
    <3>1. tag' = [tag EXCEPT ![c].l1[mshr[c].way] = e,
                    ![c].l2 = [s \in L2Sets |->
                        IF mshr[c].old # T_STATE_INVALID /\ s = L2Set[oldaddr[c]]
                        THEN v ELSE @[s]]]
      BY <1>1, <2>1, <2>2 DEF Miss5Done
    <3>2. [tag[c] EXCEPT !.l1[mshr[c].way] = e, !.l2 = g] = u
      BY <1>0, <2>5, <2>9 DEF Tags
    <3> QED BY <2>7, <3>1, <3>2
  <2>11. Moves(tag, tag', c, Tags)
    <3>1. u \in Tags
      BY <1>0, <2>6, <2>8, <2>9 DEF Tags
    <3> QED BY <2>10, <3>1, MovesTo DEF Regs, TagType
  <2>12. Moves(st, st', c, CCStates) /\ st'[c] \in {"s_return1", "s_bug"}
    BY <1>1, GotoMoves DEF Regs, CCStates, Miss5Done
  <2>13. Fits(st'[c], mshr'[c], inv'[c], oldaddr'[c], tag'[c])
    BY <1>0, <2>12 DEF Fits
  <2> QED BY <1>0, <2>11, <2>12, <2>13, KeepsRegs DEF ControllerMoves
<1>2. CASE st' = st /\ tag' = tag
  BY <1>0, <1>2, Advances DEF Regs
<1> QED BY <1>1, <1>2 DEF s_miss5

LEMMA LSnoop3Moves ==
    ASSUME NEW c, Regs(c), s_lsnoop_promote3(c) \/ s_lsnoop_miss3(c)
    PROVE  ControllerMoves(c)
<1> USE DEF MissStates, RefillStates, InvStates, CopyStates
<1>0. /\ UNCHANGED <<inv, oldaddr>> /\ mshr[c] \in Mshr /\ mshr[c].addr \in Lines
      /\ mshr[c].way \in Ways /\ (mshr[c].l2hit => HasL2)
  BY DEF s_lsnoop_promote3, s_lsnoop_miss3, Regs, Fits
<1>1. CASE tag' = tag /\ mshr' = mshr /\ (\E bug : Goto(c, st[c], bug))
  BY <1>0, <1>1, Advances DEF Regs
<1>2. CASE s_lsnoop_promote3(c) /\ ~bus.wait
  <2>1. Moves(tag, tag', c, Tags)
    <3>1. mshr[c].min \in UnlockedStates
      BY <1>0 DEF Mshr
    <3> QED BY <1>0, <1>2, <3>1, L1Write DEF Regs, s_lsnoop_promote3
  <2>2. PICK m : m = [mshr[c] EXCEPT !.snooped = TRUE]
    OBVIOUS
  <2>3. mshr' = [mshr EXCEPT ![c] = m]
    BY <1>2, <2>2 DEF s_lsnoop_promote3
  <2>4. m \in Mshr /\ m.l2hit = mshr[c].l2hit
    BY <1>0, <2>2 DEF Mshr
  <2>5. Moves(mshr, mshr', c, Mshr) /\ mshr'[c] = m
    BY <2>3, <2>4, MovesTo DEF Regs, CtlType
  <2>6. PICK bug : Goto(c, "s_return1", bug)
    BY <1>2 DEF s_lsnoop_promote3
  <2>7. Moves(st, st', c, CCStates) /\ st'[c] \in {"s_return1", "s_bug"}
    BY <2>6, GotoMoves DEF Regs, CCStates
  <2>8. Fits(st'[c], mshr'[c], inv'[c], oldaddr'[c], tag'[c])
    BY <1>0, <2>4, <2>5, <2>7 DEF Fits
  <2> QED BY <1>0, <2>1, <2>5, <2>7, <2>8, KeepsRegs DEF ControllerMoves
<1>3. CASE s_lsnoop_miss3(c) /\ ~bus.wait
  <2>1. st[c] = "s_lsnoop_miss3" /\ tag' = tag
    BY <1>3 DEF s_lsnoop_miss3
  <2>2. PICK i \in UnlockedStates : i = IF AutoPromote(c) THEN T_STATE_EXCLUSIVE ELSE mshr[c].ins
    BY <1>0, StateFacts DEF Mshr
  <2>3. PICK m : m = [mshr[c] EXCEPT !.snooped = TRUE, !.ins = i]
    OBVIOUS
  <2>4. mshr' = [mshr EXCEPT ![c] = m]
    BY <1>3, <2>2, <2>3 DEF s_lsnoop_miss3
  <2>5. m \in Mshr /\ m.addr = mshr[c].addr /\ m.way = mshr[c].way
        /\ m.old = mshr[c].old /\ m.l2hit = mshr[c].l2hit
    BY <1>0, <2>3 DEF Mshr
  <2>6. Moves(mshr, mshr', c, Mshr) /\ mshr'[c] = m
    BY <2>4, <2>5, MovesTo DEF Regs, CtlType
  <2>7. PICK bug : Goto(c, "s_miss2", bug)
    BY <1>3 DEF s_lsnoop_miss3
  <2>8. Moves(st, st', c, CCStates) /\ st'[c] \in {"s_miss2", "s_bug"}
    BY <2>7, GotoMoves DEF Regs, CCStates
  <2>9. m.old # T_STATE_INVALID => oldaddr[c] \in Lines
    BY <2>1, <2>5 DEF Regs, Fits
  <2>10. Fits(st'[c], mshr'[c], inv'[c], oldaddr'[c], tag'[c])
    BY <1>0, <2>5, <2>6, <2>8, <2>9 DEF Fits
  <2> QED BY <1>0, <2>1, <2>6, <2>8, <2>10, KeepsRegs DEF ControllerMoves
<1> QED BY <1>1, <1>2, <1>3 DEF s_lsnoop_promote3, s_lsnoop_miss3

LEMMA Return2Moves ==
    ASSUME NEW c, Regs(c), s_return2(c)
    PROVE  ControllerMoves(c)
<1>1. /\ mshr' = [mshr EXCEPT ![c] = NoMshr] /\ inv' = [inv EXCEPT ![c] = NoInv]
      /\ Goto(c, "s_idle", FALSE) /\ tag' = tag /\ oldaddr' = oldaddr
  BY DEF s_return2
<1>2. Moves(mshr, mshr', c, Mshr) /\ mshr'[c] = NoMshr
  BY <1>1, NoMshrType, MovesTo DEF Regs, CtlType
<1>3. Moves(inv, inv', c, InvReg)
  BY <1>1, NoInvType, MovesTo DEF Regs, CtlType
<1>4. Moves(st, st', c, CCStates) /\ st'[c] \in {"s_idle", "s_bug"}
  BY <1>1, GotoMoves DEF Regs, CCStates
<1>5. Fits(st'[c], mshr'[c], inv'[c], oldaddr'[c], tag'[c])
  BY <1>2, <1>4, NoMshrType DEF Fits, MissStates, RefillStates, InvStates, CopyStates
<1> QED BY <1>1, <1>2, <1>3, <1>4, <1>5, KeepsRegs DEF ControllerMoves

(* A set of ways has a lowest one: priority_encode finds it. *)
LEMMA LowestWay ==
    ASSUME NEW T, T \subseteq Ways, T # {}
    PROVE  (CHOOSE w \in T : \A x \in T : w <= x) \in T
<1>1. T \subseteq Nat
  BY L1Assumption DEF Ways
<1>2. PICK p \in T : \A q \in T : p <= q
  BY <1>1, LeastNumber
<1> QED BY <1>2

LEMMA InvFacts ==
    ASSUME NEW c, Regs(c), inv[c].addr \in Lines
    PROVE  /\ InvFinalState(c) \in UnlockedStates
           /\ InvL2(c) \in [L2Sets -> L2Slot]
           /\ MkEntry(inv[c].addr, InvFinalState(c)) \in L1Entry
           /\ InvMatches(c) \subseteq Ways
           /\ \A w \in InvDirty(c) : w \in Ways /\ tag[c].l1[w].addr \in Lines
<1>1. InvFinalState(c) \in UnlockedStates
  BY StateFacts DEF InvFinalState
<1>2. MkEntry(inv[c].addr, InvFinalState(c)) \in L2Slot
      /\ MkEntry(inv[c].addr, InvFinalState(c)) \in L1Entry
  BY <1>1, MadeSlot
<1>3. InvL2(c) \in [L2Sets -> L2Slot]
  <2>1. tag[c].l2 \in [L2Sets -> L2Slot]
    BY DEF Regs, Tags
  <2> QED BY <1>2, <2>1 DEF InvL2
<1>4. InvMatches(c) \subseteq Ways
  BY DEF InvMatches, L1Matches
<1>5. ASSUME NEW w \in InvDirty(c) PROVE w \in Ways /\ tag[c].l1[w].addr \in Lines
  <2>1. w \in InvMatches(c) /\ Dirty(tag[c].l1[w])
    BY <1>5 DEF InvDirty
  <2>2. w \in Ways /\ tag[c].l1[w] \in L1Entry
    BY <1>4, <2>1 DEF Regs, Tags
  <2> QED BY <2>1, <2>2, StateFacts DEF Dirty, L1Entry
<1> QED BY <1>1, <1>2, <1>3, <1>4, <1>5

LEMMA Inv1Moves ==
    ASSUME NEW c, Regs(c), s_inv1(c)
    PROVE  ControllerMoves(c)
<1> USE DEF MissStates, RefillStates, InvStates, CopyStates
<1>0. /\ mshr' = mshr /\ oldaddr' = oldaddr /\ inv[c].addr \in Lines
      /\ inv[c] \in InvReg /\ tag[c] \in Tags /\ (mshr[c].l2hit => HasL2)
  BY DEF s_inv1, InvKeep, Regs, Fits
<1>1. PICK g \in [L2Sets -> L2Slot] : g = InvL2(c)
  BY <1>0, InvFacts
<1>2. CASE trigger_writeback(c)
  <2>1. PICK w : w = CHOOSE y \in InvDirty(c) : \A x \in InvDirty(c) : y <= x
    OBVIOUS
  <2>2. w \in Ways /\ tag[c].l1[w].addr \in Lines
    <3>1. InvDirty(c) \subseteq Ways /\ InvDirty(c) # {}
      BY <1>0, <1>2, InvFacts DEF trigger_writeback
    <3>2. PICK T : T = InvDirty(c)
      OBVIOUS
    <3>3. w \in T
      BY <2>1, <3>1, <3>2, LowestWay
    <3> QED BY <1>0, <3>2, <3>3, InvFacts
  <2>3. PICK i : i = [inv[c] EXCEPT !.way = w]
    OBVIOUS
  <2>4. i \in InvReg /\ i.addr = inv[c].addr /\ i.way = w
    BY <1>0, <2>2, <2>3 DEF InvReg
  <2>5. PICK u : u = [tag[c] EXCEPT !.l2 = g]
    OBVIOUS
  <2>6. u \in Tags /\ u.l1 = tag[c].l1
    BY <1>0, <2>5 DEF Tags
  <2>7. /\ inv' = [inv EXCEPT ![c] = i] /\ tag' = [tag EXCEPT ![c] = u]
        /\ Goto(c, "s_inv2", FALSE)
    BY <1>1, <1>2, <2>1, <2>3, <2>5 DEF trigger_writeback
  <2>8. Moves(inv, inv', c, InvReg) /\ inv'[c] = i
    BY <2>4, <2>7, MovesTo DEF Regs, CtlType
  <2>9. Moves(tag, tag', c, Tags) /\ tag'[c] = u
    BY <2>6, <2>7, MovesTo DEF Regs, TagType
  <2>10. Moves(st, st', c, CCStates) /\ st'[c] \in {"s_inv2", "s_bug"}
    BY <2>7, GotoMoves DEF Regs, CCStates
  <2>11. Fits(st'[c], mshr'[c], inv'[c], oldaddr'[c], tag'[c])
    BY <1>0, <2>2, <2>4, <2>6, <2>8, <2>9, <2>10 DEF Fits
  <2> QED BY <1>0, <2>8, <2>9, <2>10, <2>11, KeepsRegs DEF ControllerMoves
<1>3. CASE Inv1Done(c)
  <2>1. PICK e \in L1Entry : e = MkEntry(inv[c].addr, InvFinalState(c))
    BY <1>0, InvFacts
  <2>2. PICK f : f = [w \in Ways |-> IF w \in InvMatches(c) /\ inv[c].act # "hit_wb"
                                      THEN e ELSE tag[c].l1[w]]
    OBVIOUS
  <2>3. f \in [Ways -> L1Entry]
    BY <1>0, <2>2 DEF Tags
  <2>4. PICK u : u = [tag[c] EXCEPT !.l1 = f, !.l2 = g]
    OBVIOUS
  <2>5. u \in Tags
    BY <1>0, <2>3, <2>4 DEF Tags
  <2>6. tag' = [tag EXCEPT ![c] = u] /\ Goto(c, "s_return1", FALSE) /\ inv' = inv
    BY <1>1, <1>3, <2>1, <2>2, <2>4 DEF Inv1Done
  <2>7. Moves(tag, tag', c, Tags)
    BY <2>5, <2>6, MovesTo DEF Regs, TagType
  <2>8. Moves(st, st', c, CCStates) /\ st'[c] \in {"s_return1", "s_bug"}
    BY <2>6, GotoMoves DEF Regs, CCStates
  <2>9. Fits(st'[c], mshr'[c], inv'[c], oldaddr'[c], tag'[c])
    BY <1>0, <2>8 DEF Fits
  <2> QED BY <1>0, <2>6, <2>7, <2>8, <2>9, KeepsRegs DEF ControllerMoves
<1> QED BY <1>2, <1>3 DEF s_inv1

LEMMA Inv26Moves ==
    ASSUME NEW c, Regs(c), NEW moves, s_inv2(c) \/ s_inv6(c, moves)
    PROVE  ControllerMoves(c)
<1> USE DEF MissStates, RefillStates, InvStates, CopyStates
<1>0. /\ mshr' = mshr /\ inv' = inv /\ inv[c].addr \in Lines /\ inv[c].way \in Ways
      /\ tag[c].l1[inv[c].way].addr \in Lines /\ (mshr[c].l2hit => HasL2)
  BY DEF s_inv2, s_inv6, InvKeep, Regs, Fits
<1>1. PICK a \in Lines : a = tag[c].l1[inv[c].way].addr
  BY <1>0
<1>2. CASE s_inv2(c)
  <2>1. WriteL1(c, {inv[c].way}, a, T_STATE_EXCLUSIVE)
    BY <1>1, <1>2 DEF s_inv2
  <2>2. Moves(tag, tag', c, Tags) /\ tag'[c].l1[inv[c].way] = MkEntry(a, T_STATE_EXCLUSIVE)
    <3>1. PICK s \in UnlockedStates : s = T_STATE_EXCLUSIVE
      BY StateFacts
    <3>2. PICK W : W = {inv[c].way}
      OBVIOUS
    <3>3. WriteL1(c, W, a, s)
      BY <2>1, <3>1, <3>2
    <3>4. /\ Moves(tag, tag', c, Tags)
          /\ \A w \in Ways : tag'[c].l1[w] = IF w \in W THEN MkEntry(a, s) ELSE tag[c].l1[w]
      BY <3>3, L1Write DEF Regs
    <3> QED BY <1>0, <3>1, <3>2, <3>4
  <2>3. tag'[c].l1[inv[c].way].addr \in Lines
    BY <2>2, MadeSlot, StateFacts
  <2>4. Moves(oldaddr, oldaddr', c, Lines \union {None}) /\ oldaddr'[c] = a
    <3>1. oldaddr' = [oldaddr EXCEPT ![c] = a]
      BY <1>1, <1>2 DEF s_inv2
    <3> QED BY <3>1, MovesTo DEF Regs, CtlType
  <2>5. PICK bug : Goto(c, "s_inv3", bug)
    BY <1>2 DEF s_inv2
  <2>6. Moves(st, st', c, CCStates) /\ st'[c] \in {"s_inv3", "s_bug"}
    BY <2>5, GotoMoves DEF Regs, CCStates
  <2>7. Fits(st'[c], mshr'[c], inv'[c], oldaddr'[c], tag'[c])
    BY <1>0, <2>3, <2>4, <2>6 DEF Fits
  <2> QED BY <1>0, <2>2, <2>4, <2>6, <2>7, KeepsRegs DEF ControllerMoves
<1>3. CASE s_inv6(c, moves) /\ run[c] = "off"
  <2>1. oldaddr' = oldaddr /\ Goto(c, "s_inv7", FALSE)
        /\ WriteL1(c, {inv[c].way}, a, InvFinalState(c))
    BY <1>1, <1>3 DEF s_inv6
  <2>2. Moves(tag, tag', c, Tags)
    BY <1>0, <2>1, InvFacts, L1Write DEF Regs
  <2>3. Moves(st, st', c, CCStates) /\ st'[c] \in {"s_inv7", "s_bug"}
    BY <2>1, GotoMoves DEF Regs, CCStates
  <2>4. Fits(st'[c], mshr'[c], inv'[c], oldaddr'[c], tag'[c])
    BY <1>0, <2>3 DEF Fits
  <2> QED BY <1>0, <2>1, <2>2, <2>3, <2>4, KeepsRegs DEF ControllerMoves
<1>4. CASE s_inv6(c, moves) /\ run[c] # "off"
  <2>1. UNCHANGED <<st, mshr, inv, tag, oldaddr>>
    BY <1>0, <1>4 DEF s_inv6
  <2> QED BY <2>1, Advances DEF Regs
<1> QED BY <1>2, <1>3, <1>4

(* One clock of the state machine, whatever its state. *)
LEMMA MachineMoves ==
    ASSUME NEW c, Regs(c), NEW dk, NEW ik, NEW m_halt, NEW moves,
           StateMachine(c, dk, ik, m_halt, moves)
    PROVE  ControllerMoves(c)
BY IdleMoves, Miss1Moves, Miss24Moves, Miss5Moves, LSnoop12Moves, LSnoop3Moves,
   InvDelayMoves, Inv1Moves, Inv26Moves, Return2Moves DEF StateMachine

(* The other registers a clock of the state machine may write. *)
RunStates == {"off", "on", "moved"}

LEMMA TransferMoved ==
    ASSUME NEW c, Regs(c), NEW moves \in BOOLEAN, TransferClock(c, moves)
    PROVE  Moves(run, run', c, RunStates) /\ Moves(bitmap, bitmap', c, BOOLEAN)
<1>1. PICK x \in RunStates : run' = [run EXCEPT ![c] = x]
  <2>1. run[c] \in RunStates
    BY DEF Regs, CtlType, RunStates
  <2> QED BY <2>1 DEF TransferClock, RunStates
<1>2. PICK b : b = (bitmap[c] \/ (moves /\ st[c] = "s_miss5"))
  OBVIOUS
<1>3. b \in BOOLEAN
  BY Zenon, <1>2
<1>4. bitmap' = [bitmap EXCEPT ![c] = b]
  BY <1>2 DEF TransferClock
<1>5. /\ c \in CPUs /\ run \in [CPUs -> RunStates] /\ bitmap \in [CPUs -> BOOLEAN]
  BY DEF Regs, CtlType, RunStates
<1>6. Moves(run, run', c, RunStates)
  BY <1>1, <1>5, MovesTo
<1>7. Moves(bitmap, bitmap', c, BOOLEAN)
  BY <1>3, <1>4, <1>5, MovesTo
<1> QED BY <1>6, <1>7

LEMMA MachineRuns ==
    ASSUME NEW c, Regs(c), NEW dk, NEW ik, NEW m_halt, NEW moves \in BOOLEAN,
           StateMachine(c, dk, ik, m_halt, moves)
    PROVE  Moves(run, run', c, RunStates) /\ Moves(bitmap, bitmap', c, BOOLEAN)
<1>0. /\ run' = run => Moves(run, run', c, RunStates)
      /\ bitmap' = bitmap => Moves(bitmap, bitmap', c, BOOLEAN)
  BY MovesSame DEF Regs, CtlType, RunStates
<1>1. \/ run' = run /\ bitmap' = bitmap
      \/ TransferClock(c, moves)
      \/ s_miss4(c, m_halt) \/ s_inv5(c) \/ s_return2(c)
  BY DEF StateMachine, s_idle, s_miss1, s_miss2, s_miss3, s_miss5, Miss5Done,
         s_lsnoop_promote1, s_lsnoop_promote2, s_lsnoop_promote3, s_lsnoop_miss1,
         s_lsnoop_miss2, s_lsnoop_miss3, LSnoopKeep, s_inv0, s_inv1, s_inv2, s_inv3,
         s_inv4, s_inv6, s_inv7, InvDelay, InvKeep, s_return1
<1>2. CASE s_miss4(c, m_halt) \/ s_inv5(c)
  <2>1. bitmap' = bitmap
    BY <1>2 DEF s_miss4, s_inv5, InvKeep
  <2>2. run[c] \in RunStates
    BY DEF Regs, CtlType, RunStates
  <2>3. PICK x \in RunStates : run' = [run EXCEPT ![c] = x]
    BY <1>2, <2>2 DEF s_miss4, s_inv5, RunStates
  <2>4. c \in CPUs /\ run \in [CPUs -> RunStates]
    BY DEF Regs, CtlType, RunStates
  <2> QED BY <1>0, <2>1, <2>3, <2>4, MovesTo
<1>3. CASE s_return2(c)
  <2>1. bitmap' = [bitmap EXCEPT ![c] = FALSE] /\ run' = run
    BY <1>3 DEF s_return2
  <2> QED BY <1>0, <2>1, MovesTo DEF Regs, CtlType
<1> QED BY <1>0, <1>1, <1>2, <1>3, TransferMoved

(* The bus request and the request wires keep their types. *)
LEMMA MachineDrives ==
    ASSUME NEW c, Regs(c), NEW dk, NEW ik, NEW m_halt, NEW moves,
           StateMachine(c, dk, ik, m_halt, moves)
    PROVE  breq' \in [Agents -> BOOLEAN] /\ drv' \in [Agents -> Request \union {None}]
<1>0. c \in Agents /\ breq \in [Agents -> BOOLEAN] /\ drv \in [Agents -> Request \union {None}]
  BY L1Assumption DEF Regs, BusTypeOK
<1>1. breq' \in [Agents -> BOOLEAN]
  <2>1. CASE s_idle(c, dk, ik)
    <3>1. PICK b : b = (breq[c] /\ Misses(c, dk, ik) # {})
      OBVIOUS
    <3>2. b \in BOOLEAN
      BY Zenon, <3>1
    <3>3. breq' = [breq EXCEPT ![c] = b]
      BY <2>1, <3>1 DEF s_idle
    <3> QED BY <1>0, <3>2, <3>3
  <2>2. CASE breq' = breq \/ breq' = [breq EXCEPT ![c] = TRUE] \/ breq' = [breq EXCEPT ![c] = FALSE]
    BY <1>0, <2>2
  <2>3. \/ s_idle(c, dk, ik)
        \/ breq' = breq \/ breq' = [breq EXCEPT ![c] = TRUE] \/ breq' = [breq EXCEPT ![c] = FALSE]
    BY DEF StateMachine, s_miss1, Miss1Cross, Miss1Promote, Miss1Unlock, Miss1Refill,
           s_miss2, s_miss3, s_miss4, s_miss5,
           s_lsnoop_promote1, s_lsnoop_promote2, s_lsnoop_promote3, s_lsnoop_miss1,
           s_lsnoop_miss2, s_lsnoop_miss3, LSnoopAbandon, LSnoopArbitrate, LSnoopRequest,
           s_inv0, s_inv1, s_inv2, s_inv3, s_inv4, s_inv5, s_inv6, s_inv7, InvDelay,
           InvKeep, s_return1, s_return2
  <2> QED BY <2>1, <2>2, <2>3
<1>2. drv' \in [Agents -> Request \union {None}]
  <2>1. CASE Release(c)
    BY <1>0, <2>1 DEF Release
  <2>2. ASSUME NEW excl \in BOOLEAN, mshr[c].addr \in Lines,
               drv' = [drv EXCEPT ![c] = [addr |-> mshr[c].addr, excl |-> excl]]
        PROVE  drv' \in [Agents -> Request \union {None}]
    <3>1. [addr |-> mshr[c].addr, excl |-> excl] \in Request
      BY <2>2 DEF Request
    <3> QED BY <1>0, <2>2, <3>1
  <2>3. \/ Release(c)
        \/ /\ st[c] \in {"s_lsnoop_promote1", "s_lsnoop_miss1"}
           /\ \E excl \in BOOLEAN :
                drv' = [drv EXCEPT ![c] = [addr |-> mshr[c].addr, excl |-> excl]]
    <3>1. PICK b \in BOOLEAN : b = (mshr[c].min >= T_STATE_EXCLUSIVE)
      <4>1. mshr[c].min >= T_STATE_EXCLUSIVE => (mshr[c].min >= T_STATE_EXCLUSIVE) = TRUE
        OBVIOUS
      <4>2. ~(mshr[c].min >= T_STATE_EXCLUSIVE) => (mshr[c].min >= T_STATE_EXCLUSIVE) = FALSE
        OBVIOUS
      <4> QED BY <4>1, <4>2
    <3>2. b \in BOOLEAN
      OBVIOUS
    <3>3. ASSUME s_lsnoop_miss1(c)
          PROVE  Release(c) \/ drv' = [drv EXCEPT ![c] = [addr |-> mshr[c].addr, excl |-> b]]
      BY <3>1, <3>3 DEF s_lsnoop_miss1, LSnoopAbandon, LSnoopArbitrate
    <3>4. ASSUME s_lsnoop_promote1(c)
          PROVE  Release(c) \/ drv' = [drv EXCEPT ![c] = [addr |-> mshr[c].addr, excl |-> TRUE]]
      BY <3>4 DEF s_lsnoop_promote1, LSnoopAbandon, LSnoopArbitrate
    <3>5. s_lsnoop_miss1(c) \/ s_lsnoop_promote1(c) \/ Release(c)
      BY DEF StateMachine, s_idle, s_miss1, s_miss2, s_miss3, s_miss4, s_miss5,
           s_lsnoop_promote2, s_lsnoop_promote3, s_lsnoop_miss2, s_lsnoop_miss3,
           LSnoopAbandon, LSnoopRequest,
           s_inv0, s_inv1, s_inv2, s_inv3, s_inv4, s_inv5, s_inv6, s_inv7, InvDelay,
           s_return1, s_return2
    <3> QED BY <3>2, <3>3, <3>4, <3>5 DEF s_lsnoop_miss1, s_lsnoop_promote1
  <2>4. st[c] \in {"s_lsnoop_promote1", "s_lsnoop_miss1"} => mshr[c].addr \in Lines
    BY DEF Regs, Fits, MissStates, RefillStates
  <2> QED BY <2>1, <2>2, <2>3, <2>4
<1> QED BY <1>1, <1>2

(* The data path: what moves is a block, what takes it is there. *)
LEMMA MemoryTypes ==
    ASSUME TypeInv, NEW c \in CPUs, NEW m_halt, NEW moves, Memory(c, m_halt, moves)
    PROVE  /\ mem' \in [Lines -> Val] /\ mdat' \in [CPUs -> Val \union {None}]
           /\ d2' \in [CPUs -> [L2Sets -> Val]]
           /\ fifo' \in [CPUs -> [addr : Lines, val : Val] \union {None}]
<1>0. Regs(c)
  BY TypedRegs
<1>1. /\ mem \in [Lines -> Val] /\ mdat \in [CPUs -> Val \union {None}]
      /\ d1 \in [CPUs -> [Ways -> Val]] /\ d2 \in [CPUs -> [L2Sets -> Val]]
      /\ fifo \in [CPUs -> [addr : Lines, val : Val] \union {None}]
  BY DEF TypeInv, DataType
<1>2. CASE fifo[c] # None /\ ~m_halt
  <2>1. fifo[c] \in [addr : Lines, val : Val]
    BY <1>1, <1>2
  <2>2. PICK l \in Lines, v \in Val : l = fifo[c].addr /\ v = fifo[c].val
    BY <2>1
  <2>3. /\ mem' = [mem EXCEPT ![l] = v] /\ fifo' = [fifo EXCEPT ![c] = None]
        /\ d2' = d2 /\ mdat' = mdat
    BY <1>2, <2>2 DEF Memory
  <2> QED BY <1>1, <2>3
<1>3. CASE ~(fifo[c] # None /\ ~m_halt)
  <2> DEFINE evict == Moving(c, moves) /\ st[c] = "s_miss5"
             flush == Moving(c, moves) /\ st[c] = "s_inv6"
             way == IF evict THEN mshr[c].way ELSE inv[c].way
  <2>1. Victim(c, moves) /\ mem' = mem
    BY <1>3 DEF Memory
  <2>2. mdat' \in [CPUs -> Val \union {None}]
    <3>1. MemRead(c) => mshr[c].addr \in Lines
      BY <1>0 DEF MemRead, Regs, Fits, RefillStates
    <3>2. PICK x \in Val \union {None} : mdat' = [mdat EXCEPT ![c] = x]
      BY <1>1, <1>3, <3>1 DEF Memory
    <3> QED BY <1>1, <3>2
  <2>3. evict => mshr[c].way \in Ways /\ (mshr[c].old # T_STATE_INVALID => oldaddr[c] \in Lines)
    BY <1>0 DEF Regs, Fits, RefillStates
  <2>4. flush => inv[c].way \in Ways /\ oldaddr[c] \in Lines
    BY <1>0 DEF Regs, Fits, CopyStates
  <2>5. PICK ev \in BOOLEAN : ev <=> evict
    OBVIOUS
  <2>6. PICK fl \in BOOLEAN : fl <=> flush
    OBVIOUS
  <2>7. PICK w : w = way
    OBVIOUS
  <2>8. /\ d2' = [d2 EXCEPT ![c] = [s \in L2Sets |->
                   IF ev /\ mshr[c].old # T_STATE_INVALID /\ s = L2Set[oldaddr[c]]
                   THEN d1[c][w] ELSE @[s]]]
        /\ fifo' = IF fl \/ (ev /\ mshr[c].old = T_STATE_MODIFIED)
                   THEN [fifo EXCEPT ![c] = [addr |-> oldaddr[c], val |-> d1[c][w]]]
                   ELSE fifo
    BY <2>1, <2>5, <2>6, <2>7 DEF Victim
  <2>9. /\ ev => w \in Ways /\ (mshr[c].old # T_STATE_INVALID => oldaddr[c] \in Lines)
        /\ fl /\ ~ev => w \in Ways /\ oldaddr[c] \in Lines
        /\ fl => ~ev
    BY <2>3, <2>4, <2>5, <2>6, <2>7
  <2>10. w \in Ways => d1[c][w] \in Val
    BY <1>1
  <2> HIDE DEF evict, flush, way
  <2>11. d2' \in [CPUs -> [L2Sets -> Val]]
    <3>1. PICK g : g = [s \in L2Sets |->
                   IF ev /\ mshr[c].old # T_STATE_INVALID /\ s = L2Set[oldaddr[c]]
                   THEN d1[c][w] ELSE d2[c][s]]
      OBVIOUS
    <3>2. g \in [L2Sets -> Val]
      BY <1>1, <2>9, <2>10, <3>1
    <3>3. d2' = [d2 EXCEPT ![c] = g]
      BY <2>8, <3>1
    <3> QED BY <1>1, <3>2, <3>3
  <2>12. fifo' \in [CPUs -> [addr : Lines, val : Val] \union {None}]
    <3>1. CASE fl \/ (ev /\ mshr[c].old = T_STATE_MODIFIED)
      <4>1. [addr |-> oldaddr[c], val |-> d1[c][w]] \in [addr : Lines, val : Val]
        BY <2>9, <2>10, <3>1, StateFacts
      <4> QED BY <1>1, <2>8, <3>1, <4>1
    <3>2. CASE ~(fl \/ (ev /\ mshr[c].old = T_STATE_MODIFIED))
      BY <1>1, <2>8, <3>2
    <3> QED BY <3>1, <3>2
  <2> QED BY <1>1, <2>1, <2>2, <2>11, <2>12
<1> QED BY <1>2, <1>3

LEMMA StoreTypes ==
    ASSUME TypeInv, NEW c \in CPUs, NEW dkill, NEW moves \in MoveChoices(c),
           NEW v \in IF Stores(c, dkill) THEN Val ELSE {None}, Store(c, dkill, moves, v)
    PROVE  d1' \in [CPUs -> [Ways -> Val]] /\ last' \in [Lines -> Val]
<1>0. Regs(c)
  BY TypedRegs
<1>1. /\ mem \in [Lines -> Val] /\ last \in [Lines -> Val]
      /\ mdat \in [CPUs -> Val \union {None}]
      /\ d1 \in [CPUs -> [Ways -> Val]] /\ d2 \in [CPUs -> [L2Sets -> Val]]
  BY DEF TypeInv, DataType
<1>2. PICK f \in [Ways -> Val] : f = Filled(c, moves)
  <2>1. CASE Moving(c, moves) /\ st[c] = "s_miss5"
    <3>1. mshr[c].addr \in Lines /\ (mshr[c].l2hit => HasL2)
      BY <1>0, <2>1 DEF Regs, Fits, RefillStates
    <3>2. mshr[c].l2hit => d2[c][L2Set[mshr[c].addr]] \in Val
      BY <1>1, <3>1, L1Assumption DEF HasL2
    <3>3. ~mshr[c].l2hit => mdat[c] \in Val
      BY <1>1, <2>1 DEF MoveChoices, Moving
    <3>4. PICK x \in Val : x = IF mshr[c].l2hit THEN d2[c][L2Set[mshr[c].addr]] ELSE mdat[c]
      BY <3>2, <3>3
    <3>5. Filled(c, moves) = [d1[c] EXCEPT ![mshr[c].way] = x]
      BY <2>1, <3>4 DEF Filled
    <3> QED BY <1>1, <3>4, <3>5
  <2>2. CASE ~(Moving(c, moves) /\ st[c] = "s_miss5")
    BY <1>1, <2>2 DEF Filled
  <2> QED BY <2>1, <2>2
<1>3. CASE Stores(c, dkill)
  <2>1. dreq[c].addr \in Lines /\ v \in Val
    BY <1>0, <1>3 DEF Stores, Regs, PortType, PortReq
  <2>2. PICK g : g = [w \in Ways |-> IF w \in HitWays(c, DWays, dreq[c]) THEN v ELSE f[w]]
    OBVIOUS
  <2>3. g \in [Ways -> Val]
    BY <2>1, <2>2
  <2>4. d1' = [d1 EXCEPT ![c] = g] /\ last' = [last EXCEPT ![dreq[c].addr] = v]
    BY <1>2, <1>3, <2>2 DEF Store
  <2> QED BY <1>1, <2>1, <2>3, <2>4
<1>4. CASE ~Stores(c, dkill)
  <2>1. d1' = [d1 EXCEPT ![c] = f]
    BY <1>2, <1>4 DEF Store
  <2>2. Discards(c) => inv[c].addr \in Lines
    BY <1>0 DEF Discards, Regs, Fits, InvStates
  <2>3. last' = IF Discards(c) THEN [last EXCEPT ![inv[c].addr] = mem[inv[c].addr]] ELSE last
    BY <1>4 DEF Store
  <2> QED BY <1>1, <2>1, <2>2, <2>3
<1> QED BY <1>3, <1>4

(* The ports, the link and the pipelines of a processor. *)
LinkReg == [v : BOOLEAN, addr : Lines \union {None}, wait : BOOLEAN, lost : BOOLEAN]

LEMMA PortTypes ==
    ASSUME TypeInv, NEW c \in CPUs, NEW dkill, NEW ikill, NEW finished,
           DIssue(c) \/ DAccess(c, dkill) \/ DCacheOp(c, finished),
           IIssue(c) \/ IAccess(c, ikill)
    PROVE  dreq' \in [CPUs -> PortReq \union {None}] /\ ireq' \in [CPUs -> PortReq \union {None}]
<1>0. dreq \in [CPUs -> PortReq \union {None}] /\ ireq \in [CPUs -> PortReq \union {None}]
  BY DEF TypeInv, PortType
<1>1. dreq' \in [CPUs -> PortReq \union {None}]
  <2>1. CASE DIssue(c)
    <3>1. \A op \in DOps, l \in Lines : Port(op, l) \in PortReq
      BY L1Assumption DEF Port, PortReq
    <3> QED BY <1>0, <2>1, <3>1 DEF DIssue
  <2>2. CASE DAccess(c, dkill)
    <3>1. PICK x \in PortReq \union {None} : dreq' = [dreq EXCEPT ![c] = x]
      BY <1>0, <2>2 DEF DAccess
    <3> QED BY <1>0, <3>1
  <2>3. CASE DCacheOp(c, finished)
    <3>1. PICK x \in PortReq \union {None} : dreq' = [dreq EXCEPT ![c] = x]
      BY <1>0, <2>3 DEF DCacheOp
    <3> QED BY <1>0, <3>1
  <2> QED BY <2>1, <2>2, <2>3
<1>2. ireq' \in [CPUs -> PortReq \union {None}]
  <2>1. CASE IIssue(c)
    <3>1. \A l \in Lines : Port("rd", l) \in PortReq
      BY DEF Port, PortReq, ReadWriteOps
    <3> QED BY <1>0, <2>1, <3>1 DEF IIssue
  <2>2. CASE IAccess(c, ikill)
    <3>1. PICK x \in PortReq \union {None} : ireq' = [ireq EXCEPT ![c] = x]
      BY <1>0, <2>2 DEF IAccess
    <3> QED BY <1>0, <3>1
  <2> QED BY <2>1, <2>2
<1> QED BY <1>1, <1>2

LEMMA MarkedLink ==
    ASSUME TypeInv, NEW a, NEW l
    PROVE  MarkLost(a, l) \in [CPUs -> LinkReg]
<1>1. link \in [CPUs -> LinkReg]
  BY DEF TypeInv, PortType, LinkReg
<1>2. \A k \in CPUs : [link[k] EXCEPT !.lost = TRUE] \in LinkReg
  BY <1>1 DEF LinkReg
<1> QED BY <1>1, <1>2 DEF MarkLost

LEMMA LinkTypes ==
    ASSUME TypeInv, NEW c \in CPUs, NEW kill, LinkClock(c, kill)
    PROVE  link' \in [CPUs -> LinkReg]
<1>1. link \in [CPUs -> LinkReg] /\ dreq[c] \in PortReq \union {None}
  BY DEF TypeInv, PortType, LinkReg
<1>2. PICK o : o = IF Stores(c, kill) THEN MarkLost(c, dreq[c].addr) ELSE link
  OBVIOUS
<1>3. o \in [CPUs -> LinkReg]
  BY <1>1, <1>2, MarkedLink
<1>4. PICK x : x = LinkNext(c, kill)
  OBVIOUS
<1>5. x \in LinkReg
  <2>1. NoLink \in LinkReg
    BY DEF NoLink, LinkReg
  <2>2. link[c] \in LinkReg
    BY <1>1
  <2>3. dreq[c] # None => Linked(c) \in LinkReg
    <3>1. PICK b \in BOOLEAN : b = DMiss(c)
      BY Zenon DEF DMiss
    <3> QED BY <1>1, <3>1 DEF Linked, PortReq, LinkReg
  <2> QED BY <1>4, <2>1, <2>2, <2>3 DEF LinkNext
<1>6. link' = [o EXCEPT ![c] = x]
  BY <1>2, <1>4 DEF LinkClock
<1> QED BY <1>3, <1>5, <1>6

LEMMA SnoopTypes ==
    ASSUME TypeInv, NEW a \in Agents, SnoopPipe(a)
    PROVE  snp' \in [Agents -> Request \union {None}]
<1>1. snp \in [Agents -> Request \union {None}] /\ bus.r \in Request \union {None}
  BY DEF TypeInv, BusTypeOK, Wires
<1>2. PICK x \in Request \union {None} : snp' = [snp EXCEPT ![a] = x]
  BY <1>1 DEF SnoopPipe
<1> QED BY <1>1, <1>2

(* The clock edge of a processor. *)
LEMMA CPUTypes ==
    ASSUME TypeInv, NEW c \in CPUs, CPUClock(c)
    PROVE  TypeInv'
<1>1. PICK m_halt \in HaltChoices(c), moves \in MoveChoices(c) : CPUClockWith(c, m_halt, moves)
  BY DEF CPUClock
<1>2. /\ turn = c /\ CPUEdge(c, m_halt, moves) /\ turn' = turn + 1
      /\ UNCHANGED <<bus, arbitVars, dmaVars>>
  BY <1>1 DEF CPUClockWith
<1>4. PICK dkill, ikill, v :
        /\ v \in IF Stores(c, dkill) THEN Val ELSE {None}
        /\ StateMachine(c, dkill, ikill, m_halt, moves)
        /\ \/ DIssue(c)
           \/ DAccess(c, dkill)
           \/ DCacheOp(c, st[c] = "s_return2" /\ inv[c].expl)
        /\ IIssue(c) \/ IAccess(c, ikill)
        /\ LinkClock(c, dkill)
        /\ TagPipe(c)
        /\ SnoopPipe(c)
        /\ Memory(c, m_halt, moves)
        /\ Store(c, dkill, moves, v)
  BY <1>2 DEF CPUEdge
<1>5. c \in Agents /\ Regs(c) /\ moves \in BOOLEAN
  BY TypedRegs, L1Assumption DEF MoveChoices
<1>6. ControllerMoves(c)
  BY <1>4, <1>5, MachineMoves
<1>7. /\ st \in [CPUs -> CCStates] /\ mshr \in [CPUs -> Mshr] /\ inv \in [CPUs -> InvReg]
      /\ oldaddr \in [CPUs -> Lines \union {None}] /\ tag \in [CPUs -> Tags]
      /\ run \in [CPUs -> RunStates] /\ bitmap \in [CPUs -> BOOLEAN]
  BY DEF TypeInv, CtlType, TagType, RunStates
<1>8. st' \in [CPUs -> CCStates] /\ (\A k \in CPUs : k # c => st'[k] = st[k])
  BY <1>6, <1>7 DEF ControllerMoves, Moves
<1>9. mshr' \in [CPUs -> Mshr] /\ (\A k \in CPUs : k # c => mshr'[k] = mshr[k])
  BY <1>6, <1>7 DEF ControllerMoves, Moves
<1>10. inv' \in [CPUs -> InvReg] /\ (\A k \in CPUs : k # c => inv'[k] = inv[k])
  BY <1>6, <1>7 DEF ControllerMoves, Moves
<1>11. oldaddr' \in [CPUs -> Lines \union {None}]
       /\ (\A k \in CPUs : k # c => oldaddr'[k] = oldaddr[k])
  BY <1>6, <1>7 DEF ControllerMoves, Moves
<1>12. tag' \in [CPUs -> Tags] /\ (\A k \in CPUs : k # c => tag'[k] = tag[k])
  BY <1>6, <1>7 DEF ControllerMoves, Moves
<1>13. ControllerInv'
  <2> SUFFICES ASSUME NEW k \in CPUs
               PROVE  Fits(st'[k], mshr'[k], inv'[k], oldaddr'[k], tag'[k])
    BY DEF ControllerInv
  <2>1. CASE k = c
    BY <1>6, <2>1 DEF ControllerMoves
  <2>2. CASE k # c
    BY <1>8, <1>9, <1>10, <1>11, <1>12, <2>2 DEF TypeInv, ControllerInv
  <2> QED BY <2>1, <2>2
<1>14. run' \in [CPUs -> RunStates] /\ bitmap' \in [CPUs -> BOOLEAN]
  <2>1. Moves(run, run', c, RunStates) /\ Moves(bitmap, bitmap', c, BOOLEAN)
    BY <1>4, <1>5, MachineRuns
  <2> QED BY <1>7, <2>1 DEF Moves
<1>15. rtag' \in [CPUs -> Tags] /\ xtag' \in [CPUs -> Tags]
  BY <1>4, <1>7 DEF TagPipe, TypeInv, TagType
<1>16. dreq' \in [CPUs -> PortReq \union {None}] /\ ireq' \in [CPUs -> PortReq \union {None}]
  BY <1>4, PortTypes
<1>17. link' \in [CPUs -> LinkReg]
  BY <1>4, LinkTypes
<1>18. /\ mem' \in [Lines -> Val] /\ mdat' \in [CPUs -> Val \union {None}]
       /\ d2' \in [CPUs -> [L2Sets -> Val]]
       /\ fifo' \in [CPUs -> [addr : Lines, val : Val] \union {None}]
  BY <1>4, MemoryTypes
<1>19. d1' \in [CPUs -> [Ways -> Val]] /\ last' \in [Lines -> Val]
  BY <1>4, StoreTypes
<1>20. BusTypeOK'
  <2>1. turn' \in 0 .. NAGENTS
    BY <1>2, <1>5, ArbitAssumption DEF Agents
  <2>2. breq' \in [Agents -> BOOLEAN] /\ drv' \in [Agents -> Request \union {None}]
    BY <1>4, <1>5, MachineDrives
  <2>3. snp' \in [Agents -> Request \union {None}]
    BY <1>4, <1>5, SnoopTypes
  <2> QED BY <1>2, <2>1, <2>2, <2>3 DEF TypeInv, BusTypeOK
<1>21. ArbitTypeOK' /\ DMATypeOK' /\ BridgeInv'
  BY <1>2 DEF TypeInv, arbitVars, dmaVars, ArbitTypeOK, DMATypeOK, BridgeInv, l_attn, DMAMinState
<1> QED
  BY <1>8, <1>9, <1>10, <1>11, <1>12, <1>13, <1>14, <1>15, <1>16, <1>17, <1>18, <1>19, <1>20, <1>21
     DEF TypeInv, TagType, PortType, CtlType, DataType, LinkReg, RunStates

(* The clock edge of a bridge. *)
BridgeStep(d, m_halt) ==
    \/ DMAIdle(d) \/ DMALsnoop1(d) \/ DMALsnoop2(d) \/ DMALsnoop3(d)
    \/ DMARsnoop1(d, m_halt) \/ DMAReturn1(d)

Access == [wr : BOOLEAN, addr : Lines]

LEMMA BridgeTypes ==
    ASSUME TypeInv, NEW d \in DMAs, NEW m_halt, BridgeStep(d, m_halt)
    PROVE  /\ dst' \in [DMAs -> DMAStates] /\ l_state' \in [DMAs -> UnlockedStates]
           /\ l_addr' \in [DMAs -> Lines \union {None}]
           /\ raddr' \in [DMAs -> Lines \union {None}]
           /\ breq' \in [Agents -> BOOLEAN] /\ drv' \in [Agents -> Request \union {None}]
<1>0. /\ d \in Agents /\ dst \in [DMAs -> DMAStates] /\ l_state \in [DMAs -> UnlockedStates]
      /\ l_addr \in [DMAs -> Lines \union {None}] /\ raddr \in [DMAs -> Lines \union {None}]
      /\ sreq \in [DMAs -> Access \union {None}]
      /\ breq \in [Agents -> BOOLEAN] /\ drv \in [Agents -> Request \union {None}]
  BY DMAAssumption DEF TypeInv, DMATypeOK, BusTypeOK, Access
<1>1. dst' \in [DMAs -> DMAStates]
  <2>1. PICK n \in DMAStates : dst' = dst \/ DMAGoto(d, n)
    BY DEF BridgeStep, DMAIdle, DMALsnoop1, DMALsnoop2, DMALsnoop3, DMARsnoop1, DMAReturn1,
           DMASnooped, DMAStates
  <2> QED BY <1>0, <2>1 DEF DMAGoto
<1>2. l_state' \in [DMAs -> UnlockedStates]
  <2>1. PICK s \in UnlockedStates : l_state' = l_state \/ l_state' = [l_state EXCEPT ![d] = s]
    <3>1. l_state[d] \in UnlockedStates
      BY <1>0
    <3> QED BY <3>1, StateFacts
            DEF BridgeStep, DMAIdle, DMALsnoop1, DMALsnoop2, DMALsnoop3, DMARsnoop1, DMAReturn1
  <2> QED BY <1>0, <2>1
<1>3. l_addr' \in [DMAs -> Lines \union {None}]
  <2>1. l_addr' = l_addr \/ l_addr' = [l_addr EXCEPT ![d] = raddr[d]]
    BY DEF BridgeStep, DMAIdle, DMALsnoop1, DMALsnoop2, DMALsnoop3, DMARsnoop1, DMAReturn1
  <2> QED BY <1>0, <2>1
<1>4. dst[d] = "s_lsnoop1" => sreq[d] \in Access
  BY <1>0 DEF TypeInv, BridgeInv, l_attn
<1>5. raddr' \in [DMAs -> Lines \union {None}]
  <2>1. \/ raddr' = raddr \/ raddr' = [raddr EXCEPT ![d] = None]
        \/ dst[d] = "s_lsnoop1" /\ raddr' = [raddr EXCEPT ![d] = sreq[d].addr]
    BY DEF BridgeStep, DMAIdle, DMALsnoop1, DMALsnoop2, DMALsnoop3, DMARsnoop1, DMAReturn1
  <2> QED BY <1>0, <1>4, <2>1 DEF Access
<1>6. breq' \in [Agents -> BOOLEAN]
  <2>1. PICK b \in BOOLEAN : breq' = breq \/ breq' = [breq EXCEPT ![d] = b]
    <3>1. PICK b \in BOOLEAN : b = l_attn(d)
      <4>1. l_attn(d) \in BOOLEAN
        BY Zenon DEF l_attn
      <4> QED BY <4>1
    <3>2. \/ breq' = breq \/ breq' = [breq EXCEPT ![d] = FALSE]
          \/ breq' = [breq EXCEPT ![d] = b]
      BY <3>1 DEF BridgeStep, DMAIdle, DMALsnoop1, DMALsnoop2, DMALsnoop3, DMARsnoop1,
                  DMAReturn1, DMASnooped
    <3> QED BY <3>2
  <2> QED BY <1>0, <2>1
<1>7. drv' \in [Agents -> Request \union {None}]
  <2>1. PICK b \in BOOLEAN : b = (DMAMinState(d) >= T_STATE_EXCLUSIVE)
    <3>1. DMAMinState(d) >= T_STATE_EXCLUSIVE =>
            (DMAMinState(d) >= T_STATE_EXCLUSIVE) = TRUE
      OBVIOUS
    <3>2. ~(DMAMinState(d) >= T_STATE_EXCLUSIVE) =>
            (DMAMinState(d) >= T_STATE_EXCLUSIVE) = FALSE
      OBVIOUS
    <3> QED BY <3>1, <3>2
  <2>2. \/ drv' = [drv EXCEPT ![d] = None]
        \/ /\ dst[d] = "s_lsnoop1"
           /\ drv' = [drv EXCEPT ![d] = [addr |-> sreq[d].addr, excl |-> b]]
    BY <2>1 DEF BridgeStep, DMAIdle, DMALsnoop1, DMALsnoop2, DMALsnoop3, DMARsnoop1,
                DMAReturn1, DMARelease
  <2>3. dst[d] = "s_lsnoop1" => [addr |-> sreq[d].addr, excl |-> b] \in Request
    BY <1>4 DEF Access, Request
  <2> QED BY <1>0, <2>2, <2>3
<1> QED BY <1>1, <1>2, <1>3, <1>5, <1>6, <1>7

LEMMA AccessTypes ==
    ASSUME TypeInv, NEW d \in DMAs, NEW m_halt,
           NEW v \in IF sreq[d] # None /\ sreq[d].wr THEN Val ELSE {None}, DMAAccess(d, m_halt, v)
    PROVE  /\ sreq' \in [DMAs -> Access \union {None}]
           /\ \A k \in DMAs : k # d \/ l_attn(d) => sreq'[k] = sreq[k]
           /\ mem' \in [Lines -> Val] /\ last' \in [Lines -> Val] /\ link' \in [CPUs -> LinkReg]
<1>0. /\ sreq \in [DMAs -> Access \union {None}] /\ mem \in [Lines -> Val]
      /\ last \in [Lines -> Val] /\ link \in [CPUs -> LinkReg]
  BY DEF TypeInv, DMATypeOK, DataType, PortType, Access, LinkReg
<1>1. CASE Taken(d, m_halt)
  <2>1. sreq' = [sreq EXCEPT ![d] = None] /\ ~l_attn(d)
    BY <1>1 DEF DMAAccess, Taken
  <2>2. CASE sreq[d].wr
    <3>1. v \in Val /\ sreq[d].addr \in Lines
      BY <1>0, <1>1, <2>2 DEF Taken, Access
    <3>2. /\ mem' = [mem EXCEPT ![sreq[d].addr] = v] /\ last' = [last EXCEPT ![sreq[d].addr] = v]
          /\ link' = MarkLost(d, sreq[d].addr)
      BY <1>1, <2>2 DEF DMAAccess
    <3> QED BY <1>0, <2>1, <3>1, <3>2, MarkedLink
  <2>3. CASE ~sreq[d].wr
    <3>1. mem' = mem /\ last' = last /\ link' = link
      BY <1>1, <2>3 DEF DMAAccess
    <3> QED BY <1>0, <2>1, <3>1
  <2> QED BY <2>2, <2>3
<1>2. CASE ~Taken(d, m_halt)
  <2>1. mem' = mem /\ last' = last /\ link' = link
    BY <1>2 DEF DMAAccess
  <2>2. \/ sreq' = sreq
        \/ /\ sreq[d] = None
           /\ \E w \in BOOLEAN, l \in Lines : sreq' = [sreq EXCEPT ![d] = [wr |-> w, addr |-> l]]
    BY <1>2 DEF DMAAccess
  <2>3. CASE sreq' = sreq
    BY <1>0, <2>1, <2>3
  <2>4. ASSUME sreq[d] = None, NEW x \in Access, sreq' = [sreq EXCEPT ![d] = x]
        PROVE  /\ sreq' \in [DMAs -> Access \union {None}]
               /\ \A k \in DMAs : k # d \/ l_attn(d) => sreq'[k] = sreq[k]
    BY <1>0, <2>4 DEF l_attn
  <2>5. \A w \in BOOLEAN, l \in Lines : [wr |-> w, addr |-> l] \in Access
    BY DEF Access
  <2> QED BY <1>0, <2>1, <2>2, <2>3, <2>4, <2>5
<1> QED BY <1>1, <1>2

LEMMA BridgeKeepsAsking ==
    ASSUME TypeInv, NEW d \in DMAs, NEW m_halt, NEW v, BridgeStep(d, m_halt),
           \A k \in DMAs : k # d \/ l_attn(d) => sreq'[k] = sreq[k]
    PROVE  BridgeInv'
<1>0. /\ dst \in [DMAs -> DMAStates] /\ l_state \in [DMAs -> UnlockedStates]
      /\ l_addr \in [DMAs -> Lines \union {None}]
  BY DEF TypeInv, DMATypeOK
<1> SUFFICES ASSUME NEW k \in DMAs, dst'[k] = "s_lsnoop1" PROVE l_attn(k)'
  BY DEF BridgeInv
<1>1. CASE k # d
  <2>1. dst'[k] = dst[k]
    BY <1>0, <1>1 DEF BridgeStep, DMAIdle, DMALsnoop1, DMALsnoop2, DMALsnoop3, DMARsnoop1,
                      DMAReturn1, DMASnooped, DMAGoto
  <2>2. l_state'[k] = l_state[k] /\ l_addr'[k] = l_addr[k]
    BY <1>0, <1>1 DEF BridgeStep, DMAIdle, DMALsnoop1, DMALsnoop2, DMALsnoop3, DMARsnoop1,
                      DMAReturn1
  <2>3. l_attn(k)
    BY <2>1 DEF TypeInv, BridgeInv
  <2> QED BY <1>1, <2>2, <2>3 DEF l_attn, DMAMinState
<1>2. CASE k = d
  <2>1. l_attn(d) /\ l_state' = l_state /\ l_addr' = l_addr
    <3>1. (dst[d] = "s_idle" /\ l_attn(d)) \/ dst[d] = "s_lsnoop1"
      BY <1>0, <1>2 DEF BridgeStep, DMAIdle, DMALsnoop1, DMALsnoop2, DMALsnoop3, DMARsnoop1,
                        DMAReturn1, DMASnooped, DMAGoto
    <3>2. l_state' = l_state /\ l_addr' = l_addr
      BY <3>1 DEF BridgeStep, DMAIdle, DMALsnoop1, DMALsnoop2, DMALsnoop3, DMARsnoop1,
                  DMAReturn1
    <3> QED BY <3>1, <3>2 DEF TypeInv, BridgeInv
  <2> QED BY <1>2, <2>1 DEF l_attn, DMAMinState
<1> QED BY <1>1, <1>2

LEMMA BridgeClockTypes ==
    ASSUME TypeInv, NEW d \in DMAs, DMAClock(d)
    PROVE  TypeInv'
<1>1. PICK m_halt \in BOOLEAN, m_valid \in BOOLEAN : DMAClockWith(d, m_halt, m_valid)
  BY DEF DMAClock
<1>2. /\ turn = d /\ turn' = turn + 1 /\ DMAEdge(d, m_halt, m_valid)
      /\ UNCHANGED <<bus, arbitVars, ctlVars, d1, d2, fifo, mdat,
                     tag, rtag, xtag, dreq, ireq, mshr, bitmap>>
  BY <1>1 DEF DMAClockWith
<1>3. PICK v \in IF sreq[d] # None /\ sreq[d].wr THEN Val ELSE {None} :
        BridgeStep(d, m_halt) /\ DMAAccess(d, m_halt, v) /\ SnoopPipe(d)
  BY <1>2 DEF DMAEdge, BridgeStep
<1>4. d \in Agents
  BY DMAAssumption
<1>5. /\ dst' \in [DMAs -> DMAStates] /\ l_state' \in [DMAs -> UnlockedStates]
      /\ l_addr' \in [DMAs -> Lines \union {None}]
      /\ raddr' \in [DMAs -> Lines \union {None}]
      /\ breq' \in [Agents -> BOOLEAN] /\ drv' \in [Agents -> Request \union {None}]
  BY <1>3, BridgeTypes
<1>6. /\ sreq' \in [DMAs -> Access \union {None}]
      /\ \A k \in DMAs : k # d \/ l_attn(d) => sreq'[k] = sreq[k]
      /\ mem' \in [Lines -> Val] /\ last' \in [Lines -> Val] /\ link' \in [CPUs -> LinkReg]
  BY <1>3, AccessTypes
<1>7. BridgeInv'
  BY <1>3, <1>6, BridgeKeepsAsking
<1>8. read_count' \in [DMAs -> 0 .. MAX_READS]
  <2>1. ReadsInv
    BY DEF TypeInv, DMATypeOK, ReadsInv
  <2> QED BY <1>1, <2>1, BridgeKeepsReadsInv DEF ReadsInv
<1>9. snp' \in [Agents -> Request \union {None}]
  BY <1>3, <1>4, SnoopTypes
<1>10. turn' \in 0 .. NAGENTS
  BY <1>2, <1>4, ArbitAssumption DEF Agents
<1>11. BusTypeOK' /\ DMATypeOK'
  BY <1>2, <1>5, <1>6, <1>8, <1>9, <1>10 DEF TypeInv, BusTypeOK, DMATypeOK, Access
<1>12. ArbitTypeOK' /\ TagType' /\ CtlType' /\ ControllerInv'
  BY <1>2 DEF TypeInv, arbitVars, ctlVars, ArbitTypeOK, TagType, CtlType, ControllerInv
<1>13. PortType' /\ DataType'
  BY <1>2, <1>6 DEF TypeInv, PortType, DataType, LinkReg
<1> QED BY <1>7, <1>11, <1>12, <1>13 DEF TypeInv

(* The wires between the agents. *)
LEMMA WiresType ==
    ArbitTypeOK /\ drv \in [Agents -> Request \union {None}] => BusWires \in Wires
<1> SUFFICES ASSUME ArbitTypeOK, drv \in [Agents -> Request \union {None}]
             PROVE  BusWires \in Wires
  OBVIOUS
<1>1. RequestWire \in Request \union {None}
  BY DEF RequestWire, Drivers
<1>2. Gnt(Requesters) \in Agents \union {None}
  BY DEF Gnt, ArbitTypeOK
<1>3. /\ ((\E c \in CPUs : CCWait(c)) \/ (\E d \in DMAs : DMAWait(d))) \in BOOLEAN
      /\ (\E a \in Agents : Active(a)) \in BOOLEAN
      /\ ((\E c \in CPUs : CCShare(c)) \/ (\E d \in DMAs : DMAShare(d))) \in BOOLEAN
      /\ ((\E c \in CPUs : CCExcl(c)) \/ (\E d \in DMAs : DMAExcl(d))) \in BOOLEAN
  BY Zenon
<1>4. PICK w \in BOOLEAN, k \in BOOLEAN, s \in BOOLEAN, e \in BOOLEAN :
        BusWires = [wait |-> w, ack |-> k, share |-> s, excl |-> e,
                    r |-> RequestWire, gnt |-> Gnt(Requesters)]
  BY Zenon, <1>3 DEF BusWires
<1> QED BY <1>1, <1>2, <1>4 DEF Wires

LEMMA SettleTypes ==
    ASSUME TypeInv, Settle
    PROVE  TypeInv'
<1>1. /\ ArbitClock(bus.wait, bus.gnt) /\ UNCHANGED <<busVars, ccVars, dmaVars>>
      /\ bus' = BusWires' /\ turn' = 0
  BY DEF Settle
<1>2. ArbitTypeOK'
  <2>1. /\ rotor \in 0 .. RotorMod - 1 /\ rotvec \in Agents
        /\ bus.wait \in BOOLEAN /\ bus.gnt \in Agents \union {None}
    BY DEF TypeInv, ArbitTypeOK, BusTypeOK, Wires
  <2>2. (rotor + 1) % RotorMod \in 0 .. RotorMod - 1
    BY <2>1, ArbitAssumption
  <2>3. (rotvec + 1) % NAGENTS \in Agents
    BY <2>1, ArbitAssumption DEF Agents
  <2>4. rotor' \in 0 .. RotorMod - 1 /\ rotvec' \in Agents
    BY <1>1, <2>1, <2>2, <2>3 DEF ArbitClock
  <2>5. gnt_reg' \in Agents \union {None} /\ use_gnt_reg' \in BOOLEAN
    BY <1>1, <2>1 DEF ArbitClock
  <2> QED BY <2>4, <2>5 DEF ArbitTypeOK
<1>3. drv' \in [Agents -> Request \union {None}] /\ breq' \in [Agents -> BOOLEAN]
      /\ snp' \in [Agents -> Request \union {None}]
  BY <1>1 DEF busVars, TypeInv, BusTypeOK
<1>4. bus' \in Wires
  <2>1. (ArbitTypeOK /\ drv \in [Agents -> Request \union {None}] => BusWires \in Wires)'
    BY WiresType, PTL
  <2> QED BY <1>1, <1>2, <1>3, <2>1
<1>5. turn' \in 0 .. NAGENTS
  BY <1>1, ArbitAssumption
<1>6. BusTypeOK'
  BY <1>3, <1>4, <1>5 DEF BusTypeOK
<1>7. DMATypeOK' /\ BridgeInv'
  BY <1>1 DEF TypeInv, dmaVars, DMATypeOK, BridgeInv, l_attn, DMAMinState
<1>8. TagType' /\ PortType' /\ CtlType' /\ DataType' /\ ControllerInv'
  BY <1>1 DEF TypeInv, ccVars, l1Vars, ctlVars, dataVars, TagType, PortType, CtlType,
              DataType, ControllerInv
<1> QED BY <1>2, <1>6, <1>7, <1>8 DEF TypeInv

LEMMA StartTypes == Init => TypeInv
<1> SUFFICES ASSUME Init PROVE TypeInv
  OBVIOUS
<1>1. ArbitTypeOK
  <2>1. rotor = 0 /\ rotvec = 0 /\ gnt_reg = None /\ use_gnt_reg = FALSE
    BY DEF Init, ArbitInit
  <2>2. 0 \in 0 .. RotorMod - 1 /\ 0 \in Agents
    BY ArbitAssumption DEF Agents
  <2> QED BY <2>1, <2>2 DEF ArbitTypeOK
<1>2. BusTypeOK
  <2>1. breq \in [Agents -> BOOLEAN] /\ drv \in [Agents -> Request \union {None}]
        /\ snp \in [Agents -> Request \union {None}]
    BY DEF Init, BusInit
  <2>2. turn \in 0 .. NAGENTS
    BY ArbitAssumption DEF Init, BusInit
  <2>3. bus \in Wires
    BY <1>1, <2>1, WiresType DEF Init
  <2> QED BY <2>1, <2>2, <2>3 DEF BusTypeOK
<1>3. DMATypeOK /\ BridgeInv
  BY StateFacts, DMAAssumption DEF Init, DMAInit, DMATypeOK, BridgeInv, DMAStates
<1>4. EmptyTags \in Tags
  BY EmptySlot DEF EmptyTags, Tags, L2Slot
<1>5. TagType
  BY <1>4 DEF Init, L1Init, TagType
<1>6. PortType
  BY DEF Init, L1Init, PortType, NoLink
<1>7. CtlType
  BY NoMshrType, NoInvType DEF Init, L1Init, CCInit, CtlType, CCStates
<1>8. DataType
  BY DEF Init, CCInit, DataType
<1>9. ControllerInv
  <2> SUFFICES ASSUME NEW c \in CPUs PROVE Fits(st[c], mshr[c], inv[c], oldaddr[c], tag[c])
    BY DEF ControllerInv
  <2>1. st[c] = "s_idle" /\ mshr[c] = NoMshr
    BY DEF Init, L1Init, CCInit
  <2> QED BY <2>1, NoMshrType DEF Fits, MissStates, RefillStates, InvStates, CopyStates
<1> QED BY <1>1, <1>2, <1>3, <1>5, <1>6, <1>7, <1>8, <1>9 DEF TypeInv

(* Every register and wire of the multiprocessor keeps to its type: for any *)
(* number of processors and bridges, any geometry of the caches and any lines *)
(* no state of z48cc.vhd or ccdma.vhd uses a miss register, an invalidation *)
(* or a victim address that was not set for it. *)
THEOREM SMPTypeSafety == Spec => []TypeOK
<1>1. TypeInv /\ [Next]_vars => TypeInv'
  <2> SUFFICES ASSUME TypeInv, [Next]_vars PROVE TypeInv'
    OBVIOUS
  <2>1. CASE UNCHANGED vars
    BY <2>1 DEF vars, arbitVars, busVars, ccVars, l1Vars, ctlVars, dataVars, dmaVars,
                TypeInv, ArbitTypeOK, BusTypeOK, DMATypeOK, TagType, PortType, CtlType,
                DataType, ControllerInv, BridgeInv, l_attn, DMAMinState
  <2> QED BY <2>1, CPUTypes, BridgeClockTypes, SettleTypes DEF Next
<1> QED BY <1>1, StartTypes, TypeInvSuffices, PTL DEF Spec

-----------------------------------------------------------------------------
(* Coherence.  An entry, a set of tags and a miss register that the bus has *)
(* answered hold line l in state n or a higher one. *)
Held(e, l, n) == e.addr = l /\ cache_state_unlock(e.st) >= n

Has(t, l, n) ==
    \/ \E w \in Ways : Held(t.l1[w], l, n)
    \/ HasL2 /\ Held(t.l2[L2Set[l]], l, n)

Won(m, l, n) == m.valid /\ m.snooped /\ m.addr = l /\ m.ins >= n

(* What the snoop port of processor c answers for. *)
Sees(c, l, n) == Has(xtag[c], l, n) \/ Won(mshr[c], l, n)

Levels == {T_STATE_SHARED, T_STATE_EXCLUSIVE}

(* What the tags t hold, the earlier tags r or the miss register hold too. *)
Covered(t, r, m) ==
    \A l \in Lines, n \in Levels : Has(t, l, n) => Has(r, l, n) \/ Won(m, l, n)

PromoteStates == {"s_lsnoop_promote1", "s_lsnoop_promote2", "s_lsnoop_promote3"}
AskStates == {"s_lsnoop_miss1", "s_lsnoop_miss2", "s_lsnoop_miss3"}
FillStates == {"s_miss2", "s_miss3", "s_miss4", "s_miss5"}

(* Strict exclusion; a line is in the L2 set it maps to, and never dirty. *)
OneCopy(t) ==
    /\ \A l \in Lines, w, y \in Ways :
         Held(t.l1[w], l, T_STATE_SHARED) /\ Held(t.l1[y], l, T_STATE_SHARED) => w = y
    /\ \A l \in Lines, w \in Ways, q \in L2Sets :
         ~(Held(t.l1[w], l, T_STATE_SHARED) /\ Held(t.l2[q], l, T_STATE_SHARED))
    /\ \A l \in Lines, q \in L2Sets :
         /\ Held(t.l2[q], l, T_STATE_SHARED) => q = L2Set[l]
         /\ ~Held(t.l2[q], l, T_STATE_MODIFIED)

(* When the other ports see the tags the controller sees. *)
InPipe(s, t, r, x) ==
    /\ s \in MissStates \union {"s_idle"} => r = t /\ x = t
    /\ s = "s_return2" => r = t

(* The miss register in the states of a miss. *)
MissReg(s, m) ==
    /\ s = "s_idle" => ~m.valid
    /\ s \in MissStates \union AskStates =>
         /\ m.valid /\ ~m.snooped /\ m.ins = m.min
         /\ m.min \in {T_STATE_SHARED, T_STATE_MODIFIED}
    /\ s \in FillStates => m.valid /\ m.snooped
    /\ m.valid /\ m.snooped => m.ins # T_STATE_INVALID
    /\ s \in InvStates => ~(m.valid /\ m.snooped)

(* The way a miss was sent to, o the address of its victim. *)
MissWay(s, m, o, t) ==
    LET e == t.l1[m.way] IN
    /\ s = "s_miss1" =>
         /\ m.cur # T_STATE_INVALID => e.addr = m.addr /\ cache_state_unlock(e.st) = m.cur
         /\ m.cur >= m.min => cache_state_test_locked(e.st)
         /\ m.cur = T_STATE_INVALID => ~Held(e, m.addr, T_STATE_SHARED)
    /\ s \in PromoteStates =>
         /\ e.addr = m.addr /\ cache_state_unlock(e.st) = T_STATE_SHARED
         /\ m.min = T_STATE_MODIFIED
    /\ s \in RefillStates =>
         /\ ~Has(t, m.addr, T_STATE_SHARED)
         /\ cache_state_unlock(e.st) = m.old
         /\ m.old # T_STATE_INVALID => e.addr = o

(* The way a writeback copies. *)
CopyWay(s, i, t) ==
    /\ s = "s_inv2" => cache_state_unlock(t.l1[i.way].st) = T_STATE_MODIFIED
    /\ s \in CopyStates => cache_state_unlock(t.l1[i.way].st) = T_STATE_EXCLUSIVE

LocalInv(c) ==
    /\ OneCopy(tag[c])
    /\ InPipe(st[c], tag[c], rtag[c], xtag[c])
    /\ MissReg(st[c], mshr[c])
    /\ MissWay(st[c], mshr[c], oldaddr[c], tag[c])
    /\ CopyWay(st[c], inv[c], tag[c])
    /\ st[c] \notin {"s_miss5", "s_inv6"} => run[c] = "off"
    /\ bitmap[c] => mshr[c].valid /\ mshr[c].snooped
    /\ Covered(tag[c], rtag[c], mshr[c])
    /\ Covered(rtag[c], xtag[c], mshr[c])
    /\ st[c] # "s_bug"

-----------------------------------------------------------------------------
(* Entries. *)
LEMMA StateNumbers ==
    /\ T_STATE_INVALID = 0 /\ T_STATE_SHARED = 1 /\ T_STATE_EXCLUSIVE = 2
    /\ T_STATE_MODIFIED = 3 /\ T_STATE_LOCKED = 4
BY DEF T_STATE_INVALID, T_STATE_SHARED, T_STATE_EXCLUSIVE, T_STATE_MODIFIED, T_STATE_LOCKED

LEMMA HoldsHeld ==
    ASSUME NEW e \in L1Entry, NEW l
    PROVE  Holds(e, l) <=> Held(e, l, T_STATE_SHARED)
BY StateFacts, StateNumbers DEF Holds, Held, L1Entry, Entry, UnlockedStates

LEMMA MadeHeld ==
    ASSUME NEW l, NEW s \in UnlockedStates, NEW k \in Lines, NEW n \in 1..3
    PROVE  Held(MkEntry(l, s), k, n) <=> l = k /\ s >= n
<1>1. CASE s = T_STATE_INVALID
  <2>1. MkEntry(l, s) = EmptyEntry /\ EmptyEntry.addr = None
    BY <1>1 DEF MkEntry, EmptyEntry
  <2> QED BY <1>1, <2>1, LinesAssumption, StateNumbers DEF Held
<1>2. CASE s # T_STATE_INVALID
  <2>1. MkEntry(l, s).addr = l /\ MkEntry(l, s).st = s
    BY <1>2 DEF MkEntry
  <2> QED BY <2>1, StateFacts DEF Held
<1> QED BY <1>1, <1>2

LEMMA LockedHeld ==
    ASSUME NEW e \in L1Entry, NEW l, NEW n
    PROVE  Held(Locked(e), l, n) <=> Held(e, l, n)
<1>1. Locked(e).addr = e.addr /\ Locked(e).st = cache_state_lock(e.st)
  BY DEF Locked, L1Entry, Entry
<1> QED BY <1>1, StateFacts DEF Held, L1Entry, Entry

LEMMA EmptyHeld ==
    ASSUME NEW l, NEW n \in 1..3
    PROVE  ~Held(EmptyEntry, l, n)
BY StateFacts, StateNumbers DEF Held, EmptyEntry

LEMMA HeldLower ==
    ASSUME NEW e \in L1Entry, NEW l, NEW n \in 1..3, NEW k \in 1..3, k <= n, Held(e, l, n)
    PROVE  Held(e, l, k)
BY StateFacts DEF Held, L1Entry, Entry, UnlockedStates

-----------------------------------------------------------------------------
(* Writes of the tags. *)

(* Every entry of u is the entry of t, or a lower one; EXCLUSIVE may become *)
(* MODIFIED in L1. *)
Lowers(u, t) ==
    /\ \A w \in Ways, l \in Lines, n \in Levels : Held(u.l1[w], l, n) => Held(t.l1[w], l, n)
    /\ \A q \in L2Sets, l \in Lines, n \in 1..3 : Held(u.l2[q], l, n) => Held(t.l2[q], l, n)

LEMMA SetOfLine ==
    ASSUME HasL2, NEW l \in Lines
    PROVE  L2Set[l] \in L2Sets
BY L1Assumption DEF HasL2

LEMMA LevelNumbers == Levels \subseteq 1..3 /\ T_STATE_SHARED \in Levels
                      /\ T_STATE_EXCLUSIVE \in Levels /\ T_STATE_MODIFIED \in 1..3
BY StateNumbers DEF Levels

LEMMA LowerTags ==
    ASSUME NEW t, NEW u, Lowers(u, t), OneCopy(t)
    PROVE  OneCopy(u) /\ \A m : Covered(u, t, m)
<1>1. OneCopy(u)
  BY LevelNumbers DEF Lowers, OneCopy
<1>2. ASSUME NEW l \in Lines, NEW n \in Levels, Has(u, l, n) PROVE Has(t, l, n)
  BY <1>2, LevelNumbers, SetOfLine DEF Lowers, Has
<1> QED BY <1>1, <1>2 DEF Covered

(* A refill: the new line in its way, the victim in L2. *)
LEMMA FilledTags ==
    ASSUME NEW t \in Tags, NEW u, OneCopy(t), NEW way \in Ways, NEW l \in Lines,
           NEW ins \in UnlockedStates, ins # T_STATE_INVALID,
           NEW old \in UnlockedStates, NEW vs \in UnlockedStates, NEW o,
           old # T_STATE_INVALID => o \in Lines /\ t.l1[way].addr = o,
           vs = IF old = T_STATE_MODIFIED THEN T_STATE_EXCLUSIVE ELSE old,
           ~Has(t, l, T_STATE_SHARED), cache_state_unlock(t.l1[way].st) = old,
           \A w \in Ways : u.l1[w] = IF w = way THEN MkEntry(l, ins) ELSE t.l1[w],
           \A q \in L2Sets : u.l2[q] = IF old # T_STATE_INVALID /\ q = L2Set[o]
                                       THEN MkEntry(o, vs) ELSE t.l2[q]
    PROVE  /\ OneCopy(u)
           /\ \A k \in Lines, n \in Levels : Has(u, k, n) => Has(t, k, n) \/ (k = l /\ ins >= n)
<1> USE StateNumbers, LevelNumbers
<1>0. 1 \in 1..3 /\ 2 \in 1..3 /\ 3 \in 1..3 /\ 1 \in Levels /\ 2 \in Levels
  BY DEF Levels
<1>1. \A k \in Lines, n \in 1..3 : Held(u.l1[way], k, n) <=> k = l /\ ins >= n
  BY MadeHeld
<1>2. \A w \in Ways, k \in Lines, n \in 1..3 : w # way => (Held(u.l1[w], k, n) <=> Held(t.l1[w], k, n))
  OBVIOUS
<1>3. old # T_STATE_INVALID => Held(t.l1[way], o, 1)
  BY DEF Held, UnlockedStates
<1>4. ASSUME NEW q \in L2Sets, NEW k \in Lines, NEW n \in 1..3, Held(u.l2[q], k, n)
      PROVE  \/ Held(t.l2[q], k, n)
             \/ /\ old # T_STATE_INVALID /\ k = o /\ q = L2Set[o] /\ n <= 2
                /\ Held(t.l1[way], k, n)
  <2>1. CASE old # T_STATE_INVALID /\ q = L2Set[o]
    <3>1. o = k /\ vs >= n
      BY <1>4, <2>1, MadeHeld
    <3> QED BY <2>1, <3>1 DEF Held, UnlockedStates
  <2>2. CASE ~(old # T_STATE_INVALID /\ q = L2Set[o])
    BY <1>4, <2>2
  <2> QED BY <2>1, <2>2
<1>5. \A w \in Ways : ~Held(t.l1[w], l, 1)
  BY DEF Has
<1>6. \A q \in L2Sets : ~Held(t.l2[q], l, 1)
  <2>1. ASSUME NEW q \in L2Sets, Held(t.l2[q], l, 1) PROVE FALSE
    <3>1. q = L2Set[l] /\ HasL2
      BY <2>1 DEF OneCopy, HasL2
    <3> QED BY <2>1, <3>1 DEF Has
  <2> QED BY <2>1
<1>7. old # T_STATE_INVALID => o # l
  BY <1>3, <1>5
<1>8. OneCopy(u)
  <2>1. ASSUME NEW k \in Lines, NEW w \in Ways, NEW y \in Ways,
               Held(u.l1[w], k, 1), Held(u.l1[y], k, 1)
        PROVE  w = y
    BY <1>0, <1>1, <1>2, <1>5, <2>1 DEF OneCopy
  <2>2. ASSUME NEW k \in Lines, NEW w \in Ways, NEW q \in L2Sets,
               Held(u.l1[w], k, 1), Held(u.l2[q], k, 1)
        PROVE  FALSE
    <3>1. Held(t.l2[q], k, 1) \/ (old # T_STATE_INVALID /\ k = o /\ Held(t.l1[way], k, 1))
      BY <1>0, <1>4, <2>2
    <3>2. w = way => k = l
      BY <1>0, <1>1, <2>2
    <3>3. w # way => Held(t.l1[w], k, 1)
      BY <1>0, <1>2, <2>2
    <3> QED BY <1>5, <1>6, <1>7, <3>1, <3>2, <3>3 DEF OneCopy
  <2>3. ASSUME NEW k \in Lines, NEW q \in L2Sets
        PROVE  (Held(u.l2[q], k, 1) => q = L2Set[k]) /\ ~Held(u.l2[q], k, 3)
    BY <1>0, <1>4 DEF OneCopy
  <2> QED BY <2>1, <2>2, <2>3 DEF OneCopy
<1>9. ASSUME NEW k \in Lines, NEW n \in Levels, Has(u, k, n)
      PROVE  Has(t, k, n) \/ (k = l /\ ins >= n)
  <2>0. n \in 1..3
    OBVIOUS
  <2>1. CASE \E w \in Ways : Held(u.l1[w], k, n)
    BY <1>1, <1>2, <2>0, <2>1 DEF Has
  <2>2. CASE HasL2 /\ Held(u.l2[L2Set[k]], k, n)
    <3>1. L2Set[k] \in L2Sets
      BY <2>2, SetOfLine
    <3> QED BY <1>4, <2>0, <2>2, <3>1 DEF Has
  <2> QED BY <1>9, <2>1, <2>2 DEF Has
<1> QED BY <1>8, <1>9

(* A write in place: the way holds the line already. *)
LEMMA PromotedTags ==
    ASSUME NEW t \in Tags, NEW u, OneCopy(t), NEW way \in Ways, NEW l \in Lines,
           NEW ins \in UnlockedStates, Held(t.l1[way], l, T_STATE_SHARED),
           \A w \in Ways : u.l1[w] = IF w = way THEN MkEntry(l, ins) ELSE t.l1[w],
           u.l2 = t.l2
    PROVE  /\ OneCopy(u)
           /\ \A k \in Lines, n \in Levels : Has(u, k, n) => Has(t, k, n) \/ (k = l /\ ins >= n)
<1> USE StateNumbers, LevelNumbers
<1>0. 1 \in 1..3 /\ 3 \in 1..3
  OBVIOUS
<1>1. \A k \in Lines, n \in 1..3 : Held(u.l1[way], k, n) <=> k = l /\ ins >= n
  BY MadeHeld
<1>2. \A w \in Ways, k \in Lines, n \in 1..3 : w # way => (Held(u.l1[w], k, n) <=> Held(t.l1[w], k, n))
  OBVIOUS
<1>3. \A w \in Ways, k \in Lines : Held(u.l1[w], k, 1) => Held(t.l1[w], k, 1)
  BY <1>0, <1>1, <1>2
<1>4. OneCopy(u)
  BY <1>3 DEF OneCopy
<1>5. ASSUME NEW k \in Lines, NEW n \in Levels, Has(u, k, n)
      PROVE  Has(t, k, n) \/ (k = l /\ ins >= n)
  BY <1>1, <1>2, <1>5 DEF Has
<1> QED BY <1>4, <1>5

-----------------------------------------------------------------------------
(* One clock of a controller.  The other ports see its tag writes one and *)
(* two clocks later, and what its snoop port answers for grows only when the *)
(* bus has answered the controller's own request. *)
Answered(c) == st[c] \in {"s_lsnoop_promote3", "s_lsnoop_miss3"}

Wins(c, l, n) ==
    /\ Answered(c) /\ ~bus.wait /\ l = mshr[c].addr
    /\ n = T_STATE_EXCLUSIVE => mshr[c].min >= T_STATE_EXCLUSIVE \/ ~bus.share

Piped(c) == rtag'[c] = tag[c] /\ xtag'[c] = rtag[c]

Gains(c) ==
    \A l \in Lines, n \in Levels : Sees(c, l, n)' => Sees(c, l, n) \/ Wins(c, l, n)

LEMMA PipeStep ==
    ASSUME NEW c, LocalInv(c), Piped(c), OneCopy(tag'[c]), Covered(tag'[c], tag[c], mshr'[c]),
           \/ \A l \in Lines, n \in Levels : Won(mshr[c], l, n) => Won(mshr'[c], l, n)
           \/ rtag[c] = tag[c],
           \A l \in Lines, n \in Levels :
               Won(mshr'[c], l, n) => Sees(c, l, n) \/ Wins(c, l, n)
    PROVE  /\ OneCopy(tag'[c])
           /\ Covered(tag'[c], rtag'[c], mshr'[c])
           /\ Covered(rtag'[c], xtag'[c], mshr'[c])
           /\ Gains(c)
<1>1. Covered(tag[c], rtag[c], mshr[c]) /\ Covered(rtag[c], xtag[c], mshr[c])
  BY DEF LocalInv
<1>2. Covered(tag'[c], rtag'[c], mshr'[c])
  BY DEF Piped
<1>3. Covered(tag[c], rtag[c], mshr'[c])
  BY <1>1 DEF Covered
<1>4. Covered(rtag'[c], xtag'[c], mshr'[c])
  BY <1>3 DEF Piped
<1>5. Gains(c)
  <2> SUFFICES ASSUME NEW l \in Lines, NEW n \in Levels, Sees(c, l, n)'
               PROVE  Sees(c, l, n) \/ Wins(c, l, n)
    BY DEF Gains
  <2>1. Has(rtag[c], l, n) \/ Won(mshr'[c], l, n)
    BY DEF Sees, Piped
  <2>2. Has(rtag[c], l, n) => Sees(c, l, n)
    BY <1>1 DEF Covered, Sees
  <2> QED BY <2>1, <2>2
<1> QED BY <1>2, <1>4, <1>5

(* The states that follow each other without a write of tags or registers. *)
Follows(s, n) ==
    \/ s \in PromoteStates /\ n \in PromoteStates
    \/ s \in AskStates /\ n \in AskStates
    \/ s \in FillStates /\ n \in FillStates
    \/ s \in CopyStates /\ n \in CopyStates
    \/ s \in {"s_inv0", "s_inv7"} /\ n = "s_inv1"
    \/ s = "s_return1" /\ n = "s_return2"
    \/ s = "s_idle" /\ n = "s_idle"

LEMMA SameTags ==
    ASSUME NEW c, LocalInv(c), Piped(c), tag'[c] = tag[c],
           \A l \in Lines, n \in Levels : Won(mshr'[c], l, n) <=> Won(mshr[c], l, n)
    PROVE  /\ OneCopy(tag'[c])
           /\ Covered(tag'[c], rtag'[c], mshr'[c])
           /\ Covered(rtag'[c], xtag'[c], mshr'[c])
           /\ Gains(c)
<1>1. OneCopy(tag'[c]) /\ Covered(tag'[c], tag[c], mshr'[c])
  BY DEF LocalInv, Covered
<1> QED BY <1>1, PipeStep DEF Sees

LEMMA AdvanceSound ==
    ASSUME NEW c, LocalInv(c), Piped(c), tag'[c] = tag[c], mshr'[c] = mshr[c],
           inv'[c] = inv[c], oldaddr'[c] = oldaddr[c] \/ st'[c] = "s_idle",
           Follows(st[c], st'[c]),
           st'[c] \notin {"s_miss5", "s_inv6"} => run'[c] = "off",
           bitmap'[c] => mshr[c].valid /\ mshr[c].snooped
    PROVE  LocalInv(c)' /\ Gains(c)
<1> USE DEF PromoteStates, AskStates, FillStates, CopyStates, MissStates, RefillStates, InvStates
<1>1. /\ OneCopy(tag'[c])
      /\ Covered(tag'[c], rtag'[c], mshr'[c])
      /\ Covered(rtag'[c], xtag'[c], mshr'[c])
      /\ Gains(c)
  BY SameTags
<1>2. PICK s, n, m, o, p, i, t, r, x :
        /\ s = st[c] /\ n = st'[c] /\ m = mshr[c] /\ o = oldaddr[c] /\ p = oldaddr'[c]
        /\ i = inv[c] /\ t = tag[c] /\ r = rtag[c] /\ x = xtag[c]
  OBVIOUS
<1>3. /\ InPipe(s, t, r, x) /\ MissReg(s, m) /\ MissWay(s, m, o, t) /\ CopyWay(s, i, t)
      /\ Follows(s, n) /\ (o = p \/ n = "s_idle")
  BY <1>2 DEF LocalInv
<1>4. InPipe(n, t, t, r)
  BY <1>3 DEF InPipe, Follows
<1>5. MissReg(n, m)
  BY <1>3 DEF MissReg, Follows
<1>6. MissWay(n, m, p, t)
  <2>1. CASE n \in PromoteStates
    BY <1>3, <2>1 DEF MissWay, Follows
  <2>2. CASE n \in RefillStates
    BY <1>3, <2>2 DEF MissWay, Follows
  <2>3. CASE n \notin PromoteStates \union RefillStates
    BY <1>3, <2>3 DEF MissWay, Follows
  <2> QED BY <2>1, <2>2, <2>3
<1>7. CopyWay(n, i, t)
  BY <1>3 DEF CopyWay, Follows
<1>8. n # "s_bug"
  BY <1>3 DEF Follows
<1> QED BY <1>1, <1>2, <1>4, <1>5, <1>6, <1>7, <1>8 DEF LocalInv, Piped

LEMMA GoesTo ==
    ASSUME NEW c, Regs(c), NEW next, NEW bug, Goto(c, next, bug)
    PROVE  /\ ~bug => st'[c] = next
           /\ bug => st'[c] = "s_bug"
BY DEF Goto, Regs, CtlType

(* The states of a refill after the answer of the bus, and those of a *)
(* writeback, that only count clocks or wait. *)
LEMMA DelaySound ==
    ASSUME NEW c, Regs(c), LocalInv(c), Piped(c), NEW m_halt,
           \/ s_miss2(c) \/ s_miss3(c) \/ s_miss4(c, m_halt)
           \/ s_inv0(c) \/ s_inv3(c) \/ s_inv4(c) \/ s_inv5(c) \/ s_inv7(c) \/ s_return1(c)
    PROVE  LocalInv(c)' /\ Gains(c)
<1>1. UNCHANGED <<mshr, inv, tag, oldaddr, bitmap>>
  BY DEF s_miss2, s_miss3, s_miss4, s_inv0, s_inv3, s_inv4, s_inv5, s_inv7, s_return1,
         InvDelay, InvKeep
<1>2. \/ st[c] \in {"s_miss2", "s_miss3"} /\ st'[c] \in {"s_miss3", "s_miss4"} /\ run' = run
      \/ st[c] = "s_miss4" /\ st'[c] = "s_miss4" /\ run'[c] = run[c]
      \/ st[c] = "s_miss4" /\ st'[c] = "s_miss5"
      \/ st[c] \in {"s_inv0", "s_inv7"} /\ st'[c] = "s_inv1" /\ run' = run
      \/ st[c] = "s_inv3" /\ st'[c] = "s_inv4" /\ run' = run
      \/ st[c] = "s_inv4" /\ st'[c] = "s_inv5" /\ run' = run
      \/ st[c] = "s_inv5" /\ st'[c] = "s_inv5" /\ run'[c] = run[c]
      \/ st[c] = "s_inv5" /\ st'[c] = "s_inv6"
      \/ st[c] = "s_return1" /\ st'[c] = "s_return2" /\ run' = run
  BY GoesTo DEF s_miss2, s_miss3, s_miss4, s_inv0, s_inv3, s_inv4, s_inv5, s_inv7, s_return1,
         InvDelay, InvKeep, Regs, CtlType
<1>3. Follows(st[c], st'[c])
  BY <1>2 DEF Follows, PromoteStates, AskStates, FillStates, CopyStates
<1>4. st[c] \notin {"s_miss5", "s_inv6"} => run[c] = "off"
  BY DEF LocalInv
<1>5. bitmap[c] => mshr[c].valid /\ mshr[c].snooped
  BY DEF LocalInv
<1>6. st'[c] \notin {"s_miss5", "s_inv6"} => run'[c] = "off"
  BY <1>2, <1>4
<1> QED BY <1>1, <1>3, <1>5, <1>6, AdvanceSound

(* A snoop that needs attention abandons the miss. *)
LEMMA AbandonSound ==
    ASSUME NEW c, Regs(c), LocalInv(c), Piped(c), handle_s_attn(c), tag' = tag,
           run' = run, bitmap' = bitmap,
           st[c] \in {"s_idle"} \union MissStates \union AskStates
    PROVE  LocalInv(c)' /\ Gains(c)
<1> USE DEF PromoteStates, AskStates, FillStates, CopyStates, MissStates, RefillStates, InvStates
<1>1. st'[c] = "s_inv0" /\ mshr'[c] = NoMshr
  BY GoesTo DEF handle_s_attn, Regs, CtlType
<1>2. ~NoMshr.valid /\ ~NoMshr.snooped
  BY DEF NoMshr
<1>3. ~(mshr[c].valid /\ mshr[c].snooped)
  BY DEF LocalInv, MissReg
<1>4. \A l \in Lines, n \in Levels : ~Won(mshr'[c], l, n) /\ ~Won(mshr[c], l, n)
  BY <1>1, <1>2, <1>3 DEF Won
<1>5. /\ OneCopy(tag'[c])
      /\ Covered(tag'[c], rtag'[c], mshr'[c])
      /\ Covered(rtag'[c], xtag'[c], mshr'[c])
      /\ Gains(c)
  BY <1>4, SameTags
<1>6. InPipe("s_inv0", tag'[c], rtag'[c], xtag'[c])
  BY DEF InPipe
<1>7. MissReg("s_inv0", NoMshr)
  BY <1>2 DEF MissReg
<1>8. MissWay("s_inv0", NoMshr, oldaddr'[c], tag'[c]) /\ CopyWay("s_inv0", inv'[c], tag'[c])
  BY DEF MissWay, CopyWay
<1>9. ~bitmap'[c] /\ run'[c] = "off"
  BY <1>3 DEF LocalInv
<1> QED BY <1>1, <1>5, <1>6, <1>7, <1>8, <1>9 DEF LocalInv

(* Asking the bus. *)
LEMMA AskSound ==
    ASSUME NEW c, Regs(c), LocalInv(c), Piped(c),
           \/ s_lsnoop_promote1(c) \/ s_lsnoop_promote2(c)
           \/ s_lsnoop_miss1(c) \/ s_lsnoop_miss2(c)
    PROVE  LocalInv(c)' /\ Gains(c)
<1>0. tag' = tag /\ oldaddr' = oldaddr /\ run' = run /\ bitmap' = bitmap
  BY DEF s_lsnoop_promote1, s_lsnoop_promote2, s_lsnoop_miss1, s_lsnoop_miss2, LSnoopKeep
<1>s. st[c] \in {"s_lsnoop_promote1", "s_lsnoop_promote2", "s_lsnoop_miss1", "s_lsnoop_miss2"}
  BY DEF s_lsnoop_promote1, s_lsnoop_promote2, s_lsnoop_miss1, s_lsnoop_miss2
<1>1. CASE LSnoopAbandon(c)
  <2>1. st[c] \in {"s_idle"} \union MissStates \union AskStates
    BY <1>s DEF MissStates, AskStates
  <2> QED BY <1>0, <1>1, <2>1, AbandonSound DEF LSnoopAbandon
<1>2. CASE ~LSnoopAbandon(c)
  <2>1. /\ mshr' = mshr /\ inv' = inv
        /\ \/ st[c] \in PromoteStates /\ st'[c] \in PromoteStates
           \/ st[c] \in AskStates /\ st'[c] \in AskStates
    BY <1>2, <1>s, GoesTo DEF s_lsnoop_promote1, s_lsnoop_promote2, s_lsnoop_miss1, s_lsnoop_miss2,
       LSnoopArbitrate, LSnoopRequest, PromoteStates, AskStates
  <2>2. Follows(st[c], st'[c])
    BY <2>1 DEF Follows
  <2>3. run'[c] = "off" /\ (bitmap'[c] => mshr[c].valid /\ mshr[c].snooped)
    BY <1>0, <1>s DEF LocalInv
  <2> QED BY <1>0, <2>1, <2>2, <2>3, AdvanceSound
<1> QED BY <1>1, <1>2

(* The end of an operation: the tags have reached the RAM. *)
LEMMA ReturnSound ==
    ASSUME NEW c, Regs(c), LocalInv(c), Piped(c), s_return2(c)
    PROVE  LocalInv(c)' /\ Gains(c)
<1> USE DEF PromoteStates, AskStates, FillStates, CopyStates, MissStates, RefillStates, InvStates
<1>1. st[c] = "s_return2" /\ st'[c] = "s_idle" /\ mshr'[c] = NoMshr /\ tag' = tag /\ run' = run
      /\ ~bitmap'[c]
  BY GoesTo DEF s_return2, Regs, CtlType
<1>2. rtag[c] = tag[c] /\ run[c] = "off"
  BY <1>1 DEF LocalInv, InPipe
<1>3. ~NoMshr.valid /\ ~NoMshr.snooped
  BY DEF NoMshr
<1>4. \A l \in Lines, n \in Levels : ~Won(mshr'[c], l, n)
  BY <1>1, <1>3 DEF Won
<1>5. OneCopy(tag'[c]) /\ Covered(tag'[c], tag[c], mshr'[c])
  BY <1>1 DEF LocalInv, Covered
<1>6. /\ Covered(tag'[c], rtag'[c], mshr'[c])
      /\ Covered(rtag'[c], xtag'[c], mshr'[c])
      /\ Gains(c)
  BY <1>2, <1>4, <1>5, PipeStep
<1>7. InPipe("s_idle", tag'[c], rtag'[c], xtag'[c])
  BY <1>1, <1>2 DEF InPipe, Piped
<1>8. MissReg("s_idle", NoMshr)
  BY <1>3 DEF MissReg
<1>9. MissWay("s_idle", NoMshr, oldaddr'[c], tag'[c]) /\ CopyWay("s_idle", inv'[c], tag'[c])
  BY DEF MissWay, CopyWay
<1> QED BY <1>1, <1>2, <1>5, <1>6, <1>7, <1>8, <1>9 DEF LocalInv

-----------------------------------------------------------------------------
(* A miss as the glue selects it: request q of the port with the given ways. *)
Selected(c, q, ways) ==
    \/ DMiss(c) /\ q = dreq[c] /\ ways = DWays
    \/ IMiss(c) /\ q = ireq[c] /\ ways = IWays

Started(c, q, ways) ==
    /\ Selected(c, q, ways)
    /\ mshr'[c].valid /\ ~mshr'[c].snooped /\ ~mshr'[c].l2hit
    /\ mshr'[c].addr = q.addr /\ mshr'[c].min = MinState(q.op)
    /\ mshr'[c].ins = MinState(q.op) /\ mshr'[c].cur = CurState(c, ways, q.addr)
    /\ mshr'[c].way \in MissWays(c, ways, q.addr)

LEMMA MissStarted ==
    ASSUME NEW c, Regs(c), NEW dk, NEW ik, IdleMiss(c, dk, ik)
    PROVE  \E q \in PortReq, ways \in SUBSET Ways : Started(c, q, ways)
<1> USE DEF Started
<1>2. PICK x, w :
        /\ x \in Misses(c, dk, ik) /\ w \in MissWays(c, x.ways, x.req.addr)
        /\ mshr' = [mshr EXCEPT ![c] = [NoMshr EXCEPT
           !.valid = TRUE, !.share = x.share, !.addr = x.req.addr,
           !.cur = CurState(c, x.ways, x.req.addr),
           !.min = MinState(x.req.op), !.ins = MinState(x.req.op), !.way = w]]
  BY DEF IdleMiss
<1>3. Selected(c, x.req, x.ways)
  BY <1>2 DEF Misses, Selected
<1>4. x.req \in PortReq /\ x.ways \in SUBSET Ways
  BY <1>3 DEF Selected, DMiss, IMiss, Regs, PortType, Ways
<1>5. PICK l, n, u, h : l = x.req.addr /\ n = MinState(x.req.op)
                        /\ u = CurState(c, x.ways, x.req.addr) /\ h = x.share
  OBVIOUS
<1>6. PICK m : m = [NoMshr EXCEPT !.valid = TRUE, !.share = h, !.addr = l,
                        !.cur = u, !.min = n, !.ins = n, !.way = w]
  OBVIOUS
<1>7. mshr' = [mshr EXCEPT ![c] = m]
  BY <1>2, <1>5, <1>6
<1>8. mshr'[c] = m
  BY <1>7 DEF Regs, CtlType
<1>9. /\ m.valid /\ ~m.snooped /\ ~m.l2hit /\ m.addr = l /\ m.min = n /\ m.ins = n
      /\ m.cur = u /\ m.way = w
  BY <1>6 DEF NoMshr
<1> QED BY <1>2, <1>3, <1>4, <1>5, <1>8, <1>9

LEMMA MinStates ==
    \A op : MinState(op) \in {T_STATE_SHARED, T_STATE_MODIFIED}
BY DEF MinState

LEMMA IdleSound ==
    ASSUME NEW c, Regs(c), LocalInv(c), Piped(c), NEW dk, NEW ik,
           s_idle(c, dk, ik)
    PROVE  LocalInv(c)' /\ Gains(c)
<1> USE DEF PromoteStates, AskStates, FillStates, CopyStates, MissStates, RefillStates, InvStates
<1>0. /\ st[c] = "s_idle" /\ tag' = tag /\ run' = run /\ bitmap' = bitmap
  BY DEF s_idle
<1>1. /\ run[c] = "off" /\ ~mshr[c].valid /\ ~bitmap[c]
      /\ rtag[c] = tag[c] /\ xtag[c] = tag[c] /\ OneCopy(tag[c]) /\ tag[c] \in Tags
  BY <1>0 DEF LocalInv, MissReg, InPipe, Regs
<1>2. CASE IdleSnoop(c)
  BY <1>0, <1>2, AbandonSound DEF IdleSnoop
<1>3. CASE IdleStay(c, dk, ik)
  <2>1. UNCHANGED <<st, mshr, inv>> /\ st'[c] = "s_idle"
    BY <1>0, <1>3 DEF IdleStay
  <2>2. Follows(st[c], st'[c])
    BY <1>0, <2>1 DEF Follows
  <2> QED BY <1>0, <1>1, <2>1, <2>2, AdvanceSound
<1>4. ASSUME ~(mshr'[c].valid /\ mshr'[c].snooped)
      PROVE  /\ OneCopy(tag'[c])
             /\ Covered(tag'[c], rtag'[c], mshr'[c])
             /\ Covered(rtag'[c], xtag'[c], mshr'[c])
             /\ Gains(c)
  <2>1. \A l \in Lines, n \in Levels : ~Won(mshr'[c], l, n) /\ ~Won(mshr[c], l, n)
    BY <1>1, <1>4 DEF Won
  <2> QED BY <1>0, <2>1, SameTags
<1>5. CASE IdleInv(c)
  <2>1. mshr' = mshr /\ st'[c] = "s_inv1"
    BY <1>5, GoesTo DEF IdleInv
  <2>2. InPipe("s_inv1", tag'[c], rtag'[c], xtag'[c]) /\ MissReg("s_inv1", mshr[c])
        /\ MissWay("s_inv1", mshr[c], oldaddr'[c], tag'[c]) /\ CopyWay("s_inv1", inv'[c], tag'[c])
    BY <1>1 DEF InPipe, MissReg, MissWay, CopyWay
  <2> QED BY <1>0, <1>1, <1>4, <2>1, <2>2 DEF LocalInv
<1>6. CASE IdleMiss(c, dk, ik)
  <2> USE DEF Started
  <2>1. PICK q \in PortReq, ways \in SUBSET Ways : Started(c, q, ways)
    BY <1>6, MissStarted
  <2>2. st'[c] = "s_miss1"
    BY <1>6, GoesTo DEF IdleMiss
  <2>3. InPipe("s_miss1", tag'[c], rtag'[c], xtag'[c])
    BY <1>0, <1>1 DEF InPipe, Piped
  <2>4. MissReg("s_miss1", mshr'[c])
    BY <2>1, MinStates DEF MissReg
  <2>5. PICK l, n, m, t : l = q.addr /\ n = MinState(q.op) /\ m = mshr'[c] /\ t = tag[c]
    OBVIOUS
  <2>6. /\ t \in Tags /\ OneCopy(t) /\ xtag[c] = t /\ l \in Lines
        /\ \A w \in Ways : t.l1[w] \in L1Entry
    BY <1>1, <2>5 DEF PortReq, Tags
  <2>7. \A w \in Ways : \A k : Holds(t.l1[w], k) <=> Held(t.l1[w], k, T_STATE_SHARED)
    BY <2>6, HoldsHeld
  <2>8. m.way \in ways /\ m.way \in Ways
    BY <2>1, <2>5 DEF MissWays, TagWays, EmptyWays
  <2>9. CASE TagWays(c, ways, l) = {}
    <3>1. m.cur = T_STATE_INVALID
      BY <2>1, <2>5, <2>9 DEF CurState
    <3>2. ~Held(t.l1[m.way], m.addr, T_STATE_SHARED)
      BY <2>1, <2>5, <2>6, <2>7, <2>8, <2>9 DEF TagWays
    <3>3. ~(m.cur >= m.min)
      BY <2>1, <2>5, <3>1, MinStates, StateNumbers
    <3> QED BY <3>1, <3>2, <3>3, <2>2, <2>3, <2>4, <2>1, <2>5, <1>0, <1>1, <1>4 DEF LocalInv, MissWay, CopyWay
  <2>10. CASE TagWays(c, ways, l) # {}
    <3>1. PICK w \in TagWays(c, ways, l) : m.cur = cache_state_unlock(t.l1[w].st)
      BY <2>1, <2>5, <2>6, <2>10 DEF CurState
    <3>2. m.way \in TagWays(c, ways, l)
      BY <2>1, <2>5, <2>10 DEF MissWays
    <3>3. w \in Ways /\ Held(t.l1[w], l, T_STATE_SHARED) /\ Held(t.l1[m.way], l, T_STATE_SHARED)
      BY <2>6, <2>7, <3>1, <3>2 DEF TagWays
    <3>4. w = m.way
      BY <2>6, <2>8, <3>3 DEF OneCopy
    <3>5. m.cur = cache_state_unlock(t.l1[m.way].st) /\ t.l1[m.way].addr = m.addr
          /\ m.cur >= 1
      BY <2>1, <2>5, <3>1, <3>3, <3>4, StateNumbers DEF Held
    <3>6. ~cache_state_test_access_ok(t.l1[m.way].st, n)
      <4>1. \A y \in TagWays(c, ways, l) : ~cache_state_test_access_ok(xtag[c].l1[y].st, n)
        BY <2>1, <2>5 DEF Selected, DMiss, IMiss, DHit, IHit, HitWays
      <4> QED BY <2>6, <3>2, <4>1
    <3>7. m.cur >= m.min => cache_state_test_locked(t.l1[m.way].st)
      <4>1. m.min = n /\ cache_state_unlock(n) = n
        BY <2>1, <2>5, StateFacts
      <4> QED BY <3>5, <3>6, <4>1 DEF cache_state_test_access_ok, cache_state_test_at_least
    <3>8. MissWay("s_miss1", m, oldaddr'[c], t)
      BY <3>5, <3>7, StateNumbers DEF MissWay
    <3> QED BY <3>8, <2>2, <2>3, <2>4, <2>1, <2>5, <1>0, <1>1, <1>4 DEF LocalInv, CopyWay
  <2> QED BY <2>9, <2>10
<1> QED BY <1>2, <1>3, <1>5, <1>6 DEF s_idle

-----------------------------------------------------------------------------
(* Writes of the tags, entry by entry. *)
LEMMA L1Written ==
    ASSUME NEW c, Regs(c), NEW ways, NEW l, NEW s, WriteL1(c, ways, l, s)
    PROVE  /\ tag'[c].l2 = tag[c].l2
           /\ \A w \in Ways : tag'[c].l1[w] = IF w \in ways THEN MkEntry(l, s) ELSE tag[c].l1[w]
<1>1. PICK f : f = [w \in Ways |-> IF w \in ways THEN MkEntry(l, s) ELSE tag[c].l1[w]]
  OBVIOUS
<1>2. tag' = [tag EXCEPT ![c].l1 = f]
  BY <1>1 DEF WriteL1
<1>3. tag'[c] = [tag[c] EXCEPT !.l1 = f]
  BY <1>2 DEF Regs, TagType
<1>4. tag'[c].l1 = f /\ tag'[c].l2 = tag[c].l2
  BY <1>3 DEF Regs, Tags
<1> QED BY <1>1, <1>4

LEMMA RefillWritten ==
    ASSUME NEW c, Regs(c), NEW way \in Ways, NEW s \in L2Sets,
           tag' = [tag EXCEPT ![c].l1[way] = Locked(@), ![c].l2[s] = EmptyEntry]
    PROVE  /\ \A w \in Ways : tag'[c].l1[w] = IF w = way THEN Locked(tag[c].l1[w]) ELSE tag[c].l1[w]
           /\ \A q \in L2Sets : tag'[c].l2[q] = IF q = s THEN EmptyEntry ELSE tag[c].l2[q]
<1>1. PICK t : t = tag[c]
  OBVIOUS
<1>2. t \in Tags
  BY <1>1 DEF Regs
<1>3. PICK u : u = [t EXCEPT !.l1[way] = Locked(@), !.l2[s] = EmptyEntry]
  OBVIOUS
<1>4. tag'[c] = u
  BY <1>1, <1>3 DEF Regs, TagType
<1>5. /\ u.l1 = [t.l1 EXCEPT ![way] = Locked(t.l1[way])]
      /\ u.l2 = [t.l2 EXCEPT ![s] = EmptyEntry]
  BY <1>2, <1>3 DEF Tags
<1>6. t.l1 \in [Ways -> L1Entry] /\ t.l2 \in [L2Sets -> L2Slot]
  BY <1>2 DEF Tags
<1>7. \A w \in Ways : u.l1[w] = IF w = way THEN Locked(t.l1[w]) ELSE t.l1[w]
  BY <1>5, <1>6
<1>8. \A q \in L2Sets : u.l2[q] = IF q = s THEN EmptyEntry ELSE t.l2[q]
  BY <1>5, <1>6
<1> QED BY <1>1, <1>4, <1>7, <1>8

LEMMA LockWritten ==
    ASSUME NEW c, Regs(c), NEW way \in Ways,
           tag' = [tag EXCEPT ![c].l1[way] = Locked(@)]
    PROVE  /\ \A w \in Ways : tag'[c].l1[w] = IF w = way THEN Locked(tag[c].l1[w]) ELSE tag[c].l1[w]
           /\ tag'[c].l2 = tag[c].l2
<1>1. PICK t : t = tag[c]
  OBVIOUS
<1>2. t \in Tags
  BY <1>1 DEF Regs
<1>3. PICK u : u = [t EXCEPT !.l1[way] = Locked(@)]
  OBVIOUS
<1>4. tag'[c] = u
  BY <1>1, <1>3 DEF Regs, TagType
<1>5. u.l1 = [t.l1 EXCEPT ![way] = Locked(t.l1[way])] /\ u.l2 = t.l2
  BY <1>2, <1>3 DEF Tags
<1>6. t.l1 \in [Ways -> L1Entry]
  BY <1>2 DEF Tags
<1> QED BY <1>1, <1>4, <1>5, <1>6

LEMMA FillWritten ==
    ASSUME NEW c, Regs(c), Miss5Done(c), mshr[c].way \in Ways
    PROVE  /\ \A w \in Ways : tag'[c].l1[w] = IF w = mshr[c].way
                                THEN MkEntry(mshr[c].addr, mshr[c].ins) ELSE tag[c].l1[w]
           /\ \A q \in L2Sets : tag'[c].l2[q] =
                IF mshr[c].old # T_STATE_INVALID /\ q = L2Set[oldaddr[c]]
                THEN MkEntry(oldaddr[c], VictimState(c)) ELSE tag[c].l2[q]
<1>1. PICK t, e, v, o, m : t = tag[c] /\ e = MkEntry(mshr[c].addr, mshr[c].ins)
        /\ v = MkEntry(oldaddr[c], VictimState(c)) /\ o = oldaddr[c] /\ m = mshr[c]
  OBVIOUS
<1>2. t \in Tags /\ m.way \in Ways
  BY <1>1 DEF Regs
<1>3. PICK g : g = [s \in L2Sets |-> IF m.old # T_STATE_INVALID /\ s = L2Set[o]
                                     THEN v ELSE t.l2[s]]
  OBVIOUS
<1>4. PICK u : u = [t EXCEPT !.l1[m.way] = e, !.l2 = g]
  OBVIOUS
<1>5. tag' = [tag EXCEPT ![c].l1[m.way] = e,
                    ![c].l2 = [s \in L2Sets |->
                        IF m.old # T_STATE_INVALID /\ s = L2Set[o] THEN v ELSE @[s]]]
  BY <1>1 DEF Miss5Done
<1>6. tag'[c] = u
  BY <1>1, <1>3, <1>4, <1>5 DEF Regs, TagType
<1>7. u.l1 = [t.l1 EXCEPT ![m.way] = e] /\ u.l2 = g
  BY <1>2, <1>4 DEF Tags
<1>8. t.l1 \in [Ways -> L1Entry]
  BY <1>2 DEF Tags
<1> QED BY <1>1, <1>2, <1>3, <1>6, <1>7, <1>8

LEMMA InvWritten ==
    ASSUME NEW c, Regs(c), s_inv1(c)
    PROVE  /\ \A q \in L2Sets : tag'[c].l2[q] = InvL2(c)[q]
           /\ trigger_writeback(c) => \A w \in Ways : tag'[c].l1[w] = tag[c].l1[w]
           /\ Inv1Done(c) => \A w \in Ways : tag'[c].l1[w] =
                IF w \in InvMatches(c) /\ inv[c].act # "hit_wb"
                THEN MkEntry(inv[c].addr, InvFinalState(c)) ELSE tag[c].l1[w]
<1>1. PICK t, e, g : t = tag[c] /\ e = MkEntry(inv[c].addr, InvFinalState(c)) /\ g = InvL2(c)
  OBVIOUS
<1>2. t \in Tags
  BY <1>1 DEF Regs
<1>3. ASSUME trigger_writeback(c)
      PROVE  tag'[c].l2 = g /\ tag'[c].l1 = t.l1
  <2>1. tag' = [tag EXCEPT ![c].l2 = g]
    BY <1>1, <1>3 DEF trigger_writeback
  <2>2. tag'[c] = [t EXCEPT !.l2 = g]
    BY <1>1, <2>1 DEF Regs, TagType
  <2> QED BY <1>2, <2>2 DEF Tags
<1>4. ASSUME Inv1Done(c)
      PROVE  /\ tag'[c].l2 = g
             /\ \A w \in Ways : tag'[c].l1[w] =
                  IF w \in InvMatches(c) /\ inv[c].act # "hit_wb" THEN e ELSE t.l1[w]
  <2>1. PICK f : f = [w \in Ways |-> IF w \in InvMatches(c) /\ inv[c].act # "hit_wb"
                                      THEN e ELSE t.l1[w]]
    OBVIOUS
  <2>2. tag' = [tag EXCEPT ![c].l1 = f, ![c].l2 = g]
    BY <1>1, <1>4, <2>1 DEF Inv1Done
  <2>3. tag'[c] = [t EXCEPT !.l1 = f, !.l2 = g]
    BY <1>1, <2>2 DEF Regs, TagType
  <2>4. tag'[c].l1 = f /\ tag'[c].l2 = g
    BY <1>2, <2>3 DEF Tags
  <2> QED BY <2>1, <2>4
<1>5. trigger_writeback(c) \/ Inv1Done(c)
  BY DEF s_inv1
<1> QED BY <1>1, <1>3, <1>4, <1>5

-----------------------------------------------------------------------------
(* The decision of a miss.  None of its PARANOID checks fires: the tags are *)
(* the ones the miss was selected from. *)
LEMMA L2Found ==
    ASSUME NEW c, Regs(c), NEW l \in Lines
    PROVE  /\ L2Hit(c, l) <=> HasL2 /\ Held(tag[c].l2[L2Set[l]], l, T_STATE_SHARED)
           /\ HasL2 => L2Entry(c, l) = tag[c].l2[L2Set[l]] /\ L2Set[l] \in L2Sets
<1>1. L2Entry(c, l) \in L1Entry
  BY L2Lookup DEF L2Slot
<1>2. L2Hit(c, l) <=> Held(L2Entry(c, l), l, T_STATE_SHARED)
  BY <1>1, HoldsHeld DEF L2Hit
<1>3. HasL2 => L2Entry(c, l) = tag[c].l2[L2Set[l]] /\ L2Set[l] \in L2Sets
  BY SetOfLine DEF L2Entry
<1>4. ~HasL2 => ~L2Hit(c, l)
  BY L2Lookup
<1> QED BY <1>2, <1>3, <1>4

LEMMA L1Found ==
    ASSUME NEW c, Regs(c), NEW l
    PROVE  L1Matches(c, l) = {w \in Ways : Held(tag[c].l1[w], l, T_STATE_SHARED)}
<1>1. \A w \in Ways : tag[c].l1[w] \in L1Entry
  BY DEF Regs, Tags
<1>2. \A w \in Ways : Holds(tag[c].l1[w], l) <=> Held(tag[c].l1[w], l, T_STATE_SHARED)
  BY <1>1, HoldsHeld
<1> QED BY <1>2 DEF L1Matches

(* What holds of the registers when a miss is decided. *)
AtMiss(c, m, t, e) ==
    /\ m = mshr[c] /\ t = tag[c] /\ e = t.l1[m.way]
    /\ st[c] = "s_miss1" /\ m \in Mshr /\ t \in Tags /\ e \in L1Entry
    /\ m.addr \in Lines /\ m.way \in Ways
    /\ rtag[c] = t /\ xtag[c] = t /\ OneCopy(t) /\ run[c] = "off" /\ ~bitmap[c]
    /\ m.valid /\ ~m.snooped /\ m.ins = m.min /\ m.min \in {T_STATE_SHARED, T_STATE_MODIFIED}
    /\ m.cur # T_STATE_INVALID => e.addr = m.addr /\ cache_state_unlock(e.st) = m.cur
    /\ m.cur >= m.min => cache_state_test_locked(e.st)
    /\ m.cur = T_STATE_INVALID => ~Held(e, m.addr, T_STATE_SHARED)

LEMMA MissFacts ==
    ASSUME NEW c, Regs(c), LocalInv(c), s_miss1(c)
    PROVE  AtMiss(c, mshr[c], tag[c], MissEntry(c))
<1> USE DEF MissStates
<1>1. st[c] = "s_miss1"
  BY DEF s_miss1
<1>2. /\ mshr[c] \in Mshr /\ tag[c] \in Tags /\ mshr[c].addr \in Lines /\ mshr[c].way \in Ways
  BY <1>1 DEF Regs, Fits
<1>3. tag[c].l1[mshr[c].way] \in L1Entry
  BY <1>2 DEF Tags
<1>4. /\ mshr[c].valid /\ ~mshr[c].snooped /\ mshr[c].ins = mshr[c].min
      /\ mshr[c].min \in {T_STATE_SHARED, T_STATE_MODIFIED}
  BY <1>1 DEF LocalInv, MissReg
<1>5. rtag[c] = tag[c] /\ xtag[c] = tag[c] /\ OneCopy(tag[c]) /\ run[c] = "off" /\ ~bitmap[c]
  BY <1>1, <1>4 DEF LocalInv, InPipe
<1> QED BY <1>1, <1>2, <1>3, <1>4, <1>5 DEF AtMiss, LocalInv, MissWay, MissEntry

LEMMA HeldNotL2 ==
    ASSUME NEW c, Regs(c), NEW m, NEW t, NEW e, AtMiss(c, m, t, e),
           Held(e, m.addr, T_STATE_SHARED)
    PROVE  ~L2Hit(c, m.addr)
<1>1. /\ m.way \in Ways /\ m.addr \in Lines /\ OneCopy(t) /\ t = tag[c]
      /\ Held(t.l1[m.way], m.addr, T_STATE_SHARED)
  BY DEF AtMiss
<1>2. \A q \in L2Sets : ~Held(t.l2[q], m.addr, T_STATE_SHARED)
  BY <1>1 DEF OneCopy
<1> QED BY <1>1, <1>2, L2Found

LEMMA CrossSound ==
    ASSUME NEW c, Regs(c), LocalInv(c), Piped(c), s_miss1(c), Miss1Cross(c)
    PROVE  LocalInv(c)' /\ Gains(c)
<1> USE DEF PromoteStates, AskStates, FillStates, CopyStates, MissStates, RefillStates, InvStates
<1>1. PICK m, t, e : AtMiss(c, m, t, e)
  BY MissFacts
<1>2. mshr' = mshr /\ tag' = tag /\ run' = run /\ bitmap' = bitmap
  BY DEF Miss1Cross, s_miss1
<1>3. PICK w \in Ways : Held(t.l1[w], m.addr, T_STATE_SHARED)
  BY <1>1, L1Found DEF Miss1Cross, AtMiss
<1>4. ~L2Hit(c, m.addr)
  BY <1>1, <1>3, L2Found DEF AtMiss, OneCopy
<1>5. st'[c] = "s_inv1"
  BY <1>1, <1>4, GoesTo DEF Miss1Cross, AtMiss
<1>6. /\ OneCopy(tag'[c])
      /\ Covered(tag'[c], rtag'[c], mshr'[c])
      /\ Covered(rtag'[c], xtag'[c], mshr'[c])
      /\ Gains(c)
  BY <1>2, SameTags
<1>7. /\ InPipe("s_inv1", tag'[c], rtag'[c], xtag'[c]) /\ MissReg("s_inv1", mshr'[c])
      /\ MissWay("s_inv1", mshr'[c], oldaddr'[c], tag'[c]) /\ CopyWay("s_inv1", inv'[c], tag'[c])
  BY <1>1, <1>2 DEF InPipe, MissReg, MissWay, CopyWay, AtMiss
<1>8. run'[c] = "off" /\ ~bitmap'[c]
  BY <1>1, <1>2 DEF AtMiss
<1> QED BY <1>5, <1>6, <1>7, <1>8 DEF LocalInv

(* A write in place that leaves what the tags hold at the two levels alone. *)
LEMMA InPlaceSound ==
    ASSUME NEW c, Regs(c), LocalInv(c), Piped(c), NEW m, NEW t, NEW e, AtMiss(c, m, t, e),
           NEW s \in UnlockedStates, WriteL1(c, {m.way}, m.addr, s),
           m.cur # T_STATE_INVALID, \A n \in Levels : s >= n => m.cur >= n,
           st'[c] = "s_return1", mshr' = mshr, run' = run, bitmap' = bitmap
    PROVE  LocalInv(c)' /\ Gains(c)
<1> USE DEF PromoteStates, AskStates, FillStates, CopyStates, MissStates, RefillStates, InvStates
<1>1. PICK u : u = tag'[c]
  OBVIOUS
<1>2. /\ u.l2 = t.l2
      /\ \A w \in Ways : u.l1[w] = IF w = m.way THEN MkEntry(m.addr, s) ELSE t.l1[w]
  BY <1>1, L1Written DEF AtMiss
<1>3. \A n \in Levels : m.cur >= n => Held(t.l1[m.way], m.addr, n)
  BY DEF AtMiss, Held
<1>4. Held(t.l1[m.way], m.addr, T_STATE_SHARED)
  BY StateNumbers DEF AtMiss, Held, Mshr, UnlockedStates
<1>5. /\ t \in Tags /\ OneCopy(t) /\ m.way \in Ways /\ m.addr \in Lines
  BY DEF AtMiss
<1>6. /\ OneCopy(u)
      /\ \A k \in Lines, n \in Levels : Has(u, k, n) => Has(t, k, n) \/ (k = m.addr /\ s >= n)
  BY <1>2, <1>4, <1>5, PromotedTags
<1>7. \A n \in Levels : s >= n => Has(t, m.addr, n)
  BY <1>3, <1>5 DEF Has
<1>8. Covered(u, t, mshr'[c])
  BY <1>6, <1>7 DEF Covered
<1>9. /\ OneCopy(tag'[c])
      /\ Covered(tag'[c], rtag'[c], mshr'[c])
      /\ Covered(rtag'[c], xtag'[c], mshr'[c])
      /\ Gains(c)
  <2>1. OneCopy(tag'[c]) /\ Covered(tag'[c], tag[c], mshr'[c])
    BY <1>1, <1>6, <1>8 DEF AtMiss
  <2> QED BY <2>1, PipeStep DEF Sees
<1>10. /\ InPipe("s_return1", tag'[c], rtag'[c], xtag'[c]) /\ MissReg("s_return1", mshr'[c])
       /\ MissWay("s_return1", mshr'[c], oldaddr'[c], tag'[c]) /\ CopyWay("s_return1", inv'[c], tag'[c])
  BY DEF InPipe, MissReg, MissWay, CopyWay, AtMiss
<1>11. run'[c] = "off" /\ ~bitmap'[c]
  BY DEF AtMiss
<1> QED BY <1>9, <1>10, <1>11 DEF LocalInv

LEMMA PromoteSound ==
    ASSUME NEW c, Regs(c), LocalInv(c), Piped(c), s_miss1(c), Miss1Promote(c)
    PROVE  LocalInv(c)' /\ Gains(c)
<1> USE DEF PromoteStates, AskStates, FillStates, CopyStates, MissStates, RefillStates, InvStates
<1>1. PICK m, t, e : AtMiss(c, m, t, e) /\ e = MissEntry(c)
  BY MissFacts
<1>2. mshr' = mshr /\ run' = run /\ bitmap' = bitmap
  BY DEF Miss1Promote, s_miss1
<1>3. m.cur # T_STATE_INVALID /\ m.cur < m.min /\ m.cur \in UnlockedStates /\ m.min = 3
      /\ m.cur \in 1..2
  BY <1>1, StateNumbers DEF Miss1Promote, AtMiss, Mshr, UnlockedStates
<1>4. Held(e, m.addr, T_STATE_SHARED) /\ e.addr = m.addr /\ cache_state_unlock(e.st) = m.cur
  BY <1>1, <1>3, StateNumbers DEF AtMiss, Held
<1>5. ~L2Hit(c, m.addr)
  BY <1>1, <1>4, HeldNotL2
<1>6. ~(\/ mshr[c].cur # cache_state_unlock(MissEntry(c).st) \/ mshr[c].addr # MissEntry(c).addr
        \/ mshr[c].min < T_STATE_EXCLUSIVE \/ L2Hit(c, mshr[c].addr))
  BY <1>1, <1>3, <1>4, <1>5, StateNumbers DEF AtMiss
<1>7. CASE m.cur < T_STATE_EXCLUSIVE
  <2>1. tag' = tag /\ st'[c] = "s_lsnoop_promote1"
    <3>1. ~(mshr[c].cur >= T_STATE_EXCLUSIVE)
      BY <1>1, <1>3, <1>7, StateNumbers DEF AtMiss
    <3>2. tag' = tag /\ st' = [st EXCEPT ![c] = "s_lsnoop_promote1"]
      BY <1>6, <3>1 DEF Miss1Promote, Goto
    <3> QED BY <3>2 DEF Regs, CtlType
  <2>2. /\ OneCopy(tag'[c])
        /\ Covered(tag'[c], rtag'[c], mshr'[c])
        /\ Covered(rtag'[c], xtag'[c], mshr'[c])
        /\ Gains(c)
    BY <1>2, <2>1, SameTags
  <2>3. InPipe("s_lsnoop_promote1", tag'[c], rtag'[c], xtag'[c])
    BY <1>1, <2>1 DEF InPipe, Piped, AtMiss
  <2>4. MissReg("s_lsnoop_promote1", mshr'[c])
    BY <1>1, <1>2 DEF MissReg, AtMiss
  <2>5. MissWay("s_lsnoop_promote1", mshr'[c], oldaddr'[c], tag'[c])
    <3>1. mshr'[c] = m /\ tag'[c] = t /\ e = t.l1[m.way] /\ m.cur = 1
      BY <1>1, <1>2, <1>3, <1>7, <2>1, StateNumbers DEF AtMiss
    <3> QED BY <1>3, <1>4, <3>1, StateNumbers DEF MissWay
  <2>6. CopyWay("s_lsnoop_promote1", inv'[c], tag'[c]) /\ run'[c] = "off" /\ ~bitmap'[c]
    BY <1>1, <1>2 DEF CopyWay, AtMiss
  <2> QED BY <2>1, <2>2, <2>3, <2>4, <2>5, <2>6 DEF LocalInv
<1>8. CASE m.cur >= T_STATE_EXCLUSIVE
  <2>1. WriteL1(c, {m.way}, m.addr, m.min) /\ st'[c] = "s_return1"
    <3>1. ~(mshr[c].cur < T_STATE_EXCLUSIVE) /\ m = mshr[c]
      BY <1>1, <1>3, <1>8, StateNumbers DEF AtMiss
    <3>2. WriteL1(c, {m.way}, m.addr, m.min) /\ st' = [st EXCEPT ![c] = "s_return1"]
      BY <1>6, <3>1 DEF Miss1Promote, Goto
    <3> QED BY <3>2 DEF Regs, CtlType
  <2>2. m.min \in UnlockedStates /\ \A n \in Levels : m.min >= n => m.cur >= n
    BY <1>1, <1>3, <1>8, StateNumbers DEF AtMiss, Levels, Mshr
  <2> QED BY <1>1, <1>2, <1>3, <2>1, <2>2, InPlaceSound
<1> QED BY <1>3, <1>7, <1>8, StateNumbers

LEMMA UnlockSound ==
    ASSUME NEW c, Regs(c), LocalInv(c), Piped(c), s_miss1(c), Miss1Unlock(c)
    PROVE  LocalInv(c)' /\ Gains(c)
<1>1. PICK m, t, e : AtMiss(c, m, t, e) /\ e = MissEntry(c)
  BY MissFacts
<1>2. mshr' = mshr /\ run' = run /\ bitmap' = bitmap
  BY DEF Miss1Unlock, s_miss1
<1>3. m.cur # T_STATE_INVALID /\ m.cur >= m.min /\ m.cur \in UnlockedStates
  BY <1>1 DEF Miss1Unlock, AtMiss, Mshr
<1>4. /\ e.addr = m.addr /\ cache_state_unlock(e.st) = m.cur /\ cache_state_test_locked(e.st)
  BY <1>1, <1>3 DEF AtMiss
<1>5. Held(e, m.addr, T_STATE_SHARED)
  BY <1>3, <1>4, StateNumbers DEF Held, UnlockedStates
<1>6. ~L2Hit(c, m.addr)
  BY <1>1, <1>5, HeldNotL2
<1>7. WriteL1(c, {m.way}, m.addr, m.cur) /\ st'[c] = "s_return1"
  BY <1>1, <1>4, <1>6, GoesTo DEF Miss1Unlock, AtMiss
<1> QED BY <1>1, <1>2, <1>3, <1>7, InPlaceSound

(* A refill starts: the victim is locked, a line found in L2 leaves it. *)
LEMMA RefillStart ==
    ASSUME NEW c, Regs(c), s_miss1(c), Miss1Refill(c), NEW m, NEW t, NEW e, AtMiss(c, m, t, e)
    PROVE  /\ oldaddr'[c] = e.addr
           /\ \A w \in Ways : ~Held(t.l1[w], m.addr, T_STATE_SHARED)
<1>0. m = mshr[c] /\ t = tag[c] /\ e = MissEntry(c) /\ m.addr \in Lines /\ e = t.l1[m.way]
  BY DEF AtMiss, MissEntry
<1>1. oldaddr'[c] = e.addr
  BY <1>0 DEF s_miss1, Regs, CtlType
<1>2. L1Matches(c, m.addr) \ {m.way} = {} /\ ~Held(e, m.addr, T_STATE_SHARED)
  BY <1>0 DEF Miss1Refill, AtMiss
<1>3. \A w \in Ways : Held(t.l1[w], m.addr, T_STATE_SHARED) => w \in L1Matches(c, m.addr)
  BY <1>0, L1Found
<1> QED BY <1>0, <1>1, <1>2, <1>3

(* The state a line leaves L2 in. *)
FromL2(m, l2) ==
    IF m.min = T_STATE_MODIFIED /\ l2.st = T_STATE_EXCLUSIVE THEN T_STATE_MODIFIED ELSE l2.st

LEMMA RefillHit ==
    ASSUME NEW c, Regs(c), s_miss1(c), Miss1Refill(c), NEW m, NEW t, NEW e, AtMiss(c, m, t, e),
           L2Hit(c, m.addr)
    PROVE  /\ st'[c] = "s_miss2"
           /\ mshr'[c] = [m EXCEPT !.old = cache_state_unlock(e.st), !.l2hit = TRUE,
                                   !.snooped = TRUE, !.ins = FromL2(m, L2Entry(c, m.addr))]
           /\ tag' = [tag EXCEPT ![c].l1[m.way] = Locked(@), ![c].l2[L2Set[m.addr]] = EmptyEntry]
<1>0. m = mshr[c] /\ t = tag[c] /\ e = MissEntry(c) /\ m.addr \in Lines
  BY DEF AtMiss, MissEntry
<1>1. L1Matches(c, m.addr) = {}
  BY <1>0, RefillStart, L1Found
<1> QED BY <1>0, <1>1, GoesTo DEF Miss1Refill, Regs, CtlType, FromL2

LEMMA RefillAsk ==
    ASSUME NEW c, Regs(c), s_miss1(c), Miss1Refill(c), NEW m, NEW t, NEW e, AtMiss(c, m, t, e),
           ~L2Hit(c, m.addr)
    PROVE  /\ st'[c] = "s_lsnoop_miss1"
           /\ mshr'[c] = [m EXCEPT !.old = cache_state_unlock(e.st)]
           /\ tag' = [tag EXCEPT ![c].l1[m.way] = Locked(@)]
<1>0. m = mshr[c] /\ t = tag[c] /\ e = MissEntry(c) /\ m.addr \in Lines
  BY DEF AtMiss, MissEntry
<1> QED BY <1>0, GoesTo DEF Miss1Refill, Regs, CtlType

LEMMA RefillSound ==
    ASSUME NEW c, Regs(c), LocalInv(c), Piped(c), s_miss1(c), Miss1Refill(c)
    PROVE  LocalInv(c)' /\ Gains(c)
<1> USE DEF PromoteStates, AskStates, FillStates, CopyStates, MissStates, RefillStates, InvStates
<1>1. PICK m, t, e : AtMiss(c, m, t, e)
  BY MissFacts
<1>2. PICK m2, u, o : m2 = mshr'[c] /\ u = tag'[c] /\ o = oldaddr'[c]
  OBVIOUS
<1>3. /\ m = mshr[c] /\ t = tag[c] /\ e = t.l1[m.way] /\ m \in Mshr /\ t \in Tags /\ e \in L1Entry
      /\ m.addr \in Lines /\ m.way \in Ways /\ OneCopy(t) /\ rtag[c] = t /\ xtag[c] = t
      /\ m.valid /\ ~m.snooped /\ m.ins = m.min /\ m.min \in {T_STATE_SHARED, T_STATE_MODIFIED}
  BY <1>1 DEF AtMiss
<1>4. run' = run /\ bitmap' = bitmap /\ run'[c] = "off" /\ ~bitmap'[c]
  BY <1>1 DEF s_miss1, AtMiss
<1>5. o = e.addr /\ \A w \in Ways : ~Held(t.l1[w], m.addr, T_STATE_SHARED)
  BY <1>1, <1>2, RefillStart
<1>6. \A w \in Ways : \A l, n : Held(Locked(t.l1[w]), l, n) <=> Held(t.l1[w], l, n)
  BY <1>3, LockedHeld DEF Tags
<1>7. Locked(e).addr = e.addr /\ cache_state_unlock(Locked(e).st) = cache_state_unlock(e.st)
  BY <1>3, StateFacts, LockedEntry DEF Locked, L1Entry, Entry
<1>8. CASE L2Hit(c, m.addr)
  <2>1. PICK l2 : l2 = L2Entry(c, m.addr)
    OBVIOUS
  <2>2. HasL2 /\ L2Set[m.addr] \in L2Sets /\ l2 = t.l2[L2Set[m.addr]]
        /\ Held(l2, m.addr, T_STATE_SHARED)
    BY <1>3, <1>8, <2>1, L2Found
  <2>3. l2.st \in UnlockedStates /\ cache_state_unlock(l2.st) = l2.st /\ l2.addr = m.addr /\ l2.st >= 1
    BY <1>3, <2>2, StateFacts, StateNumbers DEF Held, Tags, L2Slot
  <2>4. PICK ins : ins = FromL2(m, l2)
    OBVIOUS
  <2>5. /\ st'[c] = "s_miss2"
        /\ m2 = [m EXCEPT !.old = cache_state_unlock(e.st), !.l2hit = TRUE,
                          !.snooped = TRUE, !.ins = ins]
        /\ tag' = [tag EXCEPT ![c].l1[m.way] = Locked(@), ![c].l2[L2Set[m.addr]] = EmptyEntry]
    <3>1. /\ st'[c] = "s_miss2"
          /\ mshr'[c] = [m EXCEPT !.old = cache_state_unlock(e.st), !.l2hit = TRUE,
                                  !.snooped = TRUE, !.ins = FromL2(m, L2Entry(c, m.addr))]
          /\ tag' = [tag EXCEPT ![c].l1[m.way] = Locked(@), ![c].l2[L2Set[m.addr]] = EmptyEntry]
      BY <1>1, <1>8, RefillHit
    <3>2. m2 = mshr'[c] /\ ins = FromL2(m, L2Entry(c, m.addr))
      BY <1>2, <2>1, <2>4
    <3> QED BY <3>1, <3>2
  <2>6. /\ m2.valid /\ m2.snooped /\ m2.addr = m.addr /\ m2.way = m.way /\ m2.ins = ins
        /\ m2.old = cache_state_unlock(e.st)
    BY <1>3, <2>5 DEF Mshr
  <2>7. /\ \A w \in Ways : u.l1[w] = IF w = m.way THEN Locked(t.l1[w]) ELSE t.l1[w]
        /\ \A q \in L2Sets : u.l2[q] = IF q = L2Set[m.addr] THEN EmptyEntry ELSE t.l2[q]
    <3>1. PICK y, q : y = m.way /\ q = L2Set[m.addr]
      OBVIOUS
    <3>2. tag' = [tag EXCEPT ![c].l1[y] = Locked(@), ![c].l2[q] = EmptyEntry]
      BY <2>5, <3>1
    <3>3. y \in Ways /\ q \in L2Sets
      BY <1>3, <2>2, <3>1
    <3>4. /\ \A w \in Ways : tag'[c].l1[w] = IF w = y THEN Locked(tag[c].l1[w]) ELSE tag[c].l1[w]
          /\ \A k \in L2Sets : tag'[c].l2[k] = IF k = q THEN EmptyEntry ELSE tag[c].l2[k]
      BY <3>2, <3>3, RefillWritten
    <3> QED BY <1>2, <1>3, <3>1, <3>4
  <2>8. \A w \in Ways : \A l, n : Held(u.l1[w], l, n) <=> Held(t.l1[w], l, n)
    BY <1>6, <2>7
  <2>9. Lowers(u, t)
    BY <2>7, <2>8, EmptyHeld DEF Lowers
  <2>10. OneCopy(u) /\ Covered(u, t, m2)
    BY <1>3, <2>9, LowerTags
  <2>11. ASSUME NEW l \in Lines, NEW n \in Levels, Won(m2, l, n) PROVE Sees(c, l, n)
    <3>1. l = m.addr /\ ins >= n
      BY <2>6, <2>11 DEF Won
    <3>2. l2.st >= n
      BY <2>3, <2>4, <3>1, StateNumbers DEF Levels, UnlockedStates, FromL2
    <3>3. Held(t.l2[L2Set[l]], l, n)
      BY <2>2, <2>3, <3>1, <3>2 DEF Held
    <3> QED BY <1>3, <2>2, <3>3 DEF Sees, Has
  <2>12. /\ OneCopy(tag'[c])
         /\ Covered(tag'[c], rtag'[c], mshr'[c])
         /\ Covered(rtag'[c], xtag'[c], mshr'[c])
         /\ Gains(c)
    BY <1>2, <1>3, <2>10, <2>11, PipeStep
  <2>13. ~Has(u, m.addr, T_STATE_SHARED)
    <3>1. ~Held(EmptyEntry, m.addr, T_STATE_SHARED)
      BY EmptyHeld, LevelNumbers
    <3> QED BY <1>5, <2>2, <2>7, <2>8, <3>1 DEF Has
  <2>14. InPipe("s_miss2", tag'[c], rtag'[c], xtag'[c]) /\ CopyWay("s_miss2", inv'[c], tag'[c])
    BY DEF InPipe, CopyWay
  <2>15. MissReg("s_miss2", m2)
    BY <2>3, <2>4, <2>6, StateNumbers DEF MissReg, FromL2
  <2>16. MissWay("s_miss2", m2, o, u)
    BY <1>3, <1>5, <1>7, <2>6, <2>7, <2>13 DEF MissWay
  <2> QED BY <1>2, <1>4, <2>5, <2>12, <2>14, <2>15, <2>16 DEF LocalInv
<1>9. CASE ~L2Hit(c, m.addr)
  <2>5. /\ st'[c] = "s_lsnoop_miss1"
        /\ m2 = [m EXCEPT !.old = cache_state_unlock(e.st)]
        /\ tag' = [tag EXCEPT ![c].l1[m.way] = Locked(@)]
    BY <1>1, <1>2, <1>9, RefillAsk
  <2>6. /\ m2.valid /\ ~m2.snooped /\ m2.addr = m.addr /\ m2.way = m.way /\ m2.ins = m.min
        /\ m2.min = m.min /\ m2.old = cache_state_unlock(e.st)
    BY <1>3, <2>5 DEF Mshr
  <2>7. /\ \A w \in Ways : u.l1[w] = IF w = m.way THEN Locked(t.l1[w]) ELSE t.l1[w]
        /\ u.l2 = t.l2
    <3>1. PICK y : y = m.way
      OBVIOUS
    <3>2. tag' = [tag EXCEPT ![c].l1[y] = Locked(@)]
      BY <2>5, <3>1
    <3>3. y \in Ways
      BY <1>3, <3>1
    <3>4. /\ \A w \in Ways : tag'[c].l1[w] = IF w = y THEN Locked(tag[c].l1[w]) ELSE tag[c].l1[w]
          /\ tag'[c].l2 = tag[c].l2
      BY <3>2, <3>3, LockWritten
    <3> QED BY <1>2, <1>3, <3>1, <3>4
  <2>8. \A w \in Ways : \A l, n : Held(u.l1[w], l, n) <=> Held(t.l1[w], l, n)
    BY <1>6, <2>7
  <2>9. Lowers(u, t)
    BY <2>7, <2>8 DEF Lowers
  <2>10. OneCopy(u) /\ Covered(u, t, m2)
    BY <1>3, <2>9, LowerTags
  <2>12. /\ OneCopy(tag'[c])
         /\ Covered(tag'[c], rtag'[c], mshr'[c])
         /\ Covered(rtag'[c], xtag'[c], mshr'[c])
         /\ Gains(c)
    <3>1. \A l \in Lines, n \in Levels : ~Won(m2, l, n)
      BY <2>6 DEF Won
    <3> QED BY <1>2, <1>3, <2>10, <3>1, PipeStep
  <2>13. ~Has(u, m.addr, T_STATE_SHARED)
    BY <1>3, <1>5, <1>9, <2>7, <2>8, L2Found DEF Has
  <2>14. InPipe("s_lsnoop_miss1", tag'[c], rtag'[c], xtag'[c])
         /\ CopyWay("s_lsnoop_miss1", inv'[c], tag'[c])
    BY DEF InPipe, CopyWay
  <2>15. MissReg("s_lsnoop_miss1", m2)
    BY <1>3, <2>6 DEF MissReg
  <2>16. MissWay("s_lsnoop_miss1", m2, o, u)
    BY <1>3, <1>5, <1>7, <2>6, <2>7, <2>13 DEF MissWay
  <2> QED BY <1>2, <1>4, <2>5, <2>12, <2>14, <2>15, <2>16 DEF LocalInv
<1> QED BY <1>8, <1>9

LEMMA Miss1Sound ==
    ASSUME NEW c, Regs(c), LocalInv(c), Piped(c), s_miss1(c)
    PROVE  LocalInv(c)' /\ Gains(c)
BY CrossSound, PromoteSound, UnlockSound, RefillSound DEF s_miss1

(* The end of a refill. *)
LEMMA FillSound ==
    ASSUME NEW c, Regs(c), LocalInv(c), Piped(c), NEW moves, s_miss5(c, moves)
    PROVE  LocalInv(c)' /\ Gains(c)
<1> USE DEF PromoteStates, AskStates, FillStates, CopyStates, MissStates, RefillStates, InvStates
<1>0. st[c] = "s_miss5" /\ mshr' = mshr /\ inv' = inv /\ oldaddr' = oldaddr
  BY DEF s_miss5
<1>1. PICK m, t, o : m = mshr[c] /\ t = tag[c] /\ o = oldaddr[c]
  OBVIOUS
<1>2. /\ m \in Mshr /\ t \in Tags /\ m.addr \in Lines /\ m.way \in Ways
      /\ (m.old # T_STATE_INVALID => o \in Lines)
  BY <1>0, <1>1 DEF Regs, Fits
<1>3. /\ m.valid /\ m.snooped /\ m.ins # T_STATE_INVALID /\ OneCopy(t)
      /\ ~Has(t, m.addr, T_STATE_SHARED) /\ cache_state_unlock(t.l1[m.way].st) = m.old
      /\ (m.old # T_STATE_INVALID => t.l1[m.way].addr = o)
  BY <1>0, <1>1 DEF LocalInv, MissReg, MissWay
<1>4. CASE run[c] # "off"
  <2>1. st' = st /\ tag' = tag
    BY <1>4 DEF s_miss5, Miss5Done
  <2>2. Follows(st[c], st'[c]) /\ st'[c] = "s_miss5"
    BY <1>0, <2>1 DEF Follows
  <2> QED BY <1>0, <1>1, <1>3, <2>1, <2>2, AdvanceSound
<1>5. CASE run[c] = "off"
  <2>1. Miss5Done(c) /\ st'[c] = "s_return1" /\ run' = run /\ bitmap' = bitmap
    BY <1>5, GoesTo DEF s_miss5, Miss5Done
  <2>2. PICK u, vs : u = tag'[c] /\ vs = VictimState(c)
    OBVIOUS
  <2>3. /\ \A w \in Ways : u.l1[w] = IF w = m.way THEN MkEntry(m.addr, m.ins) ELSE t.l1[w]
        /\ \A q \in L2Sets : u.l2[q] = IF m.old # T_STATE_INVALID /\ q = L2Set[o]
                                       THEN MkEntry(o, vs) ELSE t.l2[q]
    BY <1>1, <1>2, <2>1, <2>2, FillWritten
  <2>4. vs = (IF m.old = T_STATE_MODIFIED THEN T_STATE_EXCLUSIVE ELSE m.old)
        /\ m.old \in UnlockedStates /\ m.ins \in UnlockedStates
    BY <1>1, <1>2, <2>2 DEF VictimState, Mshr
  <2>5. vs \in UnlockedStates
    BY <2>4, StateFacts
  <2>6. /\ OneCopy(u)
        /\ \A k \in Lines, n \in Levels : Has(u, k, n) => Has(t, k, n) \/ (k = m.addr /\ m.ins >= n)
    <3>1. PICK way, l, ins, old : way = m.way /\ l = m.addr /\ ins = m.ins /\ old = m.old
      OBVIOUS
    <3>2. /\ way \in Ways /\ l \in Lines /\ ins \in UnlockedStates /\ ins # T_STATE_INVALID
          /\ old \in UnlockedStates /\ t \in Tags /\ OneCopy(t)
          /\ (old # T_STATE_INVALID => o \in Lines /\ t.l1[way].addr = o)
          /\ vs = (IF old = T_STATE_MODIFIED THEN T_STATE_EXCLUSIVE ELSE old)
          /\ ~Has(t, l, T_STATE_SHARED) /\ cache_state_unlock(t.l1[way].st) = old
      BY <1>2, <1>3, <2>4, <3>1
    <3>3. /\ \A w \in Ways : u.l1[w] = IF w = way THEN MkEntry(l, ins) ELSE t.l1[w]
          /\ \A q \in L2Sets : u.l2[q] = IF old # T_STATE_INVALID /\ q = L2Set[o]
                                         THEN MkEntry(o, vs) ELSE t.l2[q]
      BY <2>3, <3>1
    <3>4. /\ OneCopy(u)
          /\ \A k \in Lines, n \in Levels : Has(u, k, n) => Has(t, k, n) \/ (k = l /\ ins >= n)
      BY <2>5, <3>2, <3>3, FilledTags
    <3> QED BY <3>1, <3>4
  <2>7. Covered(u, t, m)
    BY <1>3, <2>6 DEF Covered, Won
  <2>8. /\ OneCopy(tag'[c])
        /\ Covered(tag'[c], rtag'[c], mshr'[c])
        /\ Covered(rtag'[c], xtag'[c], mshr'[c])
        /\ Gains(c)
    <3>1. OneCopy(tag'[c]) /\ Covered(tag'[c], tag[c], mshr'[c]) /\ mshr'[c] = mshr[c]
      BY <1>0, <1>1, <2>2, <2>6, <2>7
    <3> QED BY <3>1, PipeStep DEF Sees
  <2>9. /\ InPipe("s_return1", tag'[c], rtag'[c], xtag'[c]) /\ MissReg("s_return1", mshr'[c])
        /\ MissWay("s_return1", mshr'[c], oldaddr'[c], tag'[c]) /\ CopyWay("s_return1", inv'[c], tag'[c])
    BY <1>0, <1>1, <1>3 DEF InPipe, MissReg, MissWay, CopyWay
  <2>10. run'[c] = "off" /\ (bitmap'[c] => mshr'[c].valid /\ mshr'[c].snooped)
    BY <1>0, <1>1, <1>3, <1>5, <2>1
  <2> QED BY <2>1, <2>8, <2>9, <2>10 DEF LocalInv
<1> QED BY <1>4, <1>5

-----------------------------------------------------------------------------
(* An invalidation only lowers what the tags hold. *)
LEMMA LowerSound ==
    ASSUME NEW c, Regs(c), LocalInv(c), Piped(c), Lowers(tag'[c], tag[c]), mshr' = mshr
    PROVE  /\ OneCopy(tag'[c])
           /\ Covered(tag'[c], rtag'[c], mshr'[c])
           /\ Covered(rtag'[c], xtag'[c], mshr'[c])
           /\ Gains(c)
<1>1. OneCopy(tag'[c]) /\ Covered(tag'[c], tag[c], mshr'[c])
  BY LowerTags DEF LocalInv
<1> QED BY <1>1, PipeStep DEF Sees

LEMMA FinalStates ==
    ASSUME NEW c, Regs(c)
    PROVE  /\ InvFinalState(c) \in UnlockedStates /\ InvFinalState(c) <= T_STATE_EXCLUSIVE
           /\ inv[c].act # "hit_wb" => InvFinalState(c) <= T_STATE_SHARED
           /\ InvFinalState(c) # T_STATE_INVALID => inv[c].act \in {"hit_wb", "hit_wb_shar"}
BY StateNumbers DEF InvFinalState, UnlockedStates

LEMMA InvLowers ==
    ASSUME NEW c, Regs(c), s_inv1(c)
    PROVE  Lowers(tag'[c], tag[c])
<1> USE DEF InvStates, CopyStates
<1>1. PICK u, t, a, f : u = tag'[c] /\ t = tag[c] /\ a = inv[c].addr /\ f = InvFinalState(c)
  OBVIOUS
<1>2. a \in Lines /\ t \in Tags
  BY <1>1 DEF Regs, Fits, s_inv1
<1>3. /\ f \in UnlockedStates /\ (inv[c].act # "hit_wb" => f <= 1)
      /\ (f # 0 => inv[c].act \in {"hit_wb", "hit_wb_shar"})
  BY <1>1, FinalStates, StateNumbers
<1>4. ASSUME NEW w \in Ways, NEW l \in Lines, NEW n \in Levels, Held(u.l1[w], l, n)
      PROVE  Held(t.l1[w], l, n)
  <2>0. n \in 1..3
    BY LevelNumbers
  <2>1. CASE u.l1[w] = t.l1[w]
    BY <1>4, <2>1
  <2>2. CASE u.l1[w] # t.l1[w]
    <3>1. u.l1[w] = MkEntry(a, f) /\ w \in InvMatches(c) /\ inv[c].act # "hit_wb"
      BY <1>1, <2>2, InvWritten DEF s_inv1
    <3>2. a = l /\ f >= n
      BY <1>2, <1>3, <1>4, <2>0, <3>1, MadeHeld
    <3>3. n = 1 /\ f # 0
      BY <1>3, <2>0, <3>1, <3>2 DEF UnlockedStates
    <3>4. w \in L1Matches(c, l)
      BY <1>1, <1>3, <3>1, <3>2, <3>3 DEF InvMatches
    <3> QED BY <1>1, <3>3, <3>4, L1Found, StateNumbers
  <2> QED BY <2>1, <2>2
<1>5. ASSUME NEW q \in L2Sets, NEW l \in Lines, NEW n \in 1..3, Held(u.l2[q], l, n)
      PROVE  Held(t.l2[q], l, n)
  <2>1. u.l2[q] = InvL2(c)[q]
    BY <1>1, InvWritten
  <2>2. CASE u.l2[q] = t.l2[q]
    BY <1>5, <2>2
  <2>3. CASE u.l2[q] # t.l2[q]
    <3>1. /\ u.l2[q] = MkEntry(a, f) /\ inv[c].act # "hit_wb" /\ q = L2Set[a]
          /\ inv[c].act = "idx_wb_inv" \/ L2Hit(c, a)
      BY <1>1, <2>1, <2>3 DEF InvL2
    <3>2. a = l /\ f >= n
      BY <1>2, <1>3, <1>5, <3>1, MadeHeld
    <3>3. n = 1 /\ f # 0
      BY <1>3, <3>1, <3>2 DEF UnlockedStates
    <3>4. L2Hit(c, a)
      BY <1>3, <3>1, <3>3
    <3> QED BY <1>1, <1>2, <3>1, <3>2, <3>3, <3>4, L2Found, StateNumbers
  <2> QED BY <2>2, <2>3
<1> QED BY <1>1, <1>4, <1>5 DEF Lowers

LEMMA InvSound ==
    ASSUME NEW c, Regs(c), LocalInv(c), Piped(c), s_inv1(c)
    PROVE  LocalInv(c)' /\ Gains(c)
<1> USE DEF PromoteStates, AskStates, FillStates, CopyStates, MissStates, RefillStates, InvStates
<1>0. st[c] = "s_inv1" /\ mshr' = mshr /\ bitmap' = bitmap /\ run' = run
  BY DEF s_inv1, InvKeep
<1>1. /\ OneCopy(tag'[c])
      /\ Covered(tag'[c], rtag'[c], mshr'[c])
      /\ Covered(rtag'[c], xtag'[c], mshr'[c])
      /\ Gains(c)
  BY <1>0, InvLowers, LowerSound
<1>2. run'[c] = "off" /\ ~bitmap'[c] /\ ~(mshr'[c].valid /\ mshr'[c].snooped)
  BY <1>0 DEF LocalInv, MissReg
<1>3. CASE trigger_writeback(c)
  <2>1. st'[c] = "s_inv2"
    BY <1>3, GoesTo DEF trigger_writeback
  <2>2. PICK w : w \in InvDirty(c) /\ inv'[c].way = w
    <3>1. InvDirty(c) \subseteq Ways /\ InvDirty(c) # {}
      BY <1>3 DEF InvDirty, InvMatches, L1Matches, trigger_writeback
    <3>3. PICK w : w = CHOOSE y \in InvDirty(c) : \A x \in InvDirty(c) : y <= x
      OBVIOUS
    <3>4. w \in InvDirty(c)
      BY <3>1, <3>3, LowestWay
    <3>5. inv' = [inv EXCEPT ![c].way = w]
      BY <1>3, <3>3 DEF trigger_writeback
    <3>6. inv'[c].way = w
      BY <3>5 DEF Regs, CtlType, InvReg
    <3> QED BY <3>4, <3>6
  <2>3. w \in Ways /\ Dirty(tag[c].l1[w])
    BY <2>2 DEF InvDirty, InvMatches, L1Matches
  <2>4. tag'[c].l1[w] = tag[c].l1[w]
    BY <1>3, <2>3, InvWritten
  <2>5. CopyWay("s_inv2", inv'[c], tag'[c])
    BY <2>2, <2>3, <2>4 DEF CopyWay, Dirty
  <2>6. InPipe("s_inv2", tag'[c], rtag'[c], xtag'[c]) /\ MissReg("s_inv2", mshr'[c])
        /\ MissWay("s_inv2", mshr'[c], oldaddr'[c], tag'[c])
    BY <1>2 DEF InPipe, MissReg, MissWay
  <2> QED BY <1>1, <1>2, <2>1, <2>5, <2>6 DEF LocalInv
<1>4. CASE Inv1Done(c)
  <2>1. st'[c] = "s_return1"
    BY <1>4, GoesTo DEF Inv1Done
  <2>2. InPipe("s_return1", tag'[c], rtag'[c], xtag'[c]) /\ MissReg("s_return1", mshr'[c])
        /\ MissWay("s_return1", mshr'[c], oldaddr'[c], tag'[c])
        /\ CopyWay("s_return1", inv'[c], tag'[c])
    BY <1>2 DEF InPipe, MissReg, MissWay, CopyWay
  <2> QED BY <1>1, <1>2, <2>1, <2>2 DEF LocalInv
<1> QED BY <1>3, <1>4 DEF s_inv1

(* The tag writes around the copy of a dirty way. *)
LEMMA CopyLowers ==
    ASSUME NEW c, Regs(c), NEW w \in Ways, NEW s \in UnlockedStates, s <= T_STATE_EXCLUSIVE,
           tag[c].l1[w].addr \in Lines,
           cache_state_unlock(tag[c].l1[w].st) \in {T_STATE_EXCLUSIVE, T_STATE_MODIFIED},
           WriteL1(c, {w}, tag[c].l1[w].addr, s)
    PROVE  Lowers(tag'[c], tag[c])
<1>1. PICK u, t, e, a : u = tag'[c] /\ t = tag[c] /\ e = tag[c].l1[w] /\ a = tag[c].l1[w].addr
  OBVIOUS
<1>2. u.l2 = t.l2 /\ \A y \in Ways : u.l1[y] = IF y = w THEN MkEntry(a, s) ELSE t.l1[y]
  BY <1>1, L1Written
<1>3. \A l \in Lines, n \in Levels : Held(MkEntry(a, s), l, n) => Held(e, l, n)
  BY <1>1, MadeHeld, LevelNumbers, StateNumbers DEF Held, Levels, UnlockedStates
<1> QED BY <1>1, <1>2, <1>3 DEF Lowers

LEMMA CopySound ==
    ASSUME NEW c, Regs(c), LocalInv(c), Piped(c), NEW moves, s_inv2(c) \/ s_inv6(c, moves)
    PROVE  LocalInv(c)' /\ Gains(c)
<1> USE DEF PromoteStates, AskStates, FillStates, CopyStates, MissStates, RefillStates, InvStates
<1>0. st[c] \in {"s_inv2", "s_inv6"} /\ mshr' = mshr /\ inv' = inv
  BY DEF s_inv2, s_inv6, InvKeep
<1>1. PICK w, a : w = inv[c].way /\ a = tag[c].l1[w].addr
  OBVIOUS
<1>2. w \in Ways /\ a \in Lines
  BY <1>0, <1>1 DEF Regs, Fits
<1>3. /\ cache_state_unlock(tag[c].l1[w].st) \in {T_STATE_EXCLUSIVE, T_STATE_MODIFIED}
      /\ ~(mshr'[c].valid /\ mshr'[c].snooped) /\ ~bitmap[c]
  BY <1>0, <1>1 DEF LocalInv, CopyWay, MissReg
<1>4. CASE s_inv2(c)
  <2>1. run[c] = "off" /\ run' = run /\ bitmap' = bitmap
    BY <1>4 DEF s_inv2, InvKeep, LocalInv
  <2>2. st'[c] = "s_inv3" /\ WriteL1(c, {w}, a, T_STATE_EXCLUSIVE)
    BY <1>1, <1>4, <2>1, GoesTo DEF s_inv2
  <2>3. Lowers(tag'[c], tag[c])
    <3>1. T_STATE_EXCLUSIVE \in UnlockedStates /\ T_STATE_EXCLUSIVE <= T_STATE_EXCLUSIVE
      BY StateNumbers DEF UnlockedStates
    <3>2. WriteL1(c, {w}, tag[c].l1[w].addr, T_STATE_EXCLUSIVE) /\ tag[c].l1[w].addr \in Lines
      BY <1>1, <1>2, <2>2
    <3> QED BY <1>2, <1>3, <3>1, <3>2, CopyLowers
  <2>4. tag'[c].l1[w] = MkEntry(a, T_STATE_EXCLUSIVE)
    BY <1>2, <2>2, L1Written
  <2>5. cache_state_unlock(tag'[c].l1[w].st) = T_STATE_EXCLUSIVE
    BY <2>4, StateFacts DEF MkEntry
  <2>6. InPipe("s_inv3", tag'[c], rtag'[c], xtag'[c]) /\ MissReg("s_inv3", mshr'[c])
        /\ MissWay("s_inv3", mshr'[c], oldaddr'[c], tag'[c]) /\ CopyWay("s_inv3", inv'[c], tag'[c])
    BY <1>0, <1>1, <1>3, <2>5 DEF InPipe, MissReg, MissWay, CopyWay
  <2>7. /\ OneCopy(tag'[c])
        /\ Covered(tag'[c], rtag'[c], mshr'[c])
        /\ Covered(rtag'[c], xtag'[c], mshr'[c])
        /\ Gains(c)
    BY <1>0, <2>3, LowerSound
  <2> QED BY <1>3, <2>1, <2>2, <2>6, <2>7 DEF LocalInv
<1>5. CASE s_inv6(c, moves) /\ run[c] = "off"
  <2>1. run' = run /\ bitmap' = bitmap
    BY <1>5 DEF s_inv6
  <2>2. st'[c] = "s_inv7" /\ WriteL1(c, {w}, a, InvFinalState(c))
    BY <1>1, <1>5, GoesTo DEF s_inv6
  <2>3. Lowers(tag'[c], tag[c])
    <3>1. WriteL1(c, {w}, tag[c].l1[w].addr, InvFinalState(c)) /\ tag[c].l1[w].addr \in Lines
      BY <1>1, <1>2, <2>2
    <3> QED BY <1>2, <1>3, <3>1, CopyLowers, FinalStates
  <2>6. InPipe("s_inv7", tag'[c], rtag'[c], xtag'[c]) /\ MissReg("s_inv7", mshr'[c])
        /\ MissWay("s_inv7", mshr'[c], oldaddr'[c], tag'[c]) /\ CopyWay("s_inv7", inv'[c], tag'[c])
    BY <1>3 DEF InPipe, MissReg, MissWay, CopyWay
  <2>7. /\ OneCopy(tag'[c])
        /\ Covered(tag'[c], rtag'[c], mshr'[c])
        /\ Covered(rtag'[c], xtag'[c], mshr'[c])
        /\ Gains(c)
    BY <1>0, <2>3, LowerSound
  <2> QED BY <1>3, <1>5, <2>1, <2>2, <2>6, <2>7 DEF LocalInv
<1>6. CASE s_inv6(c, moves) /\ run[c] # "off"
  <2>1. st' = st /\ tag' = tag /\ oldaddr' = oldaddr /\ st[c] = "s_inv6"
    BY <1>6 DEF s_inv6
  <2>2. ~bitmap'[c]
    <3>1. bitmap' = [bitmap EXCEPT ![c] = @ \/ (moves /\ st[c] = "s_miss5")]
      BY <1>6 DEF s_inv6, TransferClock
    <3> QED BY <1>3, <2>1, <3>1 DEF Regs, CtlType
  <2>3. Follows(st[c], st'[c]) /\ st'[c] = "s_inv6"
    BY <2>1 DEF Follows
  <2> QED BY <1>0, <2>1, <2>2, <2>3, AdvanceSound
<1> QED BY <1>4, <1>5, <1>6

-----------------------------------------------------------------------------
(* The answer of the bus.  What the PARANOID checks of s_lsnoop_promote3 and *)
(* s_lsnoop_miss3 assert. *)
AnswerOK(c) ==
    /\ snp[c] = None /\ bus.ack
    /\ st[c] = "s_lsnoop_promote3" => ~bus.excl
    /\ ~bus.wait /\ mshr[c].min >= T_STATE_EXCLUSIVE => ~bus.share

LEMMA NoAnswerBug ==
    ASSUME NEW c, AnswerOK(c)
    PROVE  ~AnswerBug(c)
BY DEF AnswerOK, AnswerBug, Active, s_attn

LEMMA CommitSound ==
    ASSUME NEW c, Regs(c), LocalInv(c), Piped(c), AnswerOK(c), s_lsnoop_promote3(c)
    PROVE  LocalInv(c)' /\ Gains(c)
<1> USE DEF PromoteStates, AskStates, FillStates, CopyStates, MissStates, RefillStates, InvStates
<1>0. /\ st[c] = "s_lsnoop_promote3" /\ inv' = inv /\ oldaddr' = oldaddr /\ run' = run
      /\ bitmap' = bitmap
  BY DEF s_lsnoop_promote3
<1>1. PICK m, t : m = mshr[c] /\ t = tag[c]
  OBVIOUS
<1>2. m \in Mshr /\ t \in Tags /\ m.addr \in Lines /\ m.way \in Ways
  BY <1>0, <1>1 DEF Regs, Fits
<1>3. /\ m.valid /\ ~m.snooped /\ m.ins = 3 /\ m.min = 3 /\ OneCopy(t)
      /\ t.l1[m.way].addr = m.addr /\ cache_state_unlock(t.l1[m.way].st) = 1
  BY <1>0, <1>1, StateNumbers DEF LocalInv, MissReg, MissWay
<1>4. run'[c] = "off" /\ ~bitmap'[c]
  BY <1>0, <1>1, <1>3 DEF LocalInv
<1>5. ~(AnswerBug(c) \/ bus.excl) /\ (~bus.wait => ~bus.share)
  BY <1>0, <1>1, <1>3, NoAnswerBug, StateNumbers DEF AnswerOK
<1>6. CASE bus.wait
  <2>1. tag' = tag /\ mshr' = mshr /\ st' = [st EXCEPT ![c] = st[c]]
    BY <1>5, <1>6 DEF s_lsnoop_promote3, Goto
  <2>2. st'[c] = st[c]
    BY <2>1 DEF Regs, CtlType
  <2>3. Follows(st[c], st'[c])
    BY <1>0, <2>2 DEF Follows
  <2> QED BY <1>0, <1>4, <2>1, <2>3, AdvanceSound
<1>7. CASE ~bus.wait
  <2>1. /\ WriteL1(c, {mshr[c].way}, mshr[c].addr, mshr[c].min)
        /\ mshr' = [mshr EXCEPT ![c].snooped = TRUE]
        /\ st' = [st EXCEPT ![c] = "s_return1"]
    BY <1>5, <1>7 DEF s_lsnoop_promote3, Goto
  <2>2. st'[c] = "s_return1"
    BY <2>1 DEF Regs, CtlType
  <2>3. PICK m2, u : m2 = mshr'[c] /\ u = tag'[c]
    OBVIOUS
  <2>4. m2 = [m EXCEPT !.snooped = TRUE]
    BY <1>1, <2>1, <2>3 DEF Regs, CtlType
  <2>5. m2.valid /\ m2.snooped /\ m2.addr = m.addr /\ m2.ins = 3
    BY <1>2, <1>3, <2>4 DEF Mshr
  <2>6. /\ u.l2 = t.l2
        /\ \A w \in Ways : u.l1[w] = IF w = m.way THEN MkEntry(m.addr, 3) ELSE t.l1[w]
    BY <1>1, <1>3, <2>1, <2>3, L1Written
  <2>7. Held(t.l1[m.way], m.addr, T_STATE_SHARED)
    BY <1>3, StateNumbers DEF Held
  <2>8. /\ OneCopy(u)
        /\ \A k \in Lines, n \in Levels : Has(u, k, n) => Has(t, k, n) \/ (k = m.addr /\ 3 >= n)
    <3>1. 3 \in UnlockedStates
      BY DEF UnlockedStates
    <3> QED BY <1>2, <1>3, <2>6, <2>7, <3>1, PromotedTags
  <2>9. \A l \in Lines, n \in Levels : Won(m2, l, n) <=> l = m.addr
    BY <2>5, LevelNumbers DEF Won
  <2>10. Covered(u, t, m2)
    BY <2>8, <2>9 DEF Covered
  <2>11. \A l \in Lines, n \in Levels : Won(m2, l, n) => Wins(c, l, n)
    BY <1>0, <1>1, <1>3, <1>7, <2>9, StateNumbers DEF Wins, Answered
  <2>12. \A l \in Lines, n \in Levels : ~Won(m, l, n)
    BY <1>3 DEF Won
  <2>13. /\ OneCopy(tag'[c])
         /\ Covered(tag'[c], rtag'[c], mshr'[c])
         /\ Covered(rtag'[c], xtag'[c], mshr'[c])
         /\ Gains(c)
    <3>1. OneCopy(tag'[c]) /\ Covered(tag'[c], tag[c], mshr'[c])
      BY <1>1, <2>3, <2>8, <2>10
    <3> QED BY <1>1, <2>3, <2>11, <2>12, <3>1, PipeStep
  <2>14. /\ InPipe("s_return1", tag'[c], rtag'[c], xtag'[c]) /\ MissReg("s_return1", mshr'[c])
         /\ MissWay("s_return1", mshr'[c], oldaddr'[c], tag'[c])
         /\ CopyWay("s_return1", inv'[c], tag'[c])
    BY <2>3, <2>5, StateNumbers DEF InPipe, MissReg, MissWay, CopyWay
  <2> QED BY <1>4, <2>2, <2>13, <2>14 DEF LocalInv
<1> QED BY <1>6, <1>7

LEMMA AnswerSound ==
    ASSUME NEW c, Regs(c), LocalInv(c), Piped(c), AnswerOK(c), s_lsnoop_miss3(c)
    PROVE  LocalInv(c)' /\ Gains(c)
<1> USE DEF PromoteStates, AskStates, FillStates, CopyStates, MissStates, RefillStates, InvStates
<1>0. /\ st[c] = "s_lsnoop_miss3" /\ inv' = inv /\ oldaddr' = oldaddr /\ run' = run
      /\ bitmap' = bitmap /\ tag' = tag
  BY DEF s_lsnoop_miss3
<1>1. PICK m, t : m = mshr[c] /\ t = tag[c]
  OBVIOUS
<1>2. m \in Mshr /\ t \in Tags /\ m.addr \in Lines /\ m.way \in Ways
  BY <1>0, <1>1 DEF Regs, Fits
<1>3. /\ m.valid /\ ~m.snooped /\ m.ins = m.min /\ m.min \in {1, 3} /\ OneCopy(t)
      /\ MissWay("s_lsnoop_miss3", m, oldaddr[c], t)
  BY <1>0, <1>1, StateNumbers DEF LocalInv, MissReg
<1>4. run'[c] = "off" /\ ~bitmap'[c]
  BY <1>0, <1>1, <1>3 DEF LocalInv
<1>5. ~AnswerBug(c) /\ (~bus.wait => ~(m.ins >= T_STATE_EXCLUSIVE /\ bus.share))
  BY <1>0, <1>1, <1>3, NoAnswerBug, StateNumbers DEF AnswerOK
<1>6. CASE bus.wait
  <2>1. tag' = tag /\ mshr' = mshr /\ st' = [st EXCEPT ![c] = st[c]]
    BY <1>0, <1>5, <1>6 DEF s_lsnoop_miss3, Goto
  <2>2. st'[c] = st[c]
    BY <2>1 DEF Regs, CtlType
  <2>3. Follows(st[c], st'[c])
    BY <1>0, <2>2 DEF Follows
  <2> QED BY <1>0, <1>4, <2>1, <2>3, AdvanceSound
<1>7. CASE ~bus.wait
  <2>0. PICK ins : ins = IF AutoPromote(c) THEN T_STATE_EXCLUSIVE ELSE m.ins
    OBVIOUS
  <2>1. /\ mshr' = [mshr EXCEPT ![c].snooped = TRUE, ![c].ins = ins]
        /\ st' = [st EXCEPT ![c] = "s_miss2"]
    BY <1>1, <1>5, <1>7, <2>0 DEF s_lsnoop_miss3, Goto
  <2>2. st'[c] = "s_miss2"
    BY <2>1 DEF Regs, CtlType
  <2>3. PICK m2 : m2 = mshr'[c]
    OBVIOUS
  <2>4. m2 = [m EXCEPT !.snooped = TRUE, !.ins = ins]
    BY <1>1, <2>1, <2>3 DEF Regs, CtlType
  <2>5. /\ m2.valid /\ m2.snooped /\ m2.addr = m.addr /\ m2.ins = ins
        /\ m2.way = m.way /\ m2.old = m.old
    BY <1>2, <1>3, <2>4 DEF Mshr
  <2>6. ins # 0 /\ (ins >= 2 => m.min >= 2 \/ ~bus.share) /\ ins \in 0..3
    BY <1>1, <1>3, <2>0, StateNumbers DEF AutoPromote
  <2>7. ASSUME NEW l \in Lines, NEW n \in Levels, Won(m2, l, n) PROVE Wins(c, l, n)
    <3>1. l = m.addr /\ ins >= n
      BY <2>5, <2>7 DEF Won
    <3> QED BY <1>0, <1>1, <1>7, <2>6, <3>1, StateNumbers DEF Wins, Answered
  <2>8. \A l \in Lines, n \in Levels : ~Won(m, l, n)
    BY <1>3 DEF Won
  <2>13. /\ OneCopy(tag'[c])
         /\ Covered(tag'[c], rtag'[c], mshr'[c])
         /\ Covered(rtag'[c], xtag'[c], mshr'[c])
         /\ Gains(c)
    <3>1. OneCopy(tag'[c]) /\ Covered(tag'[c], tag[c], mshr'[c])
      BY <1>0, <1>1, <1>3 DEF Covered
    <3> QED BY <1>1, <2>3, <2>7, <2>8, <3>1, PipeStep
  <2>14. InPipe("s_miss2", tag'[c], rtag'[c], xtag'[c]) /\ CopyWay("s_miss2", inv'[c], tag'[c])
    BY DEF InPipe, CopyWay
  <2>15. MissReg("s_miss2", m2)
    BY <2>5, <2>6, StateNumbers DEF MissReg
  <2>16. MissWay("s_miss2", m2, oldaddr[c], t)
    BY <1>3, <2>5 DEF MissWay
  <2> QED BY <1>0, <1>1, <1>4, <2>2, <2>3, <2>13, <2>14, <2>15, <2>16 DEF LocalInv
<1> QED BY <1>6, <1>7

(* One clock of a controller, whatever its state. *)
LEMMA MachineSound ==
    ASSUME NEW c, Regs(c), LocalInv(c), Piped(c), Answered(c) => AnswerOK(c),
           NEW dk, NEW ik, NEW m_halt, NEW moves,
           StateMachine(c, dk, ik, m_halt, moves)
    PROVE  LocalInv(c)' /\ Gains(c)
<1>1. CASE \/ s_miss2(c) \/ s_miss3(c) \/ s_miss4(c, m_halt)
           \/ s_inv0(c) \/ s_inv3(c) \/ s_inv4(c) \/ s_inv5(c) \/ s_inv7(c) \/ s_return1(c)
  BY <1>1, DelaySound
<1>2. CASE \/ s_lsnoop_promote1(c) \/ s_lsnoop_promote2(c)
           \/ s_lsnoop_miss1(c) \/ s_lsnoop_miss2(c)
  BY <1>2, AskSound
<1>3. CASE s_lsnoop_promote3(c) \/ s_lsnoop_miss3(c)
  <2>1. AnswerOK(c)
    BY <1>3 DEF Answered, s_lsnoop_promote3, s_lsnoop_miss3
  <2> QED BY <1>3, <2>1, CommitSound, AnswerSound
<1>4. CASE s_idle(c, dk, ik) \/ s_return2(c) \/ s_miss1(c) \/ s_miss5(c, moves)
  BY <1>4, IdleSound, ReturnSound, Miss1Sound, FillSound
<1>5. CASE s_inv1(c) \/ s_inv2(c) \/ s_inv6(c, moves)
  BY <1>5, InvSound, CopySound
<1> QED BY <1>1, <1>2, <1>3, <1>4, <1>5 DEF StateMachine

-----------------------------------------------------------------------------
(* The request of an agent on the bus, and when it is there. *)
Req(c) == [addr |-> mshr[c].addr, excl |-> mshr[c].min >= T_STATE_EXCLUSIVE]

Asking(c) == st[c] \in {"s_lsnoop_promote2", "s_lsnoop_miss2"}

(* A request comes to the bus with the state that asks, and is answered from *)
(* the clock after the one in which everybody has taken it. *)
AskStep(c) ==
    /\ Asking(c)' =>
         /\ mshr'[c] = mshr[c]
         /\ drv'[c] = Req(c) \/ (Asking(c) /\ drv'[c] = drv[c])
    /\ Answered(c)' =>
         /\ mshr'[c] = mshr[c]
         /\ (Asking(c) /\ ~bus.wait) \/ (Answered(c) /\ bus.wait)

LEMMA Arbitrated ==
    ASSUME NEW c, Regs(c), LocalInv(c), s_lsnoop_promote1(c) \/ s_lsnoop_miss1(c)
    PROVE  AskStep(c)
<1>1. CASE LSnoopAbandon(c)
  <2>1. st'[c] = "s_inv0"
    BY <1>1, GoesTo DEF LSnoopAbandon, handle_s_attn
  <2> QED BY <2>1 DEF AskStep, Asking, Answered
<1>2. ASSUME NEW excl, NEW next, LSnoopArbitrate(c, excl, next),
             next \in {"s_lsnoop_promote2", "s_lsnoop_miss2"},
             excl = (mshr[c].min >= T_STATE_EXCLUSIVE),
             st[c] \in {"s_lsnoop_promote1", "s_lsnoop_miss1"}
      PROVE  AskStep(c)
  <2>1. mshr' = mshr
    BY <1>2 DEF LSnoopArbitrate
  <2>2. CASE MayDrive(c)
    <3>1. st'[c] = next /\ drv' = [drv EXCEPT ![c] = [addr |-> mshr[c].addr, excl |-> excl]]
      BY <1>2, <2>2, GoesTo DEF LSnoopArbitrate
    <3>2. drv'[c] = Req(c)
      BY <1>2, <3>1, L1Assumption DEF Req, Regs, BusTypeOK
    <3> QED BY <1>2, <2>1, <3>1, <3>2 DEF AskStep, Asking, Answered
  <2>3. CASE ~MayDrive(c)
    <3>1. st' = st
      BY <1>2, <2>3 DEF LSnoopArbitrate
    <3> QED BY <1>2, <3>1 DEF AskStep, Asking, Answered
  <2> QED BY <2>2, <2>3
<1>3. st[c] = "s_lsnoop_promote1" => mshr[c].min >= T_STATE_EXCLUSIVE
  BY StateNumbers DEF LocalInv, MissWay, PromoteStates
<1>4. CASE s_lsnoop_promote1(c)
  <2>1. st[c] = "s_lsnoop_promote1" /\ (LSnoopAbandon(c) \/ LSnoopArbitrate(c, TRUE, "s_lsnoop_promote2"))
    BY <1>4 DEF s_lsnoop_promote1
  <2>2. TRUE = (mshr[c].min >= T_STATE_EXCLUSIVE)
    BY <1>3, <2>1
  <2> QED BY <1>1, <1>2, <2>1, <2>2
<1>5. CASE s_lsnoop_miss1(c)
  BY <1>1, <1>2, <1>5 DEF s_lsnoop_miss1
<1> QED BY <1>4, <1>5

LEMMA Requested ==
    ASSUME NEW c, Regs(c),
           \/ s_lsnoop_promote2(c) \/ s_lsnoop_miss2(c)
           \/ s_lsnoop_promote3(c) \/ s_lsnoop_miss3(c)
    PROVE  AskStep(c)
<1> USE DEF Asking, Answered
<1>1. CASE LSnoopAbandon(c)
  <2>1. st'[c] = "s_inv0"
    BY <1>1, GoesTo DEF LSnoopAbandon, handle_s_attn
  <2> QED BY <2>1 DEF AskStep
<1>2. ASSUME NEW next, LSnoopRequest(c, next), Asking(c),
             next \in {"s_lsnoop_promote3", "s_lsnoop_miss3"}
      PROVE  AskStep(c)
  <2>1. mshr' = mshr /\ st'[c] = (IF bus.wait THEN st[c] ELSE next)
    BY <1>2, GoesTo DEF LSnoopRequest
  <2>2. bus.wait => drv'[c] = drv[c]
    BY <1>2, L1Assumption DEF LSnoopRequest, Release, Regs, BusTypeOK
  <2> QED BY <1>2, <2>1, <2>2 DEF AskStep
<1>3. CASE s_lsnoop_promote2(c) \/ s_lsnoop_miss2(c)
  BY <1>1, <1>2, <1>3 DEF s_lsnoop_promote2, s_lsnoop_miss2
<1>4. CASE s_lsnoop_promote3(c)
  <2>1. st[c] = "s_lsnoop_promote3"
    BY <1>4 DEF s_lsnoop_promote3
  <2>2. bus.wait => mshr' = mshr /\ st'[c] \in {"s_lsnoop_promote3", "s_bug"}
    BY <1>4, <2>1 DEF s_lsnoop_promote3, Goto, Regs, CtlType
  <2>3. ~bus.wait => st'[c] \in {"s_return1", "s_bug"}
    BY <1>4, <2>1 DEF s_lsnoop_promote3, Goto, Regs, CtlType
  <2> QED BY <2>1, <2>2, <2>3 DEF AskStep
<1>5. CASE s_lsnoop_miss3(c)
  <2>1. st[c] = "s_lsnoop_miss3"
    BY <1>5 DEF s_lsnoop_miss3
  <2>2. bus.wait => mshr' = mshr /\ st'[c] \in {"s_lsnoop_miss3", "s_bug"}
    BY <1>5, <2>1 DEF s_lsnoop_miss3, Goto, Regs, CtlType
  <2>3. ~bus.wait => st'[c] \in {"s_miss2", "s_bug"}
    BY <1>5, <2>1 DEF s_lsnoop_miss3, Goto, Regs, CtlType
  <2> QED BY <2>1, <2>2, <2>3 DEF AskStep
<1> QED BY <1>3, <1>4, <1>5

LEMMA Asked ==
    ASSUME NEW c, Regs(c), LocalInv(c), NEW dk, NEW ik, NEW m_halt, NEW moves,
           StateMachine(c, dk, ik, m_halt, moves)
    PROVE  AskStep(c)
<1>0. ASSUME ~Asking(c)', ~Answered(c)' PROVE AskStep(c)
  BY <1>0 DEF AskStep
<1>a. \A s : st'[c] = s /\ s \notin {"s_lsnoop_promote2", "s_lsnoop_miss2", "s_lsnoop_promote3", "s_lsnoop_miss3"}
        => ~Asking(c)' /\ ~Answered(c)'
  BY DEF Asking, Answered
<1>1. CASE s_idle(c, dk, ik)
  <2>1. st'[c] \in {"s_idle", "s_inv0", "s_inv1", "s_miss1"}
    BY <1>1, GoesTo DEF s_idle, IdleSnoop, IdleInv, IdleMiss, IdleStay, handle_s_attn
  <2> QED BY <1>0, <1>a, <2>1
<1>2. CASE s_miss1(c)
  <2>1. st'[c] \in {"s_inv1", "s_lsnoop_promote1", "s_return1", "s_miss2", "s_lsnoop_miss1", "s_bug"}
    BY <1>2, GoesTo DEF s_miss1, Miss1Cross, Miss1Promote, Miss1Unlock, Miss1Refill
  <2> QED BY <1>0, <1>a, <2>1
<1>3. CASE s_miss2(c) \/ s_miss3(c) \/ s_miss4(c, m_halt) \/ s_miss5(c, moves)
  <2>1. st'[c] \in {"s_miss3", "s_miss4", "s_miss5", "s_return1"}
    BY <1>3, GoesTo DEF s_miss2, s_miss3, s_miss4, s_miss5, Miss5Done
  <2> QED BY <1>0, <1>a, <2>1
<1>5. CASE s_lsnoop_promote1(c) \/ s_lsnoop_miss1(c)
  BY <1>5, Arbitrated
<1>6. CASE \/ s_lsnoop_promote2(c) \/ s_lsnoop_miss2(c)
           \/ s_lsnoop_promote3(c) \/ s_lsnoop_miss3(c)
  BY <1>6, Requested
<1>8. CASE s_inv0(c) \/ s_inv1(c) \/ s_inv2(c) \/ s_inv3(c) \/ s_inv4(c) \/ s_inv7(c)
  <2>1. st'[c] \in {"s_inv1", "s_inv2", "s_inv3", "s_inv4", "s_inv5", "s_return1", "s_bug"}
    BY <1>8, GoesTo DEF s_inv0, s_inv1, s_inv2, s_inv3, s_inv4, s_inv7, InvDelay,
                        trigger_writeback, Inv1Done
  <2> QED BY <1>0, <1>a, <2>1
<1>9. CASE s_inv5(c) \/ s_inv6(c, moves) \/ s_return1(c) \/ s_return2(c)
  <2>1. st'[c] \in {"s_inv5", "s_inv6", "s_inv7", "s_return2", "s_idle"}
    BY <1>9, GoesTo DEF s_inv5, s_inv6, s_return1, s_return2
  <2> QED BY <1>0, <1>a, <2>1
<1> QED BY <1>1, <1>2, <1>3, <1>5, <1>6, <1>8, <1>9 DEF StateMachine

-----------------------------------------------------------------------------
(* The processors on the bus.  In the round of a clock an agent is due until *)
(* it has taken its edge. *)
Due(a) == a >= turn

(* The request wires, the registers that sample them and the answers fit *)
(* together: a request that was on the bus in a clock without wait is in the *)
(* snoop register of every other agent, and of no other request is anybody *)
(* answering. *)
AsksDriven == \A a \in CPUs : Asking(a) => drv[a] = Req(a)

WireDriven == \A a \in CPUs : Due(a) /\ drv[a] # None => bus.r = drv[a]

WireSampled ==
    \A a, b \in CPUs :
        Due(a) /\ drv[a] # None /\ ~bus.wait /\ ~Due(b) => snp[b] = bus.r

OwnMasked == \A a \in CPUs : Answered(a) => snp[a] = None

Heard ==
    \A a, b \in CPUs : Answered(a) /\ a # b =>
        /\ (Due(a) <=> Due(b)) \/ bus.wait => snp[b] = Req(a)
        /\ ~Due(a) /\ Due(b) /\ ~bus.wait => bus.r = Req(a) /\ drv[b] = None

(* When the bus has stopped waiting, b has given up what a has asked for. *)
Cleared(a, b) ==
    /\ ~Sees(b, mshr[a].addr, T_STATE_EXCLUSIVE)
    /\ mshr[a].min >= T_STATE_EXCLUSIVE \/ ~bus.share => ~Sees(b, mshr[a].addr, T_STATE_SHARED)

Granted ==
    \A a \in CPUs : Answered(a) /\ Due(a) =>
        /\ AnswerOK(a)
        /\ ~bus.wait => \A b \in CPUs : a # b => Cleared(a, b)

OneWriter ==
    \A a, b \in CPUs, l \in Lines :
        a # b /\ Sees(a, l, T_STATE_EXCLUSIVE) => ~Sees(b, l, T_STATE_SHARED)

CohInv ==
    /\ TypeInv /\ DriveInv
    /\ \A c \in CPUs : LocalInv(c)
    /\ AsksDriven /\ WireDriven /\ WireSampled /\ OwnMasked /\ Heard /\ Granted
    /\ OneWriter

(* What the clock edge of processor c leaves alone, and what it does to the *)
(* bus registers. *)
Edge(c) ==
    /\ turn = c /\ turn' = turn + 1 /\ bus' = bus
    /\ \A b \in CPUs : b # c =>
         /\ st'[b] = st[b] /\ mshr'[b] = mshr[b] /\ inv'[b] = inv[b] /\ oldaddr'[b] = oldaddr[b]
         /\ tag'[b] = tag[b] /\ rtag'[b] = rtag[b] /\ xtag'[b] = xtag[b]
         /\ run'[b] = run[b] /\ bitmap'[b] = bitmap[b] /\ drv'[b] = drv[b] /\ snp'[b] = snp[b]
    /\ Piped(c) /\ AskStep(c)
    /\ snp'[c] = IF bus.wait THEN snp[c] ELSE IF drv[c] = None THEN bus.r ELSE None

LEMMA ClockEdge ==
    ASSUME TypeInv, NEW c \in CPUs, LocalInv(c), CPUClock(c)
    PROVE  Edge(c) /\ \E dk, ik, m_halt, moves : StateMachine(c, dk, ik, m_halt, moves)
<1>0. Regs(c)
  BY TypedRegs
<1>1. PICK m_halt \in HaltChoices(c), moves \in MoveChoices(c) : CPUClockWith(c, m_halt, moves)
  BY DEF CPUClock
<1>2. /\ turn = c /\ CPUEdge(c, m_halt, moves) /\ turn' = turn + 1 /\ bus' = bus
  BY <1>1 DEF CPUClockWith
<1>3. PICK dk, ik : StateMachine(c, dk, ik, m_halt, moves) /\ TagPipe(c) /\ SnoopPipe(c)
  BY <1>2 DEF CPUEdge
<1>4. moves \in BOOLEAN
  BY DEF MoveChoices
<1>5. ControllerMoves(c) /\ Moves(run, run', c, RunStates) /\ Moves(bitmap, bitmap', c, BOOLEAN)
  BY <1>0, <1>3, <1>4, MachineMoves, MachineRuns
<1>6. \A b \in CPUs : b # c =>
        /\ st'[b] = st[b] /\ mshr'[b] = mshr[b] /\ inv'[b] = inv[b] /\ oldaddr'[b] = oldaddr[b]
        /\ tag'[b] = tag[b]
  <2>1. /\ st \in [CPUs -> CCStates] /\ mshr \in [CPUs -> Mshr] /\ inv \in [CPUs -> InvReg]
        /\ oldaddr \in [CPUs -> Lines \union {None}] /\ tag \in [CPUs -> Tags]
    BY <1>0 DEF Regs, CtlType, TagType
  <2>2. \A b \in CPUs : b # c => st'[b] = st[b]
    BY <1>5, <2>1 DEF ControllerMoves, Moves
  <2>3. \A b \in CPUs : b # c => mshr'[b] = mshr[b]
    BY <1>5, <2>1 DEF ControllerMoves, Moves
  <2>4. \A b \in CPUs : b # c => inv'[b] = inv[b]
    BY <1>5, <2>1 DEF ControllerMoves, Moves
  <2>5. \A b \in CPUs : b # c => oldaddr'[b] = oldaddr[b]
    BY <1>5, <2>1 DEF ControllerMoves, Moves
  <2>6. \A b \in CPUs : b # c => tag'[b] = tag[b]
    BY <1>5, <2>1 DEF ControllerMoves, Moves
  <2> QED BY <2>2, <2>3, <2>4, <2>5, <2>6
<1>7. \A b \in CPUs : b # c => run'[b] = run[b] /\ bitmap'[b] = bitmap[b]
  BY <1>0, <1>5 DEF Regs, CtlType, Moves
<1>8. Piped(c) /\ \A b \in CPUs : b # c => rtag'[b] = rtag[b] /\ xtag'[b] = xtag[b]
  BY <1>0, <1>3 DEF TagPipe, Piped, Regs, TagType
<1>9. /\ snp'[c] = (IF bus.wait THEN snp[c] ELSE IF drv[c] = None THEN bus.r ELSE None)
      /\ \A b \in CPUs : b # c => snp'[b] = snp[b]
  BY <1>0, <1>3, L1Assumption DEF SnoopPipe, Regs, BusTypeOK
<1>10. \A b \in CPUs : b # c => drv'[b] = drv[b]
  <2>1. Keeps(c) \/ Takes(c)
    BY <1>3, ControllerDrive
  <2> QED BY <1>0, <2>1, L1Assumption DEF Keeps, Takes, Regs, BusTypeOK
<1>11. AskStep(c)
  BY <1>0, <1>3, Asked
<1> QED BY <1>2, <1>3, <1>6, <1>7, <1>8, <1>9, <1>10, <1>11 DEF Edge

LEMMA EdgeDue ==
    ASSUME NEW c \in CPUs, Edge(c)
    PROVE  Due(c) /\ \A a \in CPUs : Due(a)' <=> Due(a) /\ a # c
BY ArbitAssumption, L1Assumption DEF Edge, Due, Agents

(* The snoop answers of the other processors do not change at the edge. *)
LEMMA EdgeOthers ==
    ASSUME NEW c \in CPUs, Edge(c), NEW b \in CPUs, b # c
    PROVE  /\ LocalInv(b) => LocalInv(b)'
           /\ \A l, n : Sees(b, l, n)' <=> Sees(b, l, n)
           /\ Answered(b)' <=> Answered(b)
           /\ Asking(b)' <=> Asking(b)
           /\ Req(b)' = Req(b)
           /\ AnswerOK(b)' <=> AnswerOK(b)
<1>1. /\ st'[b] = st[b] /\ mshr'[b] = mshr[b] /\ inv'[b] = inv[b] /\ oldaddr'[b] = oldaddr[b]
      /\ tag'[b] = tag[b] /\ rtag'[b] = rtag[b] /\ xtag'[b] = xtag[b]
      /\ run'[b] = run[b] /\ bitmap'[b] = bitmap[b] /\ drv'[b] = drv[b] /\ snp'[b] = snp[b]
      /\ bus' = bus
  BY DEF Edge
<1>2. LocalInv(b) => LocalInv(b)'
  BY <1>1 DEF LocalInv
<1>3. \A l, n : Sees(b, l, n)' <=> Sees(b, l, n)
  BY <1>1 DEF Sees
<1>4. (Answered(b)' <=> Answered(b)) /\ (Asking(b)' <=> Asking(b)) /\ Req(b)' = Req(b)
  BY <1>1 DEF Answered, Asking, Req
<1>5. AnswerOK(b)' <=> AnswerOK(b)
  BY <1>1 DEF AnswerOK
<1> QED BY <1>2, <1>3, <1>4, <1>5

LEMMA EdgeLocal ==
    ASSUME CohInv, NEW c \in CPUs, CPUClock(c)
    PROVE  Edge(c) /\ LocalInv(c)' /\ Gains(c) /\ Regs(c)
<1>1. Regs(c) /\ LocalInv(c)
  BY TypedRegs DEF CohInv
<1>2. PICK dk, ik, m_halt, moves : Edge(c) /\ StateMachine(c, dk, ik, m_halt, moves)
  BY <1>1, ClockEdge DEF CohInv
<1>3. Answered(c) => AnswerOK(c)
  BY <1>2, EdgeDue DEF CohInv, Granted
<1> QED BY <1>1, <1>2, <1>3, MachineSound DEF Edge

LEMMA DriveIsRequest ==
    ASSUME NEW c \in CPUs, Regs(c), Asking(c) \/ Answered(c)
    PROVE  Req(c) \in Request /\ Req(c) # None
<1>1. mshr[c].addr \in Lines
  BY DEF Regs, Fits, Asking, Answered, MissStates, RefillStates
<1>2. Req(c) \in Request
  BY <1>1 DEF Req, Request
<1> QED BY <1>2, RequestAssumption

LEMMA EdgeBus ==
    ASSUME CohInv, NEW c \in CPUs, Edge(c), Regs(c)
    PROVE  AsksDriven' /\ WireDriven' /\ WireSampled' /\ OwnMasked'
<1>0. Due(c) /\ \A a \in CPUs : Due(a)' <=> Due(a) /\ a # c
  BY EdgeDue
<1>1. bus' = bus /\ AskStep(c) /\ \A b \in CPUs : b # c => drv'[b] = drv[b] /\ snp'[b] = snp[b]
  BY DEF Edge
<1>2. \A b \in CPUs : b # c => /\ (Answered(b)' <=> Answered(b)) /\ (Asking(b)' <=> Asking(b))
                               /\ Req(b)' = Req(b)
  BY EdgeOthers
<1>3. snp'[c] = IF bus.wait THEN snp[c] ELSE IF drv[c] = None THEN bus.r ELSE None
  BY DEF Edge
<1>4. AsksDriven'
  <2>1. ASSUME Asking(c)' PROVE drv'[c] = Req(c)'
    <3>1. mshr'[c] = mshr[c] /\ (drv'[c] = Req(c) \/ (Asking(c) /\ drv'[c] = drv[c]))
      BY <1>1, <2>1 DEF AskStep
    <3>2. Req(c)' = Req(c)
      BY <3>1 DEF Req
    <3> QED BY <3>1, <3>2 DEF CohInv, AsksDriven
  <2> QED BY <1>1, <1>2, <2>1 DEF CohInv, AsksDriven
<1>5. WireDriven'
  BY <1>0, <1>1 DEF CohInv, WireDriven
<1>6. WireSampled'
  <2> SUFFICES ASSUME NEW a \in CPUs, NEW b \in CPUs, Due(a)', drv'[a] # None, ~bus.wait, ~Due(b)'
               PROVE  snp'[b] = bus.r
    BY <1>1 DEF WireSampled
  <2>1. Due(a) /\ a # c /\ drv[a] # None
    BY <1>0, <1>1
  <2>2. CASE b = c
    <3>1. a \in {k \in Agents : k >= turn} /\ c \in {k \in Agents : k >= turn}
      BY <1>0, <2>1, L1Assumption DEF Due
    <3>2. drv[c] = None
      BY <2>1, <3>1 DEF CohInv, DriveInv, AtMostOne
    <3> QED BY <1>3, <2>2, <3>2
  <2>3. CASE b # c
    BY <1>0, <1>1, <2>1, <2>3 DEF CohInv, WireSampled
  <2> QED BY <2>2, <2>3
<1>7. OwnMasked'
  <2>1. ASSUME Answered(c)' PROVE snp'[c] = None
    <3>1. (Asking(c) /\ ~bus.wait) \/ (Answered(c) /\ bus.wait)
      BY <1>1, <2>1 DEF AskStep
    <3>2. CASE Asking(c) /\ ~bus.wait
      <4>1. drv[c] = Req(c)
        BY <3>2 DEF CohInv, AsksDriven
      <4>2. drv[c] # None
        BY <3>2, <4>1, DriveIsRequest
      <4> QED BY <1>3, <3>2, <4>2
    <3>3. CASE Answered(c) /\ bus.wait
      BY <1>3, <3>3 DEF CohInv, OwnMasked
    <3> QED BY <3>1, <3>2, <3>3
  <2> QED BY <1>1, <1>2, <2>1 DEF CohInv, OwnMasked
<1> QED BY <1>4, <1>5, <1>6, <1>7

LEMMA EdgeHeard ==
    ASSUME CohInv, NEW c \in CPUs, Edge(c), Regs(c)
    PROVE  Heard'
<1>0. Due(c) /\ \A a \in CPUs : Due(a)' <=> Due(a) /\ a # c
  BY EdgeDue
<1>1. bus' = bus /\ AskStep(c) /\ \A b \in CPUs : b # c => drv'[b] = drv[b] /\ snp'[b] = snp[b]
  BY DEF Edge
<1>2. \A b \in CPUs : b # c => (Answered(b)' <=> Answered(b)) /\ Req(b)' = Req(b)
  BY EdgeOthers
<1>3. snp'[c] = IF bus.wait THEN snp[c] ELSE IF drv[c] = None THEN bus.r ELSE None
  BY DEF Edge
<1> SUFFICES ASSUME NEW a \in CPUs, NEW b \in CPUs, Answered(a)', a # b
             PROVE  /\ (Due(a)' <=> Due(b)') \/ bus.wait => snp'[b] = Req(a)'
                    /\ ~Due(a)' /\ Due(b)' /\ ~bus.wait => bus.r = Req(a)' /\ drv'[b] = None
  BY <1>1 DEF Heard
<1>4. CASE a = c
  <2>1. mshr'[c] = mshr[c] /\ ((Asking(c) /\ ~bus.wait) \/ (Answered(c) /\ bus.wait))
    BY <1>1, <1>4 DEF AskStep
  <2>2. Req(c)' = Req(c)
    BY <2>1 DEF Req
  <2>3. CASE Asking(c) /\ ~bus.wait
    <3>1. drv[c] = Req(c) /\ drv[c] # None
      <4>1. drv[c] = Req(c)
        BY <2>3 DEF CohInv, AsksDriven
      <4> QED BY <4>1, <2>3, DriveIsRequest
    <3>2. bus.r = Req(c)
      BY <1>0, <3>1 DEF CohInv, WireDriven
    <3>3. ~Due(b) => snp[b] = bus.r
      BY <1>0, <2>3, <3>1 DEF CohInv, WireSampled
    <3>4. Due(b) => drv[b] = None
      <4>1. ASSUME Due(b) PROVE b \in {k \in Agents : k >= turn} /\ c \in {k \in Agents : k >= turn}
        BY <1>0, <4>1, L1Assumption DEF Due
      <4> QED BY <1>4, <2>3, <3>1, <4>1 DEF CohInv, DriveInv, AtMostOne
    <3> QED BY <1>0, <1>1, <1>4, <2>2, <2>3, <3>2, <3>3, <3>4
  <2>4. CASE Answered(c) /\ bus.wait
    BY <1>0, <1>1, <1>4, <2>2, <2>4 DEF CohInv, Heard
  <2> QED BY <2>1, <2>3, <2>4
<1>5. CASE b = c
  <2>1. Answered(a) /\ Req(a)' = Req(a) /\ a # c
    BY <1>2, <1>5
  <2>2. CASE bus.wait
    BY <1>0, <1>3, <1>5, <2>1, <2>2 DEF CohInv, Heard
  <2>3. CASE ~bus.wait /\ ~Due(a)
    <3>1. bus.r = Req(a) /\ drv[c] = None
      BY <1>0, <1>5, <2>1, <2>3 DEF CohInv, Heard
    <3> QED BY <1>0, <1>3, <1>5, <2>1, <2>3, <3>1
  <2>4. CASE ~bus.wait /\ Due(a)
    BY <1>0, <1>5, <2>1, <2>4
  <2> QED BY <2>2, <2>3, <2>4
<1>6. CASE a # c /\ b # c
  BY <1>0, <1>1, <1>2, <1>6 DEF CohInv, Heard
<1> QED BY <1>4, <1>5, <1>6

(* Two requests are never answered at the same time. *)
LEMMA EdgeGranted ==
    ASSUME CohInv, NEW c \in CPUs, Edge(c), Gains(c)
    PROVE  Granted'
<1>0. Due(c) /\ \A a \in CPUs : Due(a)' <=> Due(a) /\ a # c
  BY EdgeDue
<1>1. bus' = bus
  BY DEF Edge
<1> SUFFICES ASSUME NEW a \in CPUs, Answered(a)', Due(a)'
             PROVE  AnswerOK(a)' /\ (~bus.wait => \A b \in CPUs : a # b => Cleared(a, b)')
  BY <1>1 DEF Granted
<1>2. a # c /\ Due(a)
  BY <1>0
<1>3. /\ Answered(a) /\ (AnswerOK(a)' <=> AnswerOK(a)) /\ Req(a)' = Req(a) /\ mshr'[a] = mshr[a]
  BY <1>2, EdgeOthers DEF Edge
<1>4. AnswerOK(a) /\ (~bus.wait => \A b \in CPUs : a # b => Cleared(a, b))
  BY <1>2, <1>3 DEF CohInv, Granted
<1>5. ~Answered(c)
  <2>1. snp[c] = Req(a) /\ Req(a) # None
    <3>1. snp[c] = Req(a)
      BY <1>0, <1>2, <1>3 DEF CohInv, Heard
    <3> QED BY <1>3, <3>1, DriveIsRequest, TypedRegs DEF CohInv
  <2> QED BY <2>1 DEF CohInv, OwnMasked
<1>6. PICK l : l = mshr[a].addr
  OBVIOUS
<1>7. l \in Lines
  BY <1>3, <1>6, TypedRegs DEF CohInv, Regs, Fits, Answered, MissStates, RefillStates
<1>8. \A b \in CPUs, n \in Levels : Sees(b, l, n)' => Sees(b, l, n)
  <2> SUFFICES ASSUME NEW b \in CPUs, NEW n \in Levels, Sees(b, l, n)' PROVE Sees(b, l, n)
    OBVIOUS
  <2>1. CASE b = c
    <3>1. Sees(c, l, n) \/ Wins(c, l, n)
      BY <1>7, <2>1 DEF Gains
    <3> QED BY <1>5, <2>1, <3>1 DEF Wins
  <2>2. CASE b # c
    BY <2>2, EdgeOthers
  <2> QED BY <2>1, <2>2
<1>9. ASSUME NEW b \in CPUs, a # b, ~bus.wait PROVE Cleared(a, b)'
  <2>1. Cleared(a, b)
    BY <1>4, <1>9
  <2>2. /\ ~Sees(b, l, T_STATE_EXCLUSIVE)'
        /\ mshr[a].min >= T_STATE_EXCLUSIVE \/ ~bus.share => ~Sees(b, l, T_STATE_SHARED)'
    BY <1>6, <1>8, <2>1, LevelNumbers DEF Cleared
  <2> QED BY <1>1, <1>3, <1>6, <2>2 DEF Cleared
<1> QED BY <1>3, <1>4, <1>9

LEMMA EdgeWriter ==
    ASSUME CohInv, NEW c \in CPUs, Edge(c), Gains(c)
    PROVE  OneWriter'
<1> SUFFICES ASSUME NEW a \in CPUs, NEW b \in CPUs, NEW l \in Lines, a # b,
                    Sees(a, l, T_STATE_EXCLUSIVE)', Sees(b, l, T_STATE_SHARED)'
             PROVE  FALSE
  BY DEF OneWriter
<1>0. \A k \in CPUs : k # c => \A n : Sees(k, l, n)' <=> Sees(k, l, n)
  BY EdgeOthers
<1>1. \A n \in Levels : Sees(c, l, n)' => Sees(c, l, n) \/ Wins(c, l, n)
  BY DEF Gains
<1>2. \A n \in Levels : Wins(c, l, n) => Answered(c) /\ Due(c) /\ ~bus.wait /\ l = mshr[c].addr
  BY EdgeDue DEF Wins
<1>3. \A n \in Levels, k \in CPUs : Wins(c, l, n) /\ k # c => Cleared(c, k)
  BY <1>2 DEF CohInv, Granted
<1>4. CASE a = c
  <2>1. Sees(b, l, T_STATE_SHARED) /\ ~Sees(c, l, T_STATE_EXCLUSIVE)
    BY <1>0, <1>4 DEF CohInv, OneWriter
  <2>2. Wins(c, l, T_STATE_EXCLUSIVE)
    BY <1>1, <1>4, <2>1, LevelNumbers
  <2>3. Cleared(c, b) /\ l = mshr[c].addr
        /\ (mshr[c].min >= T_STATE_EXCLUSIVE \/ ~bus.share)
    BY <1>2, <1>3, <1>4, <2>2, LevelNumbers DEF Wins
  <2> QED BY <2>1, <2>3 DEF Cleared
<1>5. CASE b = c
  <2>1. Sees(a, l, T_STATE_EXCLUSIVE) /\ ~Sees(c, l, T_STATE_SHARED)
    BY <1>0, <1>5 DEF CohInv, OneWriter
  <2>2. Wins(c, l, T_STATE_SHARED)
    BY <1>1, <1>5, <2>1, LevelNumbers
  <2>3. Cleared(c, a) /\ l = mshr[c].addr
    BY <1>2, <1>3, <1>5, <2>2, LevelNumbers
  <2> QED BY <2>1, <2>3 DEF Cleared
<1>6. CASE a # c /\ b # c
  BY <1>0, <1>6 DEF CohInv, OneWriter
<1> QED BY <1>4, <1>5, <1>6

LEMMA EdgeKeepsCohInv ==
    ASSUME CohInv, NEW c \in CPUs, CPUClock(c)
    PROVE  CohInv'
<1>1. Edge(c) /\ LocalInv(c)' /\ Gains(c) /\ Regs(c)
  BY EdgeLocal
<1>2. TypeInv'
  BY CPUTypes DEF CohInv
<1>3. DriveInv'
  <2>1. PICK m_halt, moves : CPUClockWith(c, m_halt, moves)
    BY DEF CPUClock
  <2>2. Keeps(c) \/ Takes(c)
    BY <2>1, ControllerDrive DEF CPUClockWith, CPUEdge
  <2> QED BY <1>1, <2>2, EdgeKeepsDriveInv, L1Assumption DEF CohInv, Edge
<1>4. \A b \in CPUs : LocalInv(b)'
  BY <1>1, EdgeOthers DEF CohInv
<1>5. AsksDriven' /\ WireDriven' /\ WireSampled' /\ OwnMasked'
  BY <1>1, EdgeBus
<1>6. Heard' /\ Granted' /\ OneWriter'
  BY <1>1, EdgeHeard, EdgeGranted, EdgeWriter
<1> QED BY <1>2, <1>3, <1>4, <1>5, <1>6 DEF CohInv

-----------------------------------------------------------------------------
(* The wires of the next clock. *)
LEMMA MatchSees ==
    ASSUME NEW c, Regs(c), LocalInv(c), NEW l \in Lines
    PROVE  /\ MatchStates(c, l) # {} <=> Sees(c, l, T_STATE_SHARED)
           /\ (\E s \in MatchStates(c, l) : cache_state_unlock(s) >= T_STATE_EXCLUSIVE)
                <=> Sees(c, l, T_STATE_EXCLUSIVE)
<1>1. PICK x, m : x = xtag[c] /\ m = mshr[c]
  OBVIOUS
<1>2. x \in Tags /\ m \in Mshr /\ (m.valid /\ m.snooped => m.ins # T_STATE_INVALID)
  BY <1>1 DEF Regs, LocalInv, MissReg
<1>3. /\ \A w \in Ways : x.l1[w] \in L1Entry
      /\ HasL2 => x.l2[L2Set[l]] \in L1Entry
  BY <1>2, SetOfLine DEF Tags, L2Slot
<1>4. \A w \in Ways : Holds(x.l1[w], l) <=> Held(x.l1[w], l, T_STATE_SHARED)
  BY <1>3, HoldsHeld
<1>5. HasL2 => (Holds(x.l2[L2Set[l]], l) <=> Held(x.l2[L2Set[l]], l, T_STATE_SHARED))
  BY <1>3, HoldsHeld
<1>6. \A s : s \in MatchStates(c, l) <=>
        \/ \E w \in Ways : Held(x.l1[w], l, T_STATE_SHARED) /\ s = x.l1[w].st
        \/ HasL2 /\ Held(x.l2[L2Set[l]], l, T_STATE_SHARED) /\ s = x.l2[L2Set[l]].st
        \/ m.valid /\ m.snooped /\ m.addr = l /\ s = m.ins
  BY <1>1, <1>4, <1>5 DEF MatchStates, TagWays
<1>7. m.ins \in UnlockedStates /\ cache_state_unlock(m.ins) = m.ins
  BY <1>2, StateFacts DEF Mshr
<1>8. MatchStates(c, l) # {} <=> Sees(c, l, T_STATE_SHARED)
  <2>1. Won(m, l, T_STATE_SHARED) <=> m.valid /\ m.snooped /\ m.addr = l
    BY <1>2, <1>7, StateNumbers DEF Won, UnlockedStates
  <2> QED BY <1>1, <1>6, <2>1 DEF Sees, Has
<1>9. \A e : Held(e, l, T_STATE_EXCLUSIVE)
              <=> e.addr = l /\ cache_state_unlock(e.st) >= T_STATE_EXCLUSIVE
  BY DEF Held
<1>10. \A e \in L1Entry : Held(e, l, T_STATE_EXCLUSIVE)
              <=> Held(e, l, T_STATE_SHARED) /\ cache_state_unlock(e.st) >= T_STATE_EXCLUSIVE
  BY <1>9, HeldLower, StateNumbers DEF Held
<1>11. (\E s \in MatchStates(c, l) : cache_state_unlock(s) >= T_STATE_EXCLUSIVE)
                <=> Sees(c, l, T_STATE_EXCLUSIVE)
  <2>1. Won(m, l, T_STATE_EXCLUSIVE) <=> m.valid /\ m.snooped /\ m.addr = l
                                         /\ cache_state_unlock(m.ins) >= T_STATE_EXCLUSIVE
    BY <1>7 DEF Won
  <2>2. (\E w \in Ways : Held(x.l1[w], l, T_STATE_EXCLUSIVE))
          <=> \E w \in Ways : Held(x.l1[w], l, T_STATE_SHARED)
                              /\ cache_state_unlock(x.l1[w].st) >= T_STATE_EXCLUSIVE
    BY <1>3, <1>10
  <2>3. HasL2 => (Held(x.l2[L2Set[l]], l, T_STATE_EXCLUSIVE)
          <=> Held(x.l2[L2Set[l]], l, T_STATE_SHARED)
              /\ cache_state_unlock(x.l2[L2Set[l]].st) >= T_STATE_EXCLUSIVE)
    BY <1>3, <1>10
  <2> QED BY <1>1, <1>6, <2>1, <2>2, <2>3 DEF Sees, Has
<1> QED BY <1>8, <1>11

LEMMA WiresSettle ==
    ASSUME Settle, DMAs = {}
    PROVE  /\ turn = NAGENTS /\ turn' = 0
           /\ UNCHANGED <<breq, drv, snp, st, inv, run, oldaddr, tag, rtag, xtag, mshr, bitmap>>
           /\ bus'.wait <=> \E c \in CPUs : CCWait(c)
           /\ bus'.ack <=> \E c \in CPUs : Active(c)
           /\ bus'.share <=> \E c \in CPUs : CCShare(c)
           /\ bus'.excl <=> \E c \in CPUs : CCExcl(c)
           /\ bus'.r = RequestWire
<1>1. /\ turn = NAGENTS /\ turn' = 0 /\ bus' = BusWires'
      /\ UNCHANGED <<breq, drv, snp, st, inv, run, oldaddr, tag, rtag, xtag, mshr, bitmap, fifo>>
  BY DEF Settle, busVars, ccVars, l1Vars, ctlVars, dataVars
<1>2. \A c \in CPUs : \A l : MatchStates(c, l)' = MatchStates(c, l)
  BY <1>1 DEF MatchStates, TagWays
<1>3. \A c \in CPUs : /\ Active(c)' <=> Active(c)
                      /\ s_match(c)' <=> s_match(c)
                      /\ s_match_excl(c)' <=> s_match_excl(c)
                      /\ s_fifowait(c)' <=> s_fifowait(c)
  BY <1>1, <1>2 DEF Active, s_match, s_match_excl, s_fifowait
<1>4. \A c \in CPUs : s_attn(c)' <=> s_attn(c)
  BY <1>1, <1>3 DEF s_attn
<1>5. \A c \in CPUs : /\ CCWait(c)' <=> CCWait(c)
                      /\ CCShare(c)' <=> CCShare(c)
                      /\ CCExcl(c)' <=> CCExcl(c)
  BY <1>3, <1>4 DEF CCWait, CCShare, CCExcl
<1>6. RequestWire' = RequestWire
  BY <1>1 DEF RequestWire, Drivers
<1>7. Agents = CPUs
  BY SMPAssumption
<1>8. /\ bus'.wait = ((\E c \in CPUs : CCWait(c)') \/ (\E d \in DMAs : DMAWait(d)'))
      /\ bus'.ack = (\E a \in Agents : Active(a)')
      /\ bus'.share = ((\E c \in CPUs : CCShare(c)') \/ (\E d \in DMAs : DMAShare(d)'))
      /\ bus'.excl = ((\E c \in CPUs : CCExcl(c)') \/ (\E d \in DMAs : DMAExcl(d)'))
      /\ bus'.r = RequestWire'
  BY <1>1 DEF BusWires
<1> QED BY <1>1, <1>3, <1>5, <1>6, <1>7, <1>8

(* Nobody waits any more: every other agent has given the line up. *)
LEMMA SettleGranted ==
    ASSUME CohInv, Settle, DMAs = {}, NAGENTS >= 2, NEW a \in CPUs, Answered(a)
    PROVE  AnswerOK(a)' /\ (~bus'.wait => \A b \in CPUs : a # b => Cleared(a, b)')
<1>0. /\ turn = NAGENTS
      /\ UNCHANGED <<drv, snp, st, tag, rtag, xtag, mshr>>
      /\ bus'.wait <=> \E c \in CPUs : CCWait(c)
      /\ bus'.ack <=> \E c \in CPUs : Active(c)
      /\ bus'.share <=> \E c \in CPUs : CCShare(c)
      /\ bus'.excl <=> \E c \in CPUs : CCExcl(c)
  BY WiresSettle
<1>1. \A b \in CPUs : ~Due(b)
  BY <1>0, ArbitAssumption, L1Assumption DEF Due, Agents
<1>2. snp[a] = None /\ \A b \in CPUs : b # a => snp[b] = Req(a)
  BY <1>1 DEF CohInv, OwnMasked, Heard
<1>3. Req(a) # None
  BY DriveIsRequest, TypedRegs DEF CohInv
<1>4. PICK l, x : l = mshr[a].addr /\ x = (mshr[a].min >= T_STATE_EXCLUSIVE)
  OBVIOUS
<1>5. l \in Lines /\ Req(a).addr = l /\ Req(a).excl = x
  BY <1>4, TypedRegs DEF CohInv, Regs, Fits, Answered, MissStates, RefillStates, Req
<1>6. \A b \in CPUs : Active(b) <=> b # a
  BY <1>2, <1>3 DEF Active
<1>7. \A b \in CPUs : b # a =>
        /\ s_match(b) <=> Sees(b, l, T_STATE_SHARED)
        /\ s_match_excl(b) <=> Sees(b, l, T_STATE_EXCLUSIVE)
  <2> SUFFICES ASSUME NEW b \in CPUs, b # a
               PROVE  /\ s_match(b) <=> Sees(b, l, T_STATE_SHARED)
                      /\ s_match_excl(b) <=> Sees(b, l, T_STATE_EXCLUSIVE)
    OBVIOUS
  <2>1. snp[b].addr = l
    BY <1>2, <1>5
  <2>2. Regs(b) /\ LocalInv(b)
    BY TypedRegs DEF CohInv
  <2>3. \A s : cache_state_test_at_least(s, T_STATE_EXCLUSIVE)
               <=> cache_state_unlock(s) >= T_STATE_EXCLUSIVE
    BY StateFacts DEF cache_state_test_at_least
  <2> QED BY <1>5, <2>1, <2>2, <2>3, MatchSees DEF s_match, s_match_excl
<1>8. bus'.ack
  <2>1. PICK b \in Agents : b # a
    <3>1. 0 \in Agents /\ 1 \in Agents
      BY ArbitAssumption DEF Agents
    <3> QED BY <3>1
  <2> QED BY <1>0, <1>6, <2>1, SMPAssumption
<1>9. st[a] = "s_lsnoop_promote3" => ~bus'.excl
  <2> SUFFICES ASSUME st[a] = "s_lsnoop_promote3", NEW b \in CPUs, CCExcl(b) PROVE FALSE
    BY <1>0
  <2>1. b # a /\ Sees(b, l, T_STATE_EXCLUSIVE)
    BY <1>6, <1>7 DEF CCExcl
  <2>2. LocalInv(a) /\ Regs(a)
    BY TypedRegs DEF CohInv
  <2>3. PICK t, m : t = tag[a] /\ m = mshr[a]
    OBVIOUS
  <2>4. /\ xtag[a] = t /\ t.l1[m.way].addr = m.addr
        /\ cache_state_unlock(t.l1[m.way].st) = T_STATE_SHARED /\ m.way \in Ways
    BY <2>2, <2>3 DEF LocalInv, InPipe, MissWay, MissStates, PromoteStates, Regs, Fits
  <2>5. Held(t.l1[m.way], l, T_STATE_SHARED)
    BY <1>4, <2>3, <2>4, StateNumbers DEF Held
  <2>6. Sees(a, l, T_STATE_SHARED)
    BY <2>4, <2>5 DEF Sees, Has
  <2> QED BY <1>5, <2>1, <2>6 DEF CohInv, OneWriter
<1>10. ASSUME ~bus'.wait, NEW b \in CPUs, b # a
       PROVE  ~Sees(b, l, T_STATE_EXCLUSIVE) /\ (x => ~Sees(b, l, T_STATE_SHARED))
  <2>1. ~s_attn(b)
    BY <1>0, <1>6, <1>10 DEF CCWait
  <2>2. snp[b].excl = x
    BY <1>2, <1>5, <1>10
  <2>3. s_match_excl(b) => s_match(b)
    BY DEF s_match_excl, s_match
  <2> QED BY <1>6, <1>7, <1>10, <2>1, <2>2, <2>3 DEF s_attn
<1>11. \A b \in CPUs : b # a /\ Sees(b, l, T_STATE_SHARED) => bus'.share
  BY <1>0, <1>6, <1>7 DEF CCShare
<1>12. bus'.share => \E b \in CPUs : b # a /\ Sees(b, l, T_STATE_SHARED)
  BY <1>0, <1>6, <1>7 DEF CCShare
<1>13. AnswerOK(a)'
  BY <1>0, <1>2, <1>4, <1>8, <1>9, <1>10, <1>12 DEF AnswerOK
<1>14. ASSUME ~bus'.wait, NEW b \in CPUs, a # b PROVE Cleared(a, b)'
  <2>1. \A n : Sees(b, l, n)' <=> Sees(b, l, n)
    BY <1>0 DEF Sees
  <2> QED BY <1>0, <1>4, <1>10, <1>11, <1>14, <2>1 DEF Cleared
<1> QED BY <1>13, <1>14

LEMMA SameLocal ==
    ASSUME NEW c, UNCHANGED <<st, inv, run, oldaddr, tag, rtag, xtag, mshr, bitmap>>
    PROVE  LocalInv(c)' <=> LocalInv(c)
BY DEF LocalInv

LEMMA SettleKeepsCohInv ==
    ASSUME CohInv, Settle, DMAs = {}, NAGENTS >= 2
    PROVE  CohInv'
<1>0. /\ turn = NAGENTS /\ turn' = 0
      /\ UNCHANGED <<breq, drv, snp, st, inv, run, oldaddr, tag, rtag, xtag, mshr, bitmap>>
      /\ bus'.r = RequestWire
  BY WiresSettle
<1>1. \A a \in CPUs : ~Due(a) /\ Due(a)'
  BY <1>0, ArbitAssumption, L1Assumption DEF Due, Agents
<1>2. TypeInv' /\ DriveInv'
  BY SettleTypes, SettleKeepsDriveInv DEF CohInv
<1>3. \A c \in CPUs : LocalInv(c)'
  BY <1>0, SameLocal DEF CohInv
<1>4. \A a \in CPUs : (Asking(a)' <=> Asking(a)) /\ (Answered(a)' <=> Answered(a)) /\ Req(a)' = Req(a)
  BY <1>0 DEF Asking, Answered, Req
<1>5. AsksDriven' /\ OwnMasked'
  BY <1>0, <1>4 DEF CohInv, AsksDriven, OwnMasked
<1>6. WireDriven'
  <2> SUFFICES ASSUME NEW a \in CPUs, drv[a] # None PROVE bus'.r = drv[a]
    BY <1>0 DEF WireDriven
  <2>1. AtMostOne(Agents)
    <3>1. DriveInv' /\ \A b \in Agents : b >= turn'
      BY <1>0, <1>2, ArbitAssumption DEF Agents
    <3>2. AtMostOne(Agents)'
      BY <3>1 DEF DriveInv, AtMostOne
    <3> QED BY <1>0, <3>2 DEF AtMostOne
  <2>2. a \in Drivers /\ \A b \in Drivers : b = a
    BY <2>1, L1Assumption DEF Drivers, AtMostOne
  <2>3. (CHOOSE b \in Drivers : TRUE) = a
    BY <2>2
  <2> QED BY <1>0, <2>2, <2>3 DEF RequestWire
<1>7. WireSampled' /\ Heard'
  <2>1. WireSampled'
    BY <1>1 DEF WireSampled
  <2>2. \A a, b \in CPUs : Answered(a)' /\ a # b => snp'[b] = Req(a)'
    BY <1>0, <1>1, <1>4 DEF CohInv, Heard
  <2> QED BY <1>1, <2>1, <2>2 DEF Heard
<1>8. Granted'
  BY <1>4, SettleGranted DEF Granted
<1>9. OneWriter'
  BY <1>0 DEF CohInv, OneWriter, Sees
<1> QED BY <1>2, <1>3, <1>5, <1>6, <1>7, <1>8, <1>9 DEF CohInv

LEMMA StartCohInv == Init => CohInv
<1> SUFFICES ASSUME Init PROVE CohInv
  OBVIOUS
<1>1. /\ TypeInv /\ turn = 0 /\ drv = [a \in Agents |-> None]
  BY StartTypes DEF Init, BusInit
<1>2. DriveInv
  <2>1. 0 \in 0 .. NAGENTS /\ \A a \in Agents : drv[a] = None
    BY <1>1, ArbitAssumption
  <2> QED BY <1>1, <2>1 DEF DriveInv, AtMostOne
<1>3. \A c \in CPUs : /\ st[c] = "s_idle" /\ mshr[c] = NoMshr /\ run[c] = "off" /\ ~bitmap[c]
                      /\ tag[c] = EmptyTags /\ rtag[c] = EmptyTags /\ xtag[c] = EmptyTags
                      /\ drv[c] = None
  BY <1>1, L1Assumption DEF Init, L1Init, CCInit
<1>4. \A l \in Lines, n \in Levels : ~Has(EmptyTags, l, n)
  <2>1. /\ \A w \in Ways : EmptyTags.l1[w] = EmptyEntry
        /\ \A q \in L2Sets : EmptyTags.l2[q] = EmptyEntry
    BY DEF EmptyTags
  <2>2. \A l \in Lines : HasL2 => L2Set[l] \in L2Sets
    BY SetOfLine
  <2>3. \A l \in Lines, n \in Levels : ~Held(EmptyEntry, l, n)
    BY EmptyHeld, LevelNumbers
  <2> QED BY <2>1, <2>2, <2>3 DEF Has
<1>5. OneCopy(EmptyTags)
  <2>1. /\ \A w \in Ways : EmptyTags.l1[w] = EmptyEntry
        /\ \A q \in L2Sets : EmptyTags.l2[q] = EmptyEntry
    BY DEF EmptyTags
  <2>2. \A l \in Lines : ~Held(EmptyEntry, l, T_STATE_SHARED) /\ ~Held(EmptyEntry, l, T_STATE_MODIFIED)
    BY EmptyHeld, LevelNumbers
  <2> QED BY <2>1, <2>2 DEF OneCopy
<1>6. ~NoMshr.valid
  BY DEF NoMshr
<1>7. \A c \in CPUs : LocalInv(c)
  <2> SUFFICES ASSUME NEW c \in CPUs PROVE LocalInv(c)
    OBVIOUS
  <2>1. Covered(EmptyTags, EmptyTags, NoMshr)
    BY DEF Covered
  <2>2. InPipe("s_idle", EmptyTags, EmptyTags, EmptyTags) /\ CopyWay("s_idle", inv[c], EmptyTags)
    BY DEF InPipe, CopyWay, CopyStates
  <2>3. MissReg("s_idle", NoMshr)
    BY <1>6 DEF MissReg, MissStates, AskStates, FillStates, InvStates, CopyStates
  <2>4. MissWay("s_idle", NoMshr, oldaddr[c], EmptyTags)
    BY DEF MissWay, PromoteStates, RefillStates
  <2> QED BY <1>3, <1>5, <2>1, <2>2, <2>3, <2>4 DEF LocalInv
<1>8. \A c \in CPUs, l \in Lines, n \in Levels : ~Sees(c, l, n)
  BY <1>3, <1>4, <1>6 DEF Sees, Won
<1>9. \A c \in CPUs : ~Asking(c) /\ ~Answered(c) /\ drv[c] = None
  BY <1>3 DEF Asking, Answered
<1>10. AsksDriven /\ WireDriven /\ WireSampled /\ OwnMasked /\ Heard /\ Granted
  BY <1>9 DEF AsksDriven, WireDriven, WireSampled, OwnMasked, Heard, Granted
<1>11. OneWriter
  BY <1>8, LevelNumbers DEF OneWriter
<1> QED BY <1>1, <1>2, <1>7, <1>10, <1>11 DEF CohInv

LEMMA StutterKeepsCohInv ==
    ASSUME CohInv, UNCHANGED vars
    PROVE  CohInv'
<1>0. UNCHANGED <<turn, bus, breq, drv, snp, st, inv, run, oldaddr, tag, rtag, xtag, mshr, bitmap>>
  BY DEF vars, busVars, ccVars, l1Vars, ctlVars
<1>1. TypeInv'
  BY DEF CohInv, vars, arbitVars, busVars, ccVars, l1Vars, ctlVars, dataVars, dmaVars,
         TypeInv, ArbitTypeOK, BusTypeOK, DMATypeOK, TagType, PortType, CtlType,
         DataType, ControllerInv, BridgeInv, l_attn, DMAMinState
<1>2. DriveInv'
  BY <1>0 DEF CohInv, DriveInv, AtMostOne
<1>3. \A c \in CPUs : LocalInv(c)'
  BY <1>0, SameLocal DEF CohInv
<1>4. AsksDriven' /\ WireDriven' /\ WireSampled' /\ OwnMasked' /\ Heard'
  BY <1>0 DEF CohInv, AsksDriven, WireDriven, WireSampled, OwnMasked, Heard, Due, Asking, Answered, Req
<1>5. Granted' /\ OneWriter'
  BY <1>0 DEF CohInv, Granted, OneWriter, Due, Answered, AnswerOK, Cleared, Sees
<1> QED BY <1>1, <1>2, <1>3, <1>4, <1>5 DEF CohInv

LEMMA NextKeepsCohInv ==
    ASSUME DMAs = {}, NAGENTS >= 2, CohInv, [Next]_vars
    PROVE  CohInv'
BY EdgeKeepsCohInv, SettleKeepsCohInv, StutterKeepsCohInv DEF Next

LEMMA CohInvSuffices ==
    ASSUME CohInv, DMAs = {}
    PROVE  Coherent
<1>1. NoMachineCheck
  BY DEF CohInv, LocalInv, NoMachineCheck
<1>2. SingleWriter
  <2> SUFFICES ASSUME NEW l \in Lines, NEW a \in Agents, NEW b \in Agents, a # b,
                      NEW s \in PermStates(a, l), s >= T_STATE_EXCLUSIVE
               PROVE  PermStates(b, l) = {}
    BY DEF SingleWriter
  <2>1. a \in CPUs /\ b \in CPUs
    BY SMPAssumption
  <2>2. Regs(a) /\ Regs(b) /\ LocalInv(a) /\ LocalInv(b)
    BY <2>1, TypedRegs DEF CohInv
  <2>3. Sees(a, l, T_STATE_EXCLUSIVE)
    BY <2>1, <2>2, MatchSees DEF PermStates
  <2>4. ~Sees(b, l, T_STATE_SHARED)
    BY <2>1, <2>3 DEF CohInv, OneWriter
  <2>5. MatchStates(b, l) = {}
    BY <2>2, <2>4, MatchSees
  <2> QED BY <2>1, <2>5 DEF PermStates
<1>3. OneCopyPerCPU
  <2> SUFFICES ASSUME NEW c \in CPUs, NEW l \in Lines
               PROVE  /\ \A w, x \in {w \in Ways : Holds(tag[c].l1[w], l)} : w = x
                      /\ {w \in Ways : Holds(tag[c].l1[w], l)} # {} =>
                            \A s \in L2Sets : ~Holds(tag[c].l2[s], l)
    BY DEF OneCopyPerCPU
  <2>1. tag[c] \in Tags /\ OneCopy(tag[c])
    BY TypedRegs DEF CohInv, Regs, LocalInv
  <2>2. /\ \A w \in Ways : Holds(tag[c].l1[w], l) <=> Held(tag[c].l1[w], l, T_STATE_SHARED)
        /\ \A s \in L2Sets : Holds(tag[c].l2[s], l) <=> Held(tag[c].l2[s], l, T_STATE_SHARED)
    BY <2>1, HoldsHeld DEF Tags, L2Slot
  <2> QED BY <2>1, <2>2 DEF OneCopy
<1> QED BY <1>1, <1>2, <1>3 DEF Coherent

(* Processors alone on the snoop bus, two or more of them: no PARANOID check *)
(* of z48cc.vhd ever fires, a line that one processor may write is held by *)
(* no other, and inside a processor a line is in one place. *)
THEOREM CoherentSafety ==
    ASSUME DMAs = {}, NAGENTS >= 2
    PROVE  Spec => []Coherent
<1>1. CohInv /\ [Next]_vars => CohInv'
  BY NextKeepsCohInv
<1>2. CohInv => Coherent
  BY CohInvSuffices
<1> QED BY <1>1, <1>2, StartCohInv, PTL DEF Spec

-----------------------------------------------------------------------------
(* The multiprocessor implements the abstract memory system. *)
LEMMA SeesLower ==
    ASSUME NEW c, Regs(c), LocalInv(c), NEW l \in Lines, Sees(c, l, T_STATE_EXCLUSIVE)
    PROVE  Sees(c, l, T_STATE_SHARED)
BY MatchSees

PermOK ==
    \A c \in CPUs, l \in Lines :
        /\ AbsPerm(c, l) \in {0, 1, 2}
        /\ AbsPerm(c, l) = 0 <=> ~Sees(c, l, T_STATE_SHARED)
        /\ AbsPerm(c, l) = 2 <=> Sees(c, l, T_STATE_EXCLUSIVE)

LEMMA PermSees == CohInv => PermOK
<1> SUFFICES ASSUME CohInv, NEW c \in CPUs, NEW l \in Lines
             PROVE  /\ AbsPerm(c, l) \in {0, 1, 2}
                    /\ AbsPerm(c, l) = 0 <=> ~Sees(c, l, T_STATE_SHARED)
                    /\ AbsPerm(c, l) = 2 <=> Sees(c, l, T_STATE_EXCLUSIVE)
  BY DEF PermOK
<1>1. Regs(c) /\ LocalInv(c)
  BY TypedRegs DEF CohInv
<1>2. PermStates(c, l) = {} <=> ~Sees(c, l, T_STATE_SHARED)
  BY <1>1, MatchSees DEF PermStates
<1>3. (\E s \in PermStates(c, l) : s >= T_STATE_EXCLUSIVE) <=> Sees(c, l, T_STATE_EXCLUSIVE)
  BY <1>1, MatchSees DEF PermStates
<1> QED BY <1>1, <1>2, <1>3, SeesLower DEF AbsPerm

(* A store hits a line that the snoop port holds exclusively. *)
LEMMA StoreSees ==
    ASSUME NEW c, Regs(c), LocalInv(c), NEW kill, Stores(c, kill)
    PROVE  dreq[c].addr \in Lines /\ Sees(c, dreq[c].addr, T_STATE_EXCLUSIVE)
<1>1. dreq[c] \in PortReq /\ MinState(dreq[c].op) = T_STATE_MODIFIED /\ DHit(c)
  BY DEF Stores, ScOK, Regs, PortType, MinState
<1>2. PICK l, x, m : l = dreq[c].addr /\ x = xtag[c] /\ m = mshr[c]
  OBVIOUS
<1>3. l \in Lines /\ x \in Tags /\ m \in Mshr
  BY <1>1, <1>2 DEF PortReq, Regs
<1>4. \A s : cache_state_test_access_ok(s, T_STATE_MODIFIED) => cache_state_unlock(s) >= 3
  BY StateFacts, StateNumbers DEF cache_state_test_access_ok, cache_state_test_at_least
<1>5. CASE \E w \in TagWays(c, DWays, l) : cache_state_test_access_ok(x.l1[w].st, T_STATE_MODIFIED)
  <2>1. PICK w \in Ways : Holds(x.l1[w], l) /\ cache_state_unlock(x.l1[w].st) >= 3
    BY <1>2, <1>4, <1>5 DEF TagWays, Ways
  <2>2. cache_state_unlock(x.l1[w].st) \in UnlockedStates
    BY <1>3, StateFacts DEF Tags, L1Entry, Entry
  <2>3. Held(x.l1[w], l, T_STATE_EXCLUSIVE)
    BY <2>1, <2>2, StateNumbers DEF Held, Holds, UnlockedStates
  <2> QED BY <1>2, <1>3, <2>3 DEF Sees, Has
<1>6. CASE RestartOK(c, DWays, dreq[c])
  <2>1. m.valid /\ m.addr = l /\ cache_state_unlock(m.ins) >= 3 /\ bitmap[c]
    BY <1>1, <1>2, <1>4, <1>6 DEF RestartOK
  <2>2. m.snooped /\ cache_state_unlock(m.ins) = m.ins /\ m.ins \in UnlockedStates
    BY <1>2, <1>3, <2>1, StateFacts DEF LocalInv, Mshr
  <2>3. Won(m, l, T_STATE_EXCLUSIVE)
    BY <2>1, <2>2, StateNumbers DEF Won, UnlockedStates
  <2> QED BY <1>2, <1>3, <2>3 DEF Sees
<1> QED BY <1>1, <1>2, <1>5, <1>6 DEF DHit, HitWays

LEMMA DiscardSees ==
    ASSUME NEW c, Regs(c), LocalInv(c), Discards(c)
    PROVE  inv[c].addr \in Lines /\ Sees(c, inv[c].addr, T_STATE_EXCLUSIVE)
<1>1. PICK l, t : l = inv[c].addr /\ t = tag[c]
  OBVIOUS
<1>2. l \in Lines
  BY <1>1 DEF Discards, Regs, Fits, InvStates
<1>3. PICK w \in Ways : Holds(t.l1[w], l) /\ Dirty(t.l1[w])
  BY <1>1 DEF Discards, L1Matches
<1>4. Held(t.l1[w], l, T_STATE_EXCLUSIVE)
  BY <1>3, StateNumbers DEF Holds, Dirty, Held
<1>5. Has(tag[c], l, T_STATE_EXCLUSIVE)
  BY <1>1, <1>4 DEF Has
<1> QED BY <1>1, <1>2, <1>5, LevelNumbers DEF LocalInv, Covered, Sees

LEMMA WritesOwned ==
    ASSUME CohInv, NEW c \in CPUs, CPUClock(c), NEW l \in Lines, last'[l] # last[l]
    PROVE  Sees(c, l, T_STATE_EXCLUSIVE)
<1>1. Regs(c) /\ LocalInv(c) /\ last \in [Lines -> Val]
  BY TypedRegs DEF CohInv, TypeInv, DataType
<1>2. PICK dkill, moves, v : Store(c, dkill, moves, v)
  BY DEF CPUClock, CPUClockWith, CPUEdge
<1>3. CASE Stores(c, dkill)
  <2>1. last' = [last EXCEPT ![dreq[c].addr] = v]
    BY <1>2, <1>3 DEF Store
  <2>2. l = dreq[c].addr
    BY <1>1, <2>1
  <2> QED BY <1>1, <1>3, <2>2, StoreSees
<1>4. CASE ~Stores(c, dkill)
  <2>1. Discards(c) /\ last' = [last EXCEPT ![inv[c].addr] = mem[inv[c].addr]]
    BY <1>2, <1>4 DEF Store
  <2>2. l = inv[c].addr
    BY <1>1, <2>1
  <2> QED BY <1>1, <2>1, <2>2, DiscardSees
<1> QED BY <1>3, <1>4

(* The step of the abstract system that an edge of processor c implements. *)
LEMMA EdgeImplements ==
    ASSUME DMAs = {}, CohInv, CohInv', PermOK, PermOK', NEW c \in CPUs, CPUClock(c)
    PROVE  Abs!AgentStep(c)
<1>0. Agents = CPUs /\ last' \in [Lines -> Val]
  BY SMPAssumption DEF CohInv, TypeInv, DataType
<1>1. Edge(c)
  BY ClockEdge DEF CohInv
<1>2. PICK p, n : /\ p = [a \in Agents |-> [l \in Lines |-> AbsPerm(a, l)]]
                  /\ n = [a \in Agents |-> [l \in Lines |-> AbsPerm(a, l)']]
  OBVIOUS
<1>3. \A a \in CPUs, l \in Lines : p[a][l] = AbsPerm(a, l) /\ n[a][l] = AbsPerm(a, l)'
  BY <1>0, <1>2
<1>5. \A a \in CPUs, l \in Lines :
        /\ n[a][l] \in {0, 1, 2}
        /\ n[a][l] = 0 <=> ~Sees(a, l, T_STATE_SHARED)'
        /\ n[a][l] = 2 <=> Sees(a, l, T_STATE_EXCLUSIVE)'
  BY <1>3 DEF PermOK
<1>6. \A a \in CPUs, l \in Lines :
        /\ p[a][l] \in {0, 1, 2}
        /\ p[a][l] = 0 <=> ~Sees(a, l, T_STATE_SHARED)
        /\ p[a][l] = 2 <=> Sees(a, l, T_STATE_EXCLUSIVE)
  BY <1>3 DEF PermOK
<1>7. \A a \in CPUs, l \in Lines : a # c => n[a][l] = p[a][l]
  BY <1>1, <1>5, <1>6, EdgeOthers
<1>8. n[c] \in [Lines -> {0, 1, 2}] /\ n = [p EXCEPT ![c] = n[c]]
  <2>1. \A a \in CPUs : n[a] = [l \in Lines |-> n[a][l]] /\ p[a] = [l \in Lines |-> p[a][l]]
    BY <1>0, <1>2
  <2>2. \A a \in CPUs : a # c => n[a] = p[a]
    BY <1>7, <2>1
  <2>3. n = [a \in CPUs |-> n[a]] /\ p = [a \in CPUs |-> p[a]]
    BY <1>0, <1>2
  <2>4. n[c] \in [Lines -> {0, 1, 2}]
    BY <1>5, <2>1
  <2> QED BY <2>2, <2>3, <2>4
<1>9. ASSUME NEW l \in Lines, NEW b \in CPUs \ {c}
      PROVE  /\ n[c][l] = 2 => p[b][l] = 0
             /\ n[c][l] = 1 => p[b][l] # 2
  <2>1. OneWriter'
    BY DEF CohInv
  <2>2. n[b][l] = p[b][l]
    BY <1>7
  <2>3. n[c][l] = 2 => n[b][l] = 0
    BY <1>5, <2>1 DEF OneWriter
  <2>4. n[b][l] = 2 => n[c][l] = 0
    BY <1>5, <2>1 DEF OneWriter
  <2> QED BY <2>2, <2>3, <2>4
<1>10. \A l \in Lines : last'[l] # last[l] => p[c][l] = 2
  BY <1>6, WritesOwned
<1>11. \A l \in Lines : Abs!Compatible(c, l, n[c][l])
  BY <1>0, <1>2, <1>9 DEF Abs!Compatible, Abs!NONE, Abs!SHARED, Abs!EXCLUSIVE
<1>12. \A l \in Lines : Abs!MayHold(c, l, n[c][l])
  BY <1>11 DEF Abs!MayHold
<1> QED BY <1>0, <1>2, <1>8, <1>10, <1>12 DEF Abs!AgentStep, Abs!Permission, Abs!NONE, Abs!SHARED, Abs!EXCLUSIVE

LEMMA SettleImplements ==
    ASSUME UNCHANGED <<xtag, mshr, l_addr, l_state, last>>
    PROVE  UNCHANGED Abs!coherenceVars
<1>1. \A a \in Agents, l \in Lines : AbsPerm(a, l)' = AbsPerm(a, l)
  BY DEF AbsPerm, PermStates, MatchStates, TagWays
<1> QED BY <1>1 DEF Abs!coherenceVars

LEMMA StartUnseen ==
    ASSUME Init, NEW c \in CPUs, NEW l \in Lines
    PROVE  ~Sees(c, l, T_STATE_SHARED)
<1>1. xtag[c] = EmptyTags /\ mshr[c] = NoMshr /\ ~NoMshr.valid
  BY DEF Init, L1Init, NoMshr
<1>2. /\ \A w \in Ways : EmptyTags.l1[w] = EmptyEntry
      /\ \A q \in L2Sets : EmptyTags.l2[q] = EmptyEntry
  BY DEF EmptyTags
<1>3. (HasL2 => L2Set[l] \in L2Sets) /\ ~Held(EmptyEntry, l, T_STATE_SHARED)
  BY SetOfLine, EmptyHeld, LevelNumbers
<1> QED BY <1>1, <1>2, <1>3 DEF Sees, Has, Won

(* Every step of the processors is a step the abstract memory system allows, *)
(* for any number of processors from two on: a controller gains a permission *)
(* only beside compatible ones, and a line changes only by the processor *)
(* that holds it exclusively. *)
THEOREM ImplementsCoherenceSafety ==
    ASSUME DMAs = {}, NAGENTS >= 2
    PROVE  Spec => ImplementsCoherence
<1>1. Init => Abs!CoherenceInit
  <2> SUFFICES ASSUME Init PROVE Abs!CoherenceInit
    OBVIOUS
  <2>1. CohInv /\ PermOK /\ last \in [Lines -> Val] /\ Agents = CPUs
    BY StartCohInv, PermSees, SMPAssumption DEF CohInv, TypeInv, DataType
  <2>2. \A c \in CPUs, l \in Lines : AbsPerm(c, l) = 0
    BY StartUnseen, <2>1 DEF PermOK
  <2> QED BY <2>1, <2>2 DEF Abs!CoherenceInit, Abs!NONE
<1>2. CohInv /\ CohInv' /\ PermOK /\ PermOK' /\ [Next]_vars => [Abs!CoherenceNext]_(Abs!coherenceVars)
  <2> SUFFICES ASSUME CohInv, CohInv', PermOK, PermOK', [Next]_vars
               PROVE  Abs!CoherenceNext \/ UNCHANGED Abs!coherenceVars
    OBVIOUS
  <2>1. ASSUME NEW c \in CPUs, CPUClock(c) PROVE Abs!CoherenceNext
    BY <2>1, EdgeImplements, L1Assumption DEF Abs!CoherenceNext
  <2>2. CASE Settle \/ UNCHANGED vars
    <3>1. UNCHANGED <<xtag, mshr, l_addr, l_state, last>>
      BY <2>2 DEF Settle, vars, ccVars, l1Vars, dataVars, dmaVars
    <3> QED BY <3>1, SettleImplements
  <2> QED BY <2>1, <2>2 DEF Next
<1>3. CohInv /\ [Next]_vars => CohInv'
  BY NextKeepsCohInv
<1>4. CohInv => PermOK
  BY PermSees
<1> QED BY <1>1, <1>2, <1>3, <1>4, StartCohInv, PTL DEF Spec, ImplementsCoherence, Abs!CoherenceSpec

-----------------------------------------------------------------------------
(* LL and SC.  The miss register asks for line l to be written. *)
Asks(m, l) == m.valid /\ m.addr = l /\ m.min = T_STATE_MODIFIED

InsAsked(m) == m.valid /\ m.ins = T_STATE_MODIFIED => m.min = T_STATE_MODIFIED

(* A miss keeps its line and what it asks for until it is dropped. *)
KeepsMiss(m, n) ==
    n.valid => /\ m.valid /\ n.addr = m.addr /\ n.min = m.min
               /\ m.snooped => n.snooped
               /\ n.ins = T_STATE_MODIFIED => n.min = T_STATE_MODIFIED

(* A way becomes MODIFIED only at the end of a miss that asked for it. *)
GrowsAsked(c) ==
    \A w \in Ways, l \in Lines : Held(tag'[c].l1[w], l, T_STATE_MODIFIED) =>
        \/ tag'[c].l1[w] \in {tag[c].l1[w], Locked(tag[c].l1[w])}
        \/ /\ st'[c] = "s_return1"
           /\ Held(tag[c].l1[w], l, T_STATE_MODIFIED) \/ Asks(mshr[c], l)

StartsMiss(c, dk) == st[c] = "s_idle" /\ \E ik : IdleMiss(c, dk, ik)

WriteStep(c, dk) ==
    /\ KeepsMiss(mshr[c], mshr'[c]) \/ StartsMiss(c, dk)
    /\ GrowsAsked(c)
    /\ st[c] = "s_return1" => st'[c] = "s_return2"
    /\ st[c] = "s_return2" => ~mshr'[c].valid

LEMMA SameWrites ==
    ASSUME NEW c, NEW dk, InsAsked(mshr[c]), tag' = tag, mshr' = mshr \/ ~mshr'[c].valid,
           st[c] = "s_return1" => st'[c] = "s_return2",
           st[c] = "s_return2" => ~mshr'[c].valid
    PROVE  WriteStep(c, dk)
BY DEF WriteStep, KeepsMiss, GrowsAsked, InsAsked

LEMMA OneWrites ==
    ASSUME NEW c, NEW way \in Ways, NEW l, NEW s \in UnlockedStates,
           \A w \in Ways : tag'[c].l1[w] = IF w \in {way} THEN MkEntry(l, s) ELSE tag[c].l1[w],
           s = T_STATE_MODIFIED =>
               /\ st'[c] = "s_return1"
               /\ Held(tag[c].l1[way], l, T_STATE_MODIFIED) \/ Asks(mshr[c], l)
    PROVE  GrowsAsked(c)
<1>1. SUFFICES ASSUME NEW w \in Ways, NEW k \in Lines, Held(tag'[c].l1[w], k, T_STATE_MODIFIED),
                      w = way
               PROVE  /\ st'[c] = "s_return1"
                      /\ Held(tag[c].l1[w], k, T_STATE_MODIFIED) \/ Asks(mshr[c], k)
  BY DEF GrowsAsked
<1>2. Held(MkEntry(l, s), k, T_STATE_MODIFIED)
  BY <1>1
<1>3. l = k /\ s = T_STATE_MODIFIED
  BY <1>2, MadeHeld, StateNumbers DEF UnlockedStates
<1> QED BY <1>1, <1>3

LEMMA QuietWrites ==
    ASSUME NEW c, NEW dk, Regs(c), LocalInv(c), InsAsked(mshr[c]), NEW m_halt,
           \/ s_miss2(c) \/ s_miss3(c) \/ s_miss4(c, m_halt)
           \/ s_inv0(c) \/ s_inv3(c) \/ s_inv4(c) \/ s_inv5(c) \/ s_inv7(c) \/ s_return1(c)
           \/ s_lsnoop_promote1(c) \/ s_lsnoop_promote2(c)
           \/ s_lsnoop_miss1(c) \/ s_lsnoop_miss2(c)
    PROVE  WriteStep(c, dk)
<1>1. ~NoMshr.valid
  BY DEF NoMshr
<1>2. handle_s_attn(c) => ~mshr'[c].valid
  BY <1>1 DEF handle_s_attn, Regs, CtlType
<1>3. tag' = tag /\ (mshr' = mshr \/ ~mshr'[c].valid)
  BY <1>2 DEF s_miss2, s_miss3, s_miss4, s_inv0, s_inv3, s_inv4, s_inv5, s_inv7, s_return1,
         InvDelay, InvKeep, s_lsnoop_promote1, s_lsnoop_promote2, s_lsnoop_miss1, s_lsnoop_miss2,
         LSnoopKeep, LSnoopAbandon, LSnoopArbitrate, LSnoopRequest
<1>4. st[c] # "s_return2" /\ (st[c] = "s_return1" => st'[c] = "s_return2")
  BY GoesTo DEF s_miss2, s_miss3, s_miss4, s_inv0, s_inv3, s_inv4, s_inv5, s_inv7, s_return1,
         InvDelay, s_lsnoop_promote1, s_lsnoop_promote2, s_lsnoop_miss1, s_lsnoop_miss2
<1> QED BY <1>3, <1>4, SameWrites

LEMMA RestWrites ==
    ASSUME NEW c, Regs(c), LocalInv(c), InsAsked(mshr[c]), NEW dk, NEW ik,
           s_idle(c, dk, ik) \/ s_return2(c)
    PROVE  WriteStep(c, dk)
<1>1. ~NoMshr.valid
  BY DEF NoMshr
<1>2. CASE s_return2(c)
  <2>1. tag' = tag /\ ~mshr'[c].valid /\ st[c] = "s_return2"
    BY <1>1, <1>2 DEF s_return2, Regs, CtlType
  <2> QED BY <2>1, SameWrites
<1>3. CASE s_idle(c, dk, ik) /\ ~IdleMiss(c, dk, ik)
  <2>1. tag' = tag /\ st[c] = "s_idle"
    BY <1>3 DEF s_idle
  <2>2. mshr' = mshr \/ ~mshr'[c].valid
    BY <1>1, <1>3 DEF s_idle, IdleSnoop, IdleInv, IdleStay, handle_s_attn, Regs, CtlType
  <2> QED BY <2>1, <2>2, SameWrites
<1>4. CASE s_idle(c, dk, ik) /\ IdleMiss(c, dk, ik)
  <2>1. tag' = tag /\ st[c] = "s_idle"
    BY <1>4 DEF s_idle
  <2> QED BY <1>4, <2>1 DEF WriteStep, GrowsAsked, StartsMiss
<1> QED BY <1>2, <1>3, <1>4

LEMMA FillWrites ==
    ASSUME NEW c, NEW dk, Regs(c), LocalInv(c), InsAsked(mshr[c]), NEW moves, s_miss5(c, moves)
    PROVE  WriteStep(c, dk)
<1>0. st[c] = "s_miss5" /\ mshr' = mshr
  BY DEF s_miss5
<1>1. CASE ~Miss5Done(c)
  <2>1. tag' = tag
    BY <1>1 DEF s_miss5
  <2> QED BY <1>0, <2>1, SameWrites
<1>2. CASE Miss5Done(c)
  <2>1. st'[c] = "s_return1"
    BY <1>2, GoesTo DEF Miss5Done
  <2>2. PICK way, l, s : way = mshr[c].way /\ l = mshr[c].addr /\ s = mshr[c].ins
    OBVIOUS
  <2>3. way \in Ways /\ s \in UnlockedStates /\ mshr[c].valid
    BY <1>0, <2>2 DEF Regs, Fits, RefillStates, Mshr, LocalInv, MissReg, FillStates
  <2>4. \A w \in Ways : tag'[c].l1[w] = IF w \in {way} THEN MkEntry(l, s) ELSE tag[c].l1[w]
    BY <1>2, <2>2, <2>3, FillWritten
  <2>5. s = T_STATE_MODIFIED => Asks(mshr[c], l)
    BY <2>2, <2>3 DEF InsAsked, Asks
  <2>6. GrowsAsked(c)
    BY <2>1, <2>3, <2>4, <2>5, OneWrites
  <2> QED BY <1>0, <2>6 DEF WriteStep, KeepsMiss, InsAsked
<1> QED BY <1>1, <1>2

LEMMA InvWrites ==
    ASSUME NEW c, NEW dk, Regs(c), LocalInv(c), InsAsked(mshr[c]), NEW moves,
           s_inv1(c) \/ s_inv2(c) \/ s_inv6(c, moves)
    PROVE  WriteStep(c, dk)
<1>0. st[c] \in {"s_inv1", "s_inv2", "s_inv6"} /\ mshr' = mshr
  BY DEF s_inv1, s_inv2, s_inv6, InvKeep
<1>1. SUFFICES GrowsAsked(c)
  BY <1>0 DEF WriteStep, KeepsMiss, InsAsked
<1>2. CASE s_inv1(c)
  <2>1. PICK l, s : l = inv[c].addr /\ s = InvFinalState(c)
    OBVIOUS
  <2>2. \A w \in Ways : tag'[c].l1[w] = tag[c].l1[w] \/ tag'[c].l1[w] = MkEntry(l, s)
    BY <1>2, <2>1, InvWritten DEF s_inv1
  <2>3. s \in UnlockedStates /\ ~(s >= T_STATE_MODIFIED)
    BY <2>1, FinalStates, StateNumbers DEF UnlockedStates
  <2>4. \A k \in Lines : ~Held(MkEntry(l, s), k, T_STATE_MODIFIED)
    BY <2>3, MadeHeld, StateNumbers
  <2> QED BY <2>2, <2>4 DEF GrowsAsked
<1>3. CASE s_inv2(c)
  <2>1. PICK way, l : way = inv[c].way /\ l = tag[c].l1[inv[c].way].addr
    OBVIOUS
  <2>2. way \in Ways /\ WriteL1(c, {way}, l, T_STATE_EXCLUSIVE)
    BY <1>3, <2>1 DEF s_inv2, Regs, Fits
  <2>3. \A w \in Ways : tag'[c].l1[w] = IF w \in {way} THEN MkEntry(l, T_STATE_EXCLUSIVE) ELSE tag[c].l1[w]
    BY <2>2, L1Written
  <2>4. T_STATE_EXCLUSIVE \in UnlockedStates /\ T_STATE_EXCLUSIVE # T_STATE_MODIFIED
    BY StateNumbers DEF UnlockedStates
  <2> QED BY <2>2, <2>3, <2>4, OneWrites
<1>4. CASE s_inv6(c, moves) /\ run[c] = "off"
  <2>1. PICK way, l, s : way = inv[c].way /\ l = tag[c].l1[inv[c].way].addr /\ s = InvFinalState(c)
    OBVIOUS
  <2>2. way \in Ways /\ WriteL1(c, {way}, l, s)
    BY <1>4, <2>1 DEF s_inv6, Regs, Fits, CopyStates
  <2>3. \A w \in Ways : tag'[c].l1[w] = IF w \in {way} THEN MkEntry(l, s) ELSE tag[c].l1[w]
    BY <2>2, L1Written
  <2>4. s \in UnlockedStates /\ s # T_STATE_MODIFIED
    BY <2>1, FinalStates, StateNumbers DEF UnlockedStates
  <2> QED BY <2>2, <2>3, <2>4, OneWrites
<1>5. CASE s_inv6(c, moves) /\ run[c] # "off"
  BY <1>5 DEF s_inv6, GrowsAsked
<1> QED BY <1>2, <1>3, <1>4, <1>5

LEMMA AnswerWrites ==
    ASSUME NEW c, NEW dk, Regs(c), LocalInv(c), LocalInv(c)', s_lsnoop_promote3(c) \/ s_lsnoop_miss3(c)
    PROVE  WriteStep(c, dk)
<1>0. st[c] \in {"s_lsnoop_promote3", "s_lsnoop_miss3"}
  BY DEF s_lsnoop_promote3, s_lsnoop_miss3
<1>1. PICK m, n : m = mshr[c] /\ n = mshr'[c]
  OBVIOUS
<1>2. /\ m \in Mshr /\ m.addr \in Lines /\ m.way \in Ways /\ m.valid /\ m.ins = m.min
      /\ (st[c] = "s_lsnoop_promote3" => m.min = T_STATE_MODIFIED)
  BY <1>0, <1>1 DEF Regs, Fits, MissStates, RefillStates, LocalInv, MissReg, MissWay, AskStates, PromoteStates
<1>3. CASE s_lsnoop_miss3(c)
  <2>1. tag' = tag
    BY <1>3 DEF s_lsnoop_miss3
  <2>2. CASE mshr' = mshr
    BY <1>0, <1>1, <1>2, <2>1, <2>2, SameWrites DEF InsAsked
  <2>3. CASE mshr' # mshr
    <3>1. PICK ins : ins = IF AutoPromote(c) THEN T_STATE_EXCLUSIVE ELSE m.ins
      OBVIOUS
    <3>2. mshr' = [mshr EXCEPT ![c].snooped = TRUE, ![c].ins = ins]
      BY <1>1, <1>3, <2>3, <3>1 DEF s_lsnoop_miss3
    <3>3. n = [m EXCEPT !.snooped = TRUE, !.ins = ins]
      BY <1>1, <3>2 DEF Regs, CtlType
    <3>4. n.valid /\ n.addr = m.addr /\ n.min = m.min /\ n.snooped /\ n.ins = ins
      BY <1>2, <3>3 DEF Mshr
    <3>5. n.ins = T_STATE_MODIFIED => n.min = T_STATE_MODIFIED
      BY <1>2, <3>1, <3>4, StateNumbers
    <3>6. KeepsMiss(mshr[c], mshr'[c])
      BY <1>1, <1>2, <3>4, <3>5 DEF KeepsMiss
    <3> QED BY <1>0, <2>1, <3>6 DEF WriteStep, GrowsAsked
  <2> QED BY <2>2, <2>3
<1>4. CASE s_lsnoop_promote3(c) /\ bus.wait
  BY <1>0, <1>1, <1>2, <1>4, SameWrites DEF s_lsnoop_promote3, InsAsked
<1>5. CASE s_lsnoop_promote3(c) /\ ~bus.wait
  <2>1. /\ mshr' = [mshr EXCEPT ![c].snooped = TRUE]
        /\ WriteL1(c, {m.way}, m.addr, m.min)
        /\ m.min = T_STATE_MODIFIED
    BY <1>1, <1>2, <1>5 DEF s_lsnoop_promote3
  <2>2. st'[c] = "s_return1"
    <3>1. st'[c] # "s_bug"
      BY DEF LocalInv
    <3>2. \E bug : st' = [st EXCEPT ![c] = IF bug THEN "s_bug" ELSE "s_return1"]
      BY <1>5 DEF s_lsnoop_promote3, Goto
    <3> QED BY <3>1, <3>2 DEF Regs, CtlType
  <2>3. n = [m EXCEPT !.snooped = TRUE]
    BY <1>1, <2>1 DEF Regs, CtlType
  <2>4. n.valid /\ n.addr = m.addr /\ n.min = m.min /\ n.snooped
    BY <1>2, <2>3 DEF Mshr
  <2>5. KeepsMiss(mshr[c], mshr'[c])
    BY <1>1, <1>2, <2>1, <2>4 DEF KeepsMiss
  <2>6. PICK way, l, s : way = m.way /\ l = m.addr /\ s = m.min
    OBVIOUS
  <2>7. \A w \in Ways : tag'[c].l1[w] = IF w \in {way} THEN MkEntry(l, s) ELSE tag[c].l1[w]
    BY <2>1, <2>6, L1Written
  <2>8. way \in Ways /\ s \in UnlockedStates /\ Asks(mshr[c], l)
    BY <1>1, <1>2, <2>1, <2>6 DEF Asks, Mshr
  <2>9. GrowsAsked(c)
    BY <2>2, <2>7, <2>8, OneWrites
  <2> QED BY <1>0, <2>5, <2>9 DEF WriteStep
<1> QED BY <1>3, <1>4, <1>5

LEMMA MissWrites ==
    ASSUME NEW c, NEW dk, Regs(c), LocalInv(c), LocalInv(c)', InsAsked(mshr[c]), s_miss1(c)
    PROVE  WriteStep(c, dk)
<1>0. st[c] = "s_miss1" /\ st'[c] # "s_bug"
  BY DEF s_miss1, LocalInv
<1>1. PICK m, t, e : AtMiss(c, m, t, e) /\ e = MissEntry(c)
  BY MissFacts
<1>2. /\ m = mshr[c] /\ t = tag[c] /\ e = t.l1[m.way] /\ m.addr \in Lines /\ m.way \in Ways
      /\ m \in Mshr /\ m.valid
  BY <1>1 DEF AtMiss
<1>3. CASE mshr' = mshr /\ tag' = tag
  BY <1>0, <1>3, SameWrites
<1>4. CASE mshr' = mshr /\ GrowsAsked(c)
  BY <1>0, <1>4 DEF WriteStep, KeepsMiss, InsAsked
<1>5. ASSUME NEW l, NEW s \in UnlockedStates, WriteL1(c, {m.way}, l, s), mshr' = mshr,
             s = T_STATE_MODIFIED => Held(tag[c].l1[m.way], l, T_STATE_MODIFIED) \/ Asks(mshr[c], l),
             \E bug : Goto(c, "s_return1", bug)
      PROVE  WriteStep(c, dk)
  <2>1. st'[c] = "s_return1"
    BY <1>0, <1>5 DEF Goto, Regs, CtlType
  <2>2. PICK way : way = m.way
    OBVIOUS
  <2>3. \A w \in Ways : tag'[c].l1[w] = IF w \in {way} THEN MkEntry(l, s) ELSE tag[c].l1[w]
    BY <1>5, <2>2, L1Written
  <2>4. GrowsAsked(c)
    BY <1>2, <1>5, <2>1, <2>2, <2>3, OneWrites
  <2> QED BY <1>4, <1>5, <2>4
<1>6. CASE Miss1Cross(c)
  BY <1>3, <1>6 DEF Miss1Cross
<1>7. CASE Miss1Promote(c)
  <2>1. mshr' = mshr
    BY <1>7 DEF Miss1Promote
  <2>2. CASE tag' = tag
    BY <1>3, <2>1, <2>2
  <2>3. CASE tag' # tag
    <3>1. WriteL1(c, {m.way}, m.addr, m.min) /\ \E bug : Goto(c, "s_return1", bug)
      BY <1>2, <1>7, <2>3 DEF Miss1Promote
    <3>2. m.min \in UnlockedStates /\ (m.min = T_STATE_MODIFIED => Asks(mshr[c], m.addr))
      BY <1>2 DEF Asks, Mshr
    <3> QED BY <1>5, <2>1, <3>1, <3>2
  <2> QED BY <2>2, <2>3
<1>8. CASE Miss1Unlock(c)
  <2>1. PICK s : s = cache_state_unlock(e.st)
    OBVIOUS
  <2>2. mshr' = mshr /\ WriteL1(c, {m.way}, e.addr, s) /\ \E bug : Goto(c, "s_return1", bug)
    BY <1>1, <1>2, <1>8, <2>1 DEF Miss1Unlock
  <2>3. s \in UnlockedStates
    BY <1>2, <2>1, StateFacts DEF Regs, Tags, L1Entry, Entry
  <2>4. s = T_STATE_MODIFIED => Held(tag[c].l1[m.way], e.addr, T_STATE_MODIFIED)
    BY <1>2, <2>1, StateNumbers DEF Held
  <2> QED BY <1>5, <2>2, <2>3, <2>4
<1>9. CASE Miss1Refill(c) /\ L2Hit(c, m.addr)
  <2>1. PICK ins, old : ins = FromL2(m, L2Entry(c, m.addr)) /\ old = cache_state_unlock(e.st)
    OBVIOUS
  <2>2. /\ mshr'[c] = [m EXCEPT !.old = old, !.l2hit = TRUE, !.snooped = TRUE, !.ins = ins]
        /\ tag' = [tag EXCEPT ![c].l1[m.way] = Locked(@), ![c].l2[L2Set[m.addr]] = EmptyEntry]
    <3>0. /\ Miss1Refill(c)
          /\ L2Hit(c, m.addr)
          /\ AtMiss(c, m, t, e)
      BY <1>1, <1>9
    <3>1. /\ st'[c] = "s_miss2"
          /\ mshr'[c] = [m EXCEPT !.old = cache_state_unlock(e.st), !.l2hit = TRUE,
                                  !.snooped = TRUE, !.ins = FromL2(m, L2Entry(c, m.addr))]
          /\ tag' = [tag EXCEPT ![c].l1[m.way] = Locked(@), ![c].l2[L2Set[m.addr]] = EmptyEntry]
      BY <3>0, RefillHit
    <3> QED BY <2>1, <3>1
  <2>3. PICK way, q : way = m.way /\ q = L2Set[m.addr]
    OBVIOUS
  <2>4. q \in L2Sets
    <3>1. HasL2
      BY <1>2, <1>9, EmptyHeld DEF L2Hit, L2Entry, EmptyEntry, Holds, cache_state_unlock, T_STATE_INVALID, T_STATE_LOCKED
    <3> QED BY <1>2, <2>3, <3>1, SetOfLine
  <2>5. \A w \in Ways : tag'[c].l1[w] = IF w = way THEN Locked(tag[c].l1[w]) ELSE tag[c].l1[w]
    <3>1. tag' = [tag EXCEPT ![c].l1[way] = Locked(@), ![c].l2[q] = EmptyEntry]
      BY <2>2, <2>3
    <3>2. way \in Ways
      BY <1>2, <2>3
    <3>3. /\ \A w \in Ways : tag'[c].l1[w] = IF w = way THEN Locked(tag[c].l1[w]) ELSE tag[c].l1[w]
          /\ \A k \in L2Sets : tag'[c].l2[k] = IF k = q THEN EmptyEntry ELSE tag[c].l2[k]
      BY <2>4, <3>1, <3>2, RefillWritten
    <3> QED BY <3>3
  <2>6. GrowsAsked(c)
    BY <2>5 DEF GrowsAsked
  <2>7. PICK n : n = mshr'[c]
    OBVIOUS
  <2>8. n.addr = m.addr /\ n.min = m.min /\ n.snooped /\ n.ins = ins
    BY <1>2, <2>2, <2>7 DEF Mshr
  <2>9. ins = T_STATE_MODIFIED => m.min = T_STATE_MODIFIED
    <3>1. L2Entry(c, m.addr) = t.l2[q] /\ q \in L2Sets
      BY <1>2, <2>3, <2>4 DEF L2Entry, HasL2
    <3>2. PICK l2 : l2 = t.l2[q]
      OBVIOUS
    <3>3. l2 \in L2Slot /\ Holds(l2, m.addr)
      BY <1>2, <1>9, <3>1, <3>2 DEF Regs, Tags, L2Hit
    <3>4. ~Held(l2, m.addr, T_STATE_MODIFIED)
      BY <1>2, <3>1, <3>2 DEF LocalInv, OneCopy
    <3>5. l2.st # T_STATE_MODIFIED
      BY <3>3, <3>4, StateNumbers, StateFacts DEF Held, Holds, L2Slot
    <3> QED BY <2>1, <3>1, <3>2, <3>5 DEF FromL2
  <2>10. KeepsMiss(mshr[c], mshr'[c])
    BY <1>2, <2>7, <2>8, <2>9 DEF KeepsMiss
  <2> QED BY <1>0, <2>6, <2>10 DEF WriteStep
<1>10. CASE Miss1Refill(c) /\ ~L2Hit(c, m.addr)
  <2>1. PICK way, old : way = m.way /\ old = cache_state_unlock(e.st)
    OBVIOUS
  <2>2. mshr'[c] = [m EXCEPT !.old = old] /\ tag' = [tag EXCEPT ![c].l1[way] = Locked(@)]
    BY <1>1, <1>10, <2>1, RefillAsk
  <2>3. \A w \in Ways : tag'[c].l1[w] = IF w = way THEN Locked(tag[c].l1[w]) ELSE tag[c].l1[w]
    <3>1. way \in Ways /\ tag' = [tag EXCEPT ![c].l1[way] = Locked(@)]
      BY <1>2, <2>1, <2>2
    <3>2. /\ \A w \in Ways : tag'[c].l1[w] = IF w = way THEN Locked(tag[c].l1[w]) ELSE tag[c].l1[w]
          /\ tag'[c].l2 = tag[c].l2
      BY <3>1, LockWritten
    <3> QED BY <3>2
  <2>4. GrowsAsked(c)
    BY <2>3 DEF GrowsAsked
  <2>5. PICK n : n = mshr'[c]
    OBVIOUS
  <2>6. n.addr = m.addr /\ n.min = m.min /\ n.snooped = m.snooped /\ n.ins = m.ins
    BY <1>2, <2>2, <2>5 DEF Mshr
  <2>7. KeepsMiss(mshr[c], mshr'[c])
    BY <1>2, <2>5, <2>6 DEF KeepsMiss, InsAsked
  <2> QED BY <1>0, <2>4, <2>7 DEF WriteStep
<1> QED BY <1>6, <1>7, <1>8, <1>9, <1>10 DEF s_miss1

(* One clock of a controller, whatever its state. *)
LEMMA MachineWrites ==
    ASSUME NEW c, Regs(c), LocalInv(c), LocalInv(c)', InsAsked(mshr[c]),
           NEW dk, NEW ik, NEW m_halt, NEW moves,
           StateMachine(c, dk, ik, m_halt, moves)
    PROVE  WriteStep(c, dk)
<1>1. CASE \/ s_miss2(c) \/ s_miss3(c) \/ s_miss4(c, m_halt)
           \/ s_inv0(c) \/ s_inv3(c) \/ s_inv4(c) \/ s_inv5(c) \/ s_inv7(c) \/ s_return1(c)
           \/ s_lsnoop_promote1(c) \/ s_lsnoop_promote2(c)
           \/ s_lsnoop_miss1(c) \/ s_lsnoop_miss2(c)
  BY <1>1, QuietWrites
<1>2. CASE s_idle(c, dk, ik) \/ s_return2(c)
  BY <1>2, RestWrites
<1>3. CASE s_lsnoop_promote3(c) \/ s_lsnoop_miss3(c)
  BY <1>3, AnswerWrites
<1>4. CASE s_miss1(c) \/ s_miss5(c, moves)
  BY <1>4, MissWrites, FillWrites
<1>5. CASE s_inv1(c) \/ s_inv2(c) \/ s_inv6(c, moves)
  BY <1>5, InvWrites
<1> QED BY <1>1, <1>2, <1>3, <1>4, <1>5 DEF StateMachine
-----------------------------------------------------------------------------
(* An ll of line l is waiting in the data port. *)
LLAt(c, l) == dreq[c] # None /\ dreq[c].op = "ll" /\ dreq[c].addr = l

NoMod(t, l) == \A w \in Ways : ~Held(t.l1[w], l, T_STATE_MODIFIED)

(* No way of the data cache lets a store to l through. *)
NoOpen(t, l) ==
    \A w \in DWays : Held(t.l1[w], l, T_STATE_MODIFIED) => cache_state_test_locked(t.l1[w].st)

(* A miss that the bus has not answered does not hit, until it has written *)
(* the tags itself. *)
StillMisses(s, m, t, r, x) ==
    m.valid /\ ~m.snooped /\ m.min = T_STATE_MODIFIED =>
        /\ NoOpen(x, m.addr)
        /\ s # "s_return2" => NoOpen(r, m.addr)
        /\ s \notin {"s_return1", "s_return2"} => NoOpen(t, m.addr)

(* A link whose ll has completed asks the bus for nothing; after a foreign *)
(* store the line is not there to be written, and not asked for. *)
LinkQuiet(c) ==
    /\ LLWaits(c) => LLAt(c, link[c].addr)
    /\ link[c].v /\ ~link[c].wait /\ Asks(mshr[c], link[c].addr) => mshr[c].snooped
    /\ link[c].v /\ link[c].lost /\ ~link[c].wait =>
         /\ ~Asks(mshr[c], link[c].addr)
         /\ NoMod(tag[c], link[c].addr) /\ NoMod(rtag[c], link[c].addr)
         /\ NoMod(xtag[c], link[c].addr)

LinkInv(c) ==
    /\ ireq[c] # None => ireq[c].op = "rd"
    /\ InsAsked(mshr[c])
    /\ StillMisses(st[c], mshr[c], tag[c], rtag[c], xtag[c])
    /\ LinkQuiet(c)

(* What the data port does to the link: it keeps it and issues no miss, drops *)
(* or sets it. *)
LinkStep(c, dk) ==
    \/ (dk \/ ~DMiss(c)) /\ ~(LLWaits(c) /\ LLAt(c, link[c].addr)) /\ link'[c] = link[c]
    \/ ~link'[c].v
    \/ /\ LLAt(c, link'[c].addr) /\ ~link'[c].lost /\ (link'[c].wait <=> DMiss(c))
       /\ DMiss(c) => dreq'[c] = dreq[c]

LEMMA PortLinks ==
    ASSUME NEW c, Regs(c), NEW kill, NEW done,
           DIssue(c) \/ DAccess(c, kill) \/ DCacheOp(c, done), LinkClock(c, kill)
    PROVE  LinkStep(c, kill)
<1>1. PICK o : o = IF Stores(c, kill) THEN MarkLost(c, dreq[c].addr) ELSE link
  OBVIOUS
<1>2. link' = [o EXCEPT ![c] = LinkNext(c, kill)]
  BY <1>1 DEF LinkClock
<1>3. c \in DOMAIN o
  BY <1>1 DEF MarkLost, Regs, PortType
<1>4. link'[c] = LinkNext(c, kill)
  BY <1>2, <1>3
<1>5. ~NoLink.v
  BY DEF NoLink
<1>6. CASE dreq[c] = None
  BY <1>4, <1>6 DEF LinkNext, LinkStep, LLAt, DMiss
<1>7. CASE dreq[c] # None /\ kill
  BY <1>4, <1>5, <1>7 DEF LinkNext, LinkStep, LLWaits, LLAt
<1>8. CASE dreq[c] # None /\ ~kill
  <2>0. dreq[c] \in PortReq
    BY <1>8 DEF Regs, PortType
  <2>1. CASE dreq[c].op = "ll"
    <3>1. link'[c] = Linked(c)
      BY <1>4, <1>8, <2>1 DEF LinkNext, ScOK
    <3>2. LLAt(c, link'[c].addr) /\ ~link'[c].lost /\ (link'[c].wait <=> DMiss(c))
      BY <1>8, <2>1, <3>1 DEF LLAt, Linked
    <3>3. dreq' = [dreq EXCEPT ![c] = IF kill \/ ~DMiss(c) THEN None ELSE @]
      BY <1>8, <2>1 DEF DIssue, DAccess, DCacheOp, CacheOpPending, CacheOps
    <3>4. DMiss(c) => dreq'[c] = dreq[c]
      BY <1>8, <3>3 DEF Regs, PortType
    <3> QED BY <3>2, <3>4 DEF LinkStep
  <2>2. CASE dreq[c].op \in {"rd", "wr"} \/ ScOK(c)
    <3>1. link'[c] = NoLink
      BY <1>4, <1>8, <2>2 DEF LinkNext, ScOK
    <3> QED BY <1>5, <3>1 DEF LinkStep
  <2>3. CASE dreq[c].op \notin {"ll", "rd", "wr"} /\ ~ScOK(c)
    <3>1. link'[c] = link[c]
      BY <1>4, <1>8, <2>3 DEF LinkNext
    <3> QED BY <2>3, <3>1 DEF LinkStep, LLAt, DMiss
  <2> QED BY <2>1, <2>2, <2>3
<1> QED BY <1>6, <1>7, <1>8

(* A miss that starts for a write is the one of the data port. *)
LEMMA StartAsks ==
    ASSUME NEW c, NEW dk, Regs(c), ireq[c] # None => ireq[c].op = "rd", StartsMiss(c, dk)
    PROVE  /\ mshr'[c].valid /\ ~mshr'[c].snooped /\ mshr'[c].ins = mshr'[c].min
           /\ st'[c] = "s_miss1" /\ ~CacheOpPending(c)
           /\ mshr'[c].min = T_STATE_MODIFIED => DMiss(c) /\ ~dk /\ mshr'[c].addr = dreq[c].addr
                                                 /\ MinState(dreq[c].op) = T_STATE_MODIFIED
<1> USE DEF Started
<1>1. PICK q \in PortReq, ways \in SUBSET Ways : Started(c, q, ways)
  BY MissStarted DEF StartsMiss
<1>2. st'[c] = "s_miss1" /\ ~CacheOpPending(c)
  BY GoesTo DEF StartsMiss, IdleMiss
<1>3. MinState("rd") # T_STATE_MODIFIED
  BY StateNumbers DEF MinState
<1>4. MinState(q.op) = T_STATE_MODIFIED => DMiss(c) /\ q = dreq[c]
  BY <1>1, <1>3 DEF Selected, IMiss
<1>5. mshr'[c].min = T_STATE_MODIFIED => ~dk
  <2>1. PICK ik : \E x \in Misses(c, dk, ik) : mshr'[c].min = MinState(x.req.op)
    BY DEF StartsMiss, IdleMiss, Regs, CtlType, Mshr, NoMshr
  <2>2. dk => \A x \in Misses(c, dk, ik) : x.req = ireq[c] /\ ireq[c] # None
    BY DEF Misses, IMiss
  <2> QED BY <1>3, <2>1, <2>2
<1> QED BY <1>1, <1>2, <1>4, <1>5

(* A data port that misses on a write finds no way open. *)
LEMMA MissOpen ==
    ASSUME NEW c, Regs(c), DMiss(c), MinState(dreq[c].op) = T_STATE_MODIFIED
    PROVE  NoOpen(xtag[c], dreq[c].addr)
<1>1. PICK x, l : x = xtag[c] /\ l = dreq[c].addr
  OBVIOUS
<1>2. \A w \in DWays : Holds(x.l1[w], l) => ~cache_state_test_access_ok(x.l1[w].st, T_STATE_MODIFIED)
  BY <1>1 DEF DMiss, DHit, HitWays, TagWays
<1>3. ASSUME NEW w \in DWays, Held(x.l1[w], l, T_STATE_MODIFIED)
      PROVE  cache_state_test_locked(x.l1[w].st)
  <2>1. Holds(x.l1[w], l) /\ cache_state_unlock(x.l1[w].st) >= 3
    BY <1>3, StateNumbers DEF Held, Holds
  <2>2. cache_state_unlock(T_STATE_MODIFIED) = 3
    BY StateFacts, StateNumbers
  <2> QED BY <1>2, <2>1, <2>2 DEF cache_state_test_access_ok, cache_state_test_at_least
<1> QED BY <1>1, <1>3 DEF NoOpen

(* A data port that hits on a write finds a way open, or the answered miss. *)
LEMMA HitOpen ==
    ASSUME NEW c, Regs(c), LocalInv(c), DHit(c), MinState(dreq[c].op) = T_STATE_MODIFIED,
           dreq[c] # None
    PROVE  \/ ~NoOpen(xtag[c], dreq[c].addr)
           \/ mshr[c].snooped /\ mshr[c].valid /\ mshr[c].addr = dreq[c].addr
              /\ mshr[c].ins = T_STATE_MODIFIED
<1>1. PICK x, l : x = xtag[c] /\ l = dreq[c].addr
  OBVIOUS
<1>2. \A s : cache_state_test_access_ok(s, T_STATE_MODIFIED) =>
               cache_state_unlock(s) >= 3 /\ ~cache_state_test_locked(s)
  BY StateFacts, StateNumbers DEF cache_state_test_access_ok, cache_state_test_at_least
<1>3. CASE \E w \in TagWays(c, DWays, l) : cache_state_test_access_ok(x.l1[w].st, T_STATE_MODIFIED)
  <2>1. PICK w \in DWays : /\ Holds(x.l1[w], l) /\ cache_state_unlock(x.l1[w].st) >= 3
                           /\ ~cache_state_test_locked(x.l1[w].st)
    BY <1>1, <1>2, <1>3 DEF TagWays
  <2>2. Held(x.l1[w], l, T_STATE_MODIFIED)
    BY <2>1, StateNumbers DEF Held, Holds
  <2> QED BY <1>1, <2>1, <2>2 DEF NoOpen
<1>4. CASE RestartOK(c, DWays, dreq[c])
  <2>1. mshr[c].valid /\ mshr[c].addr = l /\ cache_state_unlock(mshr[c].ins) >= 3 /\ bitmap[c]
    BY <1>1, <1>2, <1>4 DEF RestartOK
  <2>2. mshr[c].snooped /\ mshr[c].ins = T_STATE_MODIFIED
    BY <2>1, StateFacts, StateNumbers DEF LocalInv, Regs, Mshr, UnlockedStates
  <2> QED BY <1>1, <2>1, <2>2
<1> QED BY <1>1, <1>3, <1>4 DEF DHit, HitWays
LEMMA NoneHeld ==
    ASSUME NEW t \in Tags
    PROVE  NoMod(t, None) /\ NoOpen(t, None)
<1>1. ASSUME NEW w \in Ways PROVE ~Held(t.l1[w], None, T_STATE_MODIFIED)
  <2>1. t.l1[w] \in L1Entry
    BY DEF Tags
  <2>2. cache_state_unlock(t.l1[w].st) # T_STATE_INVALID => t.l1[w].addr # None
    BY <2>1, LinesAssumption DEF L1Entry
  <2> QED BY <2>2, StateNumbers DEF Held
<1> QED BY <1>1 DEF NoMod, NoOpen, Ways

LEMMA LockedShut ==
    ASSUME NEW e \in L1Entry, NEW l, Held(e, l, T_STATE_MODIFIED)
    PROVE  cache_state_test_locked(Locked(e).st)
<1>1. Locked(e).st = cache_state_lock(e.st) /\ e.st \in 0..7
  BY DEF Locked, L1Entry, Entry, cache_state_t
<1>2. cache_state_unlock(e.st) >= 3
  BY StateNumbers DEF Held
<1> QED BY <1>1, <1>2, StateNumbers DEF cache_state_lock, cache_state_unlock, cache_state_test_locked

LEMMA OpenKept ==
    ASSUME NEW c, Regs(c), NEW l \in Lines, GrowsAsked(c), st'[c] # "s_return1", NoOpen(tag[c], l)
    PROVE  NoOpen(tag'[c], l)
<1>1. SUFFICES ASSUME NEW w \in DWays, Held(tag'[c].l1[w], l, T_STATE_MODIFIED)
               PROVE  cache_state_test_locked(tag'[c].l1[w].st)
  BY DEF NoOpen
<1>2. w \in Ways
  BY DEF Ways
<1>3. PICK e, f : e = tag[c].l1[w] /\ f = tag'[c].l1[w]
  OBVIOUS
<1>4. e \in L1Entry /\ f \in {e, Locked(e)}
  BY <1>1, <1>2, <1>3 DEF GrowsAsked, Regs, Tags
<1>5. Held(e, l, T_STATE_MODIFIED)
  BY <1>1, <1>3, <1>4, LockedHeld
<1>6. cache_state_test_locked(e.st) /\ cache_state_test_locked(Locked(e).st)
  BY <1>3, <1>4, <1>5, LockedShut DEF NoOpen
<1> QED BY <1>3, <1>4, <1>6

LEMMA StillKept ==
    ASSUME NEW c, Regs(c), LocalInv(c), LinkInv(c), Piped(c), NEW dk, WriteStep(c, dk),
           mshr'[c].addr \in Lines \union {None}, tag'[c] \in Tags
    PROVE  InsAsked(mshr'[c]) /\ StillMisses(st'[c], mshr'[c], tag'[c], rtag'[c], xtag'[c])
<1>0. rtag'[c] = tag[c] /\ xtag'[c] = rtag[c] /\ GrowsAsked(c)
  BY DEF Piped, WriteStep
<1>1. PICK m, n, l : m = mshr[c] /\ n = mshr'[c] /\ l = mshr'[c].addr
  OBVIOUS
<1>2. CASE KeepsMiss(m, n)
  <2>1. InsAsked(n)
    BY <1>2 DEF KeepsMiss, InsAsked
  <2>2. SUFFICES ASSUME n.valid, ~n.snooped, n.min = T_STATE_MODIFIED
                 PROVE  /\ NoOpen(rtag[c], l)
                        /\ st'[c] # "s_return2" => NoOpen(tag[c], l)
                        /\ st'[c] \notin {"s_return1", "s_return2"} => NoOpen(tag'[c], l)
    BY <1>0, <1>1, <2>1 DEF StillMisses
  <2>3. m.valid /\ ~m.snooped /\ m.min = T_STATE_MODIFIED /\ m.addr = l
    BY <1>1, <1>2, <2>2 DEF KeepsMiss
  <2>4. st[c] # "s_return2" /\ (st'[c] # "s_return2" => st[c] # "s_return1")
    BY <1>1, <2>2 DEF WriteStep
  <2>5. NoOpen(rtag[c], l) /\ (st[c] \notin {"s_return1", "s_return2"} => NoOpen(tag[c], l))
    BY <1>1, <2>3, <2>4 DEF LinkInv, StillMisses
  <2>6. l = None \/ l \in Lines
    BY <1>1
  <2>7. l = None => NoOpen(tag'[c], l)
    BY NoneHeld
  <2> QED BY <1>0, <2>4, <2>5, <2>6, <2>7, OpenKept
<1>3. CASE StartsMiss(c, dk)
  <2>1. /\ n.ins = n.min /\ st'[c] = "s_miss1" /\ st[c] = "s_idle"
        /\ n.min = T_STATE_MODIFIED => DMiss(c) /\ l = dreq[c].addr
                                       /\ MinState(dreq[c].op) = T_STATE_MODIFIED
    BY <1>1, <1>3, StartAsks DEF LinkInv, StartsMiss
  <2>2. xtag[c] = tag[c] /\ rtag[c] = tag[c]
    BY <2>1 DEF LocalInv, InPipe
  <2>3. SUFFICES ASSUME n.min = T_STATE_MODIFIED
                 PROVE  NoOpen(tag[c], l) /\ NoOpen(tag'[c], l)
    BY <1>0, <1>1, <2>1, <2>2 DEF StillMisses, InsAsked
  <2>4. NoOpen(tag[c], l)
    BY <2>1, <2>2, <2>3, MissOpen
  <2>5. l \in Lines
    BY <2>1, <2>3 DEF DMiss, Regs, PortType, PortReq
  <2> QED BY <1>0, <2>1, <2>4, <2>5, OpenKept
<1> QED BY <1>1, <1>2, <1>3 DEF WriteStep

LEMMA ModKept ==
    ASSUME NEW c, Regs(c), NEW l \in Lines, GrowsAsked(c), NoMod(tag[c], l), ~Asks(mshr[c], l)
    PROVE  NoMod(tag'[c], l)
<1>1. SUFFICES ASSUME NEW w \in Ways, Held(tag'[c].l1[w], l, T_STATE_MODIFIED) PROVE FALSE
  BY DEF NoMod
<1>2. PICK e, f : e = tag[c].l1[w] /\ f = tag'[c].l1[w]
  OBVIOUS
<1>3. e \in L1Entry /\ ~Held(e, l, T_STATE_MODIFIED)
  BY <1>2 DEF Regs, Tags, NoMod
<1>4. ~Held(Locked(e), l, T_STATE_MODIFIED)
  BY <1>3, LockedHeld
<1> QED BY <1>1, <1>2, <1>3, <1>4 DEF GrowsAsked

LEMMA LinkKept ==
    ASSUME NEW c, Regs(c), LocalInv(c), LinkInv(c), Piped(c), NEW dk, WriteStep(c, dk), LinkStep(c, dk),
           link[c].addr \in Lines \union {None}, tag'[c] \in Tags
    PROVE  LinkQuiet(c)'
<1>0. rtag'[c] = tag[c] /\ xtag'[c] = rtag[c] /\ GrowsAsked(c)
  BY DEF Piped, WriteStep
<1>1. PICK m, n, k, l : m = mshr[c] /\ n = mshr'[c] /\ k = link'[c] /\ l = link'[c].addr
  OBVIOUS
<1>2. CASE (dk \/ ~DMiss(c)) /\ ~(LLWaits(c) /\ LLAt(c, link[c].addr)) /\ link'[c] = link[c]
  <2>1. ~(k.v /\ k.wait) /\ (dk \/ ~DMiss(c)) /\ k = link[c]
    BY <1>1, <1>2 DEF LinkInv, LinkQuiet, LLWaits
  <2>2. /\ k.v /\ Asks(m, l) => m.snooped
        /\ k.v /\ k.lost => /\ ~Asks(m, l) /\ NoMod(tag[c], l) /\ NoMod(rtag[c], l)
    BY <1>1, <2>1 DEF LinkInv, LinkQuiet
  <2>3. Asks(n, l) => Asks(m, l) /\ (m.snooped => n.snooped)
    <3>1. CASE KeepsMiss(m, n)
      BY <3>1 DEF KeepsMiss, Asks
    <3>2. CASE StartsMiss(c, dk)
      BY <1>1, <2>1, <3>2, StartAsks DEF Asks, LinkInv
    <3> QED BY <1>1, <3>1, <3>2 DEF WriteStep
  <2>4. k.v /\ k.lost => NoMod(tag'[c], l)
    <3>1. l \in Lines \union {None}
      BY <1>1, <1>2
    <3>2. CASE l \in Lines
      BY <1>0, <1>1, <2>2, <3>2, ModKept
    <3>3. CASE l = None
      BY <3>3, NoneHeld
    <3> QED BY <3>1, <3>2, <3>3
  <2> QED BY <1>0, <1>1, <2>1, <2>2, <2>3, <2>4 DEF LinkQuiet, LLWaits
<1>3. CASE ~link'[c].v
  BY <1>3 DEF LinkQuiet, LLWaits
<1>4. CASE /\ LLAt(c, link'[c].addr) /\ ~link'[c].lost /\ (link'[c].wait <=> DMiss(c))
           /\ DMiss(c) => dreq'[c] = dreq[c]
  <2>1. CASE DMiss(c)
    <3>1. LLAt(c, l)'
      BY <1>1, <1>4, <2>1 DEF LLAt
    <3> QED BY <1>1, <1>4, <2>1, <3>1 DEF LinkQuiet
  <2>2. CASE ~DMiss(c)
    <3>1. dreq[c] # None /\ dreq[c].op = "ll" /\ dreq[c].addr = l /\ DHit(c)
      BY <1>1, <1>4, <2>2 DEF LLAt, DMiss
    <3>2. MinState(dreq[c].op) = T_STATE_MODIFIED
      BY <3>1 DEF MinState
    <3>3. ~NoOpen(xtag[c], l) \/ m.snooped
      BY <1>1, <3>1, <3>2, HitOpen
    <3>4. Asks(m, l) => m.snooped
      BY <1>1, <3>3 DEF LinkInv, StillMisses, Asks
    <3>5. Asks(n, l) => n.snooped
      <4>1. CASE KeepsMiss(m, n)
        BY <3>4, <4>1 DEF KeepsMiss, Asks
      <4>2. CASE StartsMiss(c, dk)
        BY <1>1, <2>2, <4>2, StartAsks DEF Asks, LinkInv
      <4> QED BY <1>1, <4>1, <4>2 DEF WriteStep
    <3> QED BY <1>1, <1>4, <2>2, <3>5 DEF LinkQuiet, LLWaits
  <2> QED BY <2>1, <2>2
<1> QED BY <1>2, <1>3, <1>4 DEF LinkStep
-----------------------------------------------------------------------------
(* What an edge of processor c does to the ports: a foreign store marks the *)
(* links of its line. *)
PortStep(c) ==
    /\ \E dk, ik, m_halt, moves : LinkStep(c, dk) /\ StateMachine(c, dk, ik, m_halt, moves)
    /\ ireq'[c] # None => ireq'[c] = ireq[c] \/ ireq'[c].op = "rd"
    /\ \A b \in CPUs : b # c =>
         /\ dreq'[b] = dreq[b] /\ ireq'[b] = ireq[b]
         /\ link'[b].v = link[b].v /\ link'[b].addr = link[b].addr /\ link'[b].wait = link[b].wait
         /\ link'[b].lost =>
              \/ link[b].lost
              \/ \E kill : Stores(c, kill) /\ dreq[c].addr = link[b].addr

LEMMA ForeignMark ==
    ASSUME NEW c, Regs(c), NEW kill, LinkClock(c, kill), NEW b \in CPUs, b # c
    PROVE  /\ link'[b].v = link[b].v /\ link'[b].addr = link[b].addr /\ link'[b].wait = link[b].wait
           /\ link'[b].lost =>
                \/ link[b].lost
                \/ Stores(c, kill) /\ dreq[c].addr = link[b].addr
<1>1. PICK o : o = IF Stores(c, kill) THEN MarkLost(c, dreq[c].addr) ELSE link
  OBVIOUS
<1>2. link' = [o EXCEPT ![c] = LinkNext(c, kill)]
  BY <1>1 DEF LinkClock
<1>3. b \in DOMAIN o
  BY <1>1 DEF MarkLost, Regs, PortType
<1>4. link'[b] = o[b]
  BY <1>2, <1>3
<1>5. PICK k : k = link[b]
  OBVIOUS
<1>6. k \in LinkReg
  BY <1>5 DEF Regs, PortType, LinkReg
<1>7. CASE ~Stores(c, kill)
  BY <1>1, <1>4, <1>7
<1>8. CASE Stores(c, kill)
  <2>1. o[b] = IF k.v /\ k.addr = dreq[c].addr THEN [k EXCEPT !.lost = TRUE] ELSE k
    BY <1>1, <1>5, <1>8 DEF MarkLost
  <2>2. /\ [k EXCEPT !.lost = TRUE].v = k.v /\ [k EXCEPT !.lost = TRUE].addr = k.addr
        /\ [k EXCEPT !.lost = TRUE].wait = k.wait
    BY <1>6 DEF LinkReg
  <2>3. CASE k.v /\ k.addr = dreq[c].addr
    BY <1>4, <1>5, <1>8, <2>1, <2>2, <2>3
  <2>4. CASE ~(k.v /\ k.addr = dreq[c].addr)
    BY <1>4, <1>5, <2>1, <2>4
  <2> QED BY <2>3, <2>4
<1> QED BY <1>7, <1>8

LEMMA EdgePorts ==
    ASSUME TypeInv, NEW c \in CPUs, CPUClock(c)
    PROVE  PortStep(c)
<1>0. Regs(c)
  BY TypedRegs
<1>1. PICK m_halt, moves : CPUEdge(c, m_halt, moves)
  BY DEF CPUClock, CPUClockWith
<1>2. PICK dkill, ikill : /\ \/ DIssue(c)
                             \/ DAccess(c, dkill)
                             \/ DCacheOp(c, st[c] = "s_return2" /\ inv[c].expl)
                          /\ IIssue(c) \/ IAccess(c, ikill)
                          /\ LinkClock(c, dkill)
                          /\ StateMachine(c, dkill, ikill, m_halt, moves)
  BY <1>1 DEF CPUEdge
<1>3. LinkStep(c, dkill)
  BY <1>0, <1>2, PortLinks
<1>4. /\ ireq'[c] # None => ireq'[c] = ireq[c] \/ ireq'[c].op = "rd"
      /\ \A b \in CPUs : b # c => ireq'[b] = ireq[b]
  BY <1>0, <1>2 DEF IIssue, IAccess, Regs, PortType, Port
<1>5. \A b \in CPUs : b # c => dreq'[b] = dreq[b]
  BY <1>0, <1>2 DEF DIssue, DAccess, DCacheOp, Regs, PortType
<1>6. \A b \in CPUs : b # c =>
         /\ link'[b].v = link[b].v /\ link'[b].addr = link[b].addr /\ link'[b].wait = link[b].wait
         /\ link'[b].lost =>
              \/ link[b].lost
              \/ Stores(c, dkill) /\ dreq[c].addr = link[b].addr
  BY <1>0, <1>2, ForeignMark
<1>7. \E dk, ik, mh, mv : LinkStep(c, dk) /\ StateMachine(c, dk, ik, mh, mv)
  BY <1>2, <1>3
<1> QED BY <1>4, <1>5, <1>6, <1>7 DEF PortStep

(* Another processor stores: the line is gone from the linked one. *)
LEMMA StoredAway ==
    ASSUME CohInv, NEW c \in CPUs, NEW b \in CPUs, b # c, NEW kill, Stores(c, kill)
    PROVE  /\ NoMod(tag[b], dreq[c].addr) /\ NoMod(rtag[b], dreq[c].addr)
           /\ NoMod(xtag[b], dreq[c].addr)
           /\ Asks(mshr[b], dreq[c].addr) => ~mshr[b].snooped
<1>1. Regs(c) /\ LocalInv(c) /\ Regs(b) /\ LocalInv(b) /\ OneWriter
  BY TypedRegs DEF CohInv
<1>2. PICK l : l = dreq[c].addr
  OBVIOUS
<1>3. l \in Lines /\ Sees(c, l, T_STATE_EXCLUSIVE)
  BY <1>1, <1>2, StoreSees
<1>4. ~Sees(b, l, T_STATE_SHARED)
  BY <1>1, <1>3 DEF OneWriter
<1>5. ~Has(xtag[b], l, T_STATE_SHARED) /\ ~Won(mshr[b], l, T_STATE_SHARED)
  BY <1>4 DEF Sees
<1>6. ~Has(rtag[b], l, T_STATE_SHARED) /\ ~Has(tag[b], l, T_STATE_SHARED)
  BY <1>1, <1>3, <1>5, LevelNumbers DEF LocalInv, Covered
<1>7. ASSUME NEW t \in Tags, ~Has(t, l, T_STATE_SHARED) PROVE NoMod(t, l)
  <2>1. SUFFICES ASSUME NEW w \in Ways, Held(t.l1[w], l, T_STATE_MODIFIED) PROVE FALSE
    BY DEF NoMod
  <2>2. t.l1[w] \in L1Entry
    BY DEF Tags
  <2>3. Held(t.l1[w], l, T_STATE_SHARED)
    BY <2>1, <2>2, HeldLower, StateNumbers
  <2> QED BY <1>7, <2>3 DEF Has
<1>8. tag[b] \in Tags /\ rtag[b] \in Tags /\ xtag[b] \in Tags
  BY <1>1 DEF Regs, TagType
<1>9. mshr[b].valid /\ mshr[b].addr = l => ~mshr[b].snooped
  <2>1. mshr[b].valid /\ mshr[b].snooped => mshr[b].ins \in UnlockedStates /\ mshr[b].ins # 0
    BY <1>1, StateNumbers DEF LocalInv, MissReg, Regs, Mshr
  <2> QED BY <1>5, <2>1, StateNumbers DEF Won, UnlockedStates
<1> QED BY <1>2, <1>5, <1>6, <1>7, <1>8, <1>9 DEF Asks

LEMMA OthersLinked ==
    ASSUME CohInv, NEW c \in CPUs, NEW b \in CPUs, b # c, Edge(c), PortStep(c), LinkInv(b)
    PROVE  LinkInv(b)'
<1>1. /\ st'[b] = st[b] /\ mshr'[b] = mshr[b]
      /\ tag'[b] = tag[b] /\ rtag'[b] = rtag[b] /\ xtag'[b] = xtag[b]
  BY DEF Edge
<1>2. /\ dreq'[b] = dreq[b] /\ ireq'[b] = ireq[b]
      /\ link'[b].v = link[b].v /\ link'[b].addr = link[b].addr /\ link'[b].wait = link[b].wait
      /\ link'[b].lost =>
           \/ link[b].lost
           \/ \E kill : Stores(c, kill) /\ dreq[c].addr = link[b].addr
  BY DEF PortStep
<1>3. PICK l : l = link[b].addr
  OBVIOUS
<1>4. (LLAt(b, l)' <=> LLAt(b, l)) /\ (LLWaits(b)' <=> LLWaits(b))
  BY <1>2 DEF LLAt, LLWaits
<1>5. ASSUME link[b].v, link'[b].lost, ~link[b].wait
      PROVE  /\ ~Asks(mshr[b], l) /\ NoMod(tag[b], l) /\ NoMod(rtag[b], l) /\ NoMod(xtag[b], l)
  <2>1. CASE link[b].lost
    BY <1>3, <1>5, <2>1 DEF LinkInv, LinkQuiet
  <2>2. CASE ~link[b].lost
    <3>1. PICK kill : Stores(c, kill) /\ dreq[c].addr = l
      BY <1>2, <1>3, <1>5, <2>2
    <3>2. /\ NoMod(tag[b], dreq[c].addr) /\ NoMod(rtag[b], dreq[c].addr)
          /\ NoMod(xtag[b], dreq[c].addr)
          /\ Asks(mshr[b], dreq[c].addr) => ~mshr[b].snooped
      BY <3>1, StoredAway
    <3>3. Asks(mshr[b], l) => mshr[b].snooped
      BY <1>3, <1>5 DEF LinkInv, LinkQuiet
    <3> QED BY <3>1, <3>2, <3>3
  <2> QED BY <2>1, <2>2
<1>6. LinkQuiet(b)'
  <2>1. /\ link[b].v /\ ~link[b].wait /\ Asks(mshr[b], l) => mshr[b].snooped
        /\ LLWaits(b) => LLAt(b, l)
    BY <1>3 DEF LinkInv, LinkQuiet
  <2> QED BY <1>1, <1>2, <1>3, <1>4, <1>5, <2>1 DEF LinkQuiet
<1> QED BY <1>1, <1>2, <1>6 DEF LinkInv

LEMMA EdgeLinks ==
    ASSUME CohInv, CohInv', \A b \in CPUs : LinkInv(b), NEW c \in CPUs, CPUClock(c)
    PROVE  \A b \in CPUs : LinkInv(b)'
<1>1. Edge(c) /\ Regs(c) /\ LocalInv(c) /\ LocalInv(c)' /\ PortStep(c)
  BY EdgeLocal, EdgePorts DEF CohInv
<1>2. PICK dk, ik, m_halt, moves : LinkStep(c, dk) /\ StateMachine(c, dk, ik, m_halt, moves)
  BY <1>1 DEF PortStep
<1>3. WriteStep(c, dk) /\ Piped(c) /\ LinkStep(c, dk) /\ LinkInv(c)
  BY <1>1, <1>2, MachineWrites DEF LinkInv, Edge, PortStep
<1>4. /\ mshr'[c].addr \in Lines \union {None} /\ tag'[c] \in Tags
      /\ link[c].addr \in Lines \union {None}
  BY <1>1 DEF CohInv, TypeInv, CtlType, TagType, Regs, PortType, Mshr
<1>5. InsAsked(mshr'[c]) /\ StillMisses(st'[c], mshr'[c], tag'[c], rtag'[c], xtag'[c])
  BY <1>1, <1>3, <1>4, StillKept
<1>6. LinkQuiet(c)'
  BY <1>1, <1>3, <1>4, LinkKept
<1>7. ireq'[c] # None => ireq'[c].op = "rd"
  BY <1>1, <1>3 DEF PortStep, LinkInv
<1>8. LinkInv(c)'
  BY <1>5, <1>6, <1>7 DEF LinkInv
<1> QED BY <1>1, <1>8, OthersLinked

ScInv == CohInv /\ \A c \in CPUs : LinkInv(c)

LEMMA StartLinked == Init => \A c \in CPUs : LinkInv(c)
<1> SUFFICES ASSUME Init, NEW c \in CPUs PROVE LinkInv(c)
  OBVIOUS
<1>1. ireq[c] = None /\ mshr[c] = NoMshr /\ link[c] = NoLink
  BY DEF Init, L1Init
<1>2. ~NoMshr.valid /\ ~NoLink.v
  BY DEF NoMshr, NoLink
<1> QED BY <1>1, <1>2 DEF LinkInv, InsAsked, StillMisses, LinkQuiet, LLWaits

LEMMA ScInvSuffices == ScInv => ScAtomic
<1> SUFFICES ASSUME ScInv, NEW c \in CPUs, ScOK(c), link[c].lost PROVE FALSE
  BY DEF ScAtomic
<1>1. Regs(c) /\ LocalInv(c) /\ LinkInv(c)
  BY TypedRegs DEF ScInv, CohInv
<1>2. PICK l : l = link[c].addr
  OBVIOUS
<1>3. dreq[c] # None /\ dreq[c].op = "sc" /\ link[c].v /\ l = dreq[c].addr /\ DHit(c)
  BY <1>2 DEF ScOK
<1>4. ~link[c].wait /\ MinState(dreq[c].op) = T_STATE_MODIFIED
  BY <1>1, <1>2, <1>3 DEF LinkInv, LinkQuiet, LLWaits, LLAt, MinState
<1>5. ~Asks(mshr[c], l) /\ NoMod(xtag[c], l)
  BY <1>1, <1>2, <1>3, <1>4 DEF LinkInv, LinkQuiet
<1>6. NoOpen(xtag[c], l)
  BY <1>5 DEF NoOpen, NoMod, Ways
<1>7. mshr[c].valid /\ mshr[c].addr = l /\ mshr[c].ins = T_STATE_MODIFIED
  BY <1>1, <1>3, <1>4, <1>6, HitOpen
<1> QED BY <1>1, <1>5, <1>7 DEF LinkInv, InsAsked, Asks

(* A store conditional of one of two or more processors succeeds only when *)
(* no other processor has stored to the line since its ll: whatever takes *)
(* the line away makes the sc miss (ScOK of l1.vhd), and no miss on the way *)
(* for the ll brings it back after the ll has completed. *)
THEOREM ScAtomicSafety ==
    ASSUME DMAs = {}, NAGENTS >= 2
    PROVE  Spec => []ScAtomic
<1>1. Init => ScInv
  BY StartCohInv, StartLinked DEF ScInv
<1>2. CohInv /\ [Next]_vars => CohInv'
  BY NextKeepsCohInv
<1>3. ScInv /\ CohInv' /\ [Next]_vars => ScInv'
  <2> SUFFICES ASSUME ScInv, CohInv', [Next]_vars, NEW c \in CPUs PROVE LinkInv(c)'
    BY DEF ScInv
  <2>0. CohInv /\ \A b \in CPUs : LinkInv(b)
    BY DEF ScInv
  <2>1. CASE \E b \in CPUs : CPUClock(b)
    BY <2>0, <2>1, EdgeLinks
  <2>2. CASE Settle \/ UNCHANGED vars
    <3>1. UNCHANGED <<tag, rtag, xtag, dreq, ireq, link, mshr, st>>
      BY <2>2 DEF Settle, vars, ccVars, l1Vars, ctlVars
    <3>2. LinkInv(c)
      BY <2>0
    <3> QED BY <3>1, <3>2 DEF LinkInv, LinkQuiet, LLWaits, LLAt
  <2> QED BY <2>1, <2>2 DEF Next
<1>4. ScInv => ScAtomic /\ CohInv
  BY ScInvSuffices DEF ScInv
<1> QED BY <1>1, <1>2, <1>3, <1>4, PTL DEF Spec

-----------------------------------------------------------------------------
(* Data.  An entry that lets an access through that needs state n. *)
Open(e, l, n) == Held(e, l, n) /\ ~cache_state_test_locked(e.st)

Shut(e) == \A l \in Lines : ~Open(e, l, T_STATE_SHARED)

ReturnStates == {"s_return1", "s_return2"}

(* The refill of a miss writes its tags. *)
FillEnds(c) == st[c] = "s_miss5" /\ st'[c] = "s_return1"

(* What a clock of a controller does to the entries of its L1 caches: where *)
(* a line, a dirty line and an open dirty line come from, and where a dirty *)
(* line goes. *)
LineFrom(c, w, l) ==
    Held(tag'[c].l1[w], l, T_STATE_SHARED) =>
        \/ Held(tag[c].l1[w], l, T_STATE_SHARED)
        \/ FillEnds(c) /\ w = mshr[c].way /\ l = mshr[c].addr

DirtyFrom(c, w, l) ==
    Held(tag'[c].l1[w], l, T_STATE_MODIFIED) =>
        \/ Held(tag[c].l1[w], l, T_STATE_MODIFIED)
        \/ /\ st[c] \in {"s_miss1", "s_lsnoop_promote3", "s_miss5"}
           /\ w = mshr[c].way /\ mshr[c].valid /\ mshr[c].min = T_STATE_MODIFIED

OpenFrom(c, w, l) ==
    Open(tag'[c].l1[w], l, T_STATE_MODIFIED) =>
        \/ Open(tag[c].l1[w], l, T_STATE_MODIFIED)
        \/ st[c] \in {"s_miss1", "s_lsnoop_promote3"}
        \/ FillEnds(c) /\ w = mshr[c].way /\ l = mshr[c].addr

DirtyGoes(c, w, l) ==
    Held(tag[c].l1[w], l, T_STATE_MODIFIED) =>
        \/ Held(tag'[c].l1[w], l, T_STATE_MODIFIED)
        \/ st[c] = "s_inv2" /\ w = inv[c].way /\ Held(tag'[c].l1[w], l, T_STATE_EXCLUSIVE)
        \/ st[c] = "s_inv1" /\ st'[c] = "s_return1" /\ inv[c].act = "hit_inv" /\ l = inv[c].addr
        \/ FillEnds(c) /\ w = mshr[c].way

L1Step(c) ==
    \A w \in Ways, l \in Lines :
        LineFrom(c, w, l) /\ DirtyFrom(c, w, l) /\ OpenFrom(c, w, l) /\ DirtyGoes(c, w, l)

(* The same for L2. *)
L2Step(c) ==
    \A q \in L2Sets, l \in Lines :
        Held(tag'[c].l2[q], l, T_STATE_SHARED) =>
            \/ /\ Held(tag[c].l2[q], l, T_STATE_SHARED)
               /\ ~(FillEnds(c) /\ mshr[c].old # T_STATE_INVALID /\ q = L2Set[oldaddr[c]])
            \/ /\ FillEnds(c) /\ mshr[c].old # T_STATE_INVALID
               /\ q = L2Set[oldaddr[c]] /\ l = oldaddr[c]

(* What the steps that end or begin something leave in the tags. *)
Leaves(c) ==
    /\ FillEnds(c) => tag'[c].l1[mshr[c].way] = MkEntry(mshr[c].addr, mshr[c].ins)
    /\ st[c] = "s_miss1" /\ st'[c] \in RefillStates => Shut(tag'[c].l1[mshr[c].way])
    /\ st[c] = "s_inv1" /\ inv[c].act = "hit_inv" =>
         /\ st'[c] = "s_return1"
         /\ \A w \in Ways : ~Held(tag'[c].l1[w], inv[c].addr, T_STATE_SHARED)
    /\ st[c] = "s_inv2" => tag'[c].l1[inv[c].way].addr = tag[c].l1[inv[c].way].addr

TagStep(c) == L1Step(c) /\ L2Step(c) /\ Leaves(c)

LEMMA SameTagStep ==
    ASSUME NEW c, tag' = tag, ~FillEnds(c), st[c] \notin {"s_miss1", "s_inv1", "s_inv2"}
    PROVE  TagStep(c)
BY DEF TagStep, L1Step, L2Step, Leaves, LineFrom, DirtyFrom, OpenFrom, DirtyGoes

LEMMA MadeOpen ==
    ASSUME NEW l, NEW s \in UnlockedStates, NEW k \in Lines, NEW n \in 1..3
    PROVE  Open(MkEntry(l, s), k, n) <=> l = k /\ s >= n
<1>1. Held(MkEntry(l, s), k, n) <=> l = k /\ s >= n
  BY MadeHeld
<1>2. ASSUME Held(MkEntry(l, s), k, n) PROVE ~cache_state_test_locked(MkEntry(l, s).st)
  <2>1. s >= n
    BY <1>1, <1>2
  <2>2. MkEntry(l, s).st = s
    BY <2>1, StateNumbers DEF MkEntry, UnlockedStates
  <2> QED BY <2>2, StateNumbers DEF cache_state_test_locked, UnlockedStates
<1> QED BY <1>1, <1>2 DEF Open

(* A write of one way, in place. *)
LEMMA InPlaceStep ==
    ASSUME NEW c, Regs(c), NEW way \in Ways, NEW l \in Lines, NEW s \in UnlockedStates,
           Held(tag[c].l1[way], l, T_STATE_SHARED),
           \A w \in Ways : tag'[c].l1[w] = IF w \in {way} THEN MkEntry(l, s) ELSE tag[c].l1[w],
           tag'[c].l2 = tag[c].l2, ~FillEnds(c),
           Held(tag[c].l1[way], l, T_STATE_MODIFIED) =>
               \/ s = T_STATE_MODIFIED
               \/ st[c] = "s_inv2" /\ way = inv[c].way /\ s = T_STATE_EXCLUSIVE,
           s = T_STATE_MODIFIED =>
               /\ st[c] \in {"s_miss1", "s_lsnoop_promote3"}
               /\ way = mshr[c].way /\ mshr[c].valid
               /\ mshr[c].min = T_STATE_MODIFIED \/ Held(tag[c].l1[way], l, T_STATE_MODIFIED)
    PROVE  L1Step(c) /\ L2Step(c)
<1> USE StateNumbers
<1>0. 1 \in 1..3 /\ 2 \in 1..3 /\ 3 \in 1..3 /\ \A x \in UnlockedStates : x >= 3 <=> x = 3
  BY DEF UnlockedStates
<1>1. \A k \in Lines : /\ Held(tag'[c].l1[way], k, 1) <=> l = k /\ s >= 1
                       /\ Held(tag'[c].l1[way], k, 2) <=> l = k /\ s >= 2
                       /\ Held(tag'[c].l1[way], k, 3) <=> l = k /\ s >= 3
                       /\ Open(tag'[c].l1[way], k, 3) <=> l = k /\ s >= 3
  BY <1>0, MadeHeld, MadeOpen
<1>2. \A k \in Lines : Held(tag[c].l1[way], k, 3) => k = l
  BY DEF Held
<1>3. ASSUME NEW k \in Lines
      PROVE  LineFrom(c, way, k) /\ DirtyFrom(c, way, k) /\ OpenFrom(c, way, k) /\ DirtyGoes(c, way, k)
  <2>1. LineFrom(c, way, k)
    BY <1>1 DEF LineFrom
  <2>2. DirtyFrom(c, way, k)
    BY <1>0, <1>1 DEF DirtyFrom
  <2>3. OpenFrom(c, way, k)
    BY <1>0, <1>1 DEF OpenFrom
  <2>4. DirtyGoes(c, way, k)
    BY <1>0, <1>1, <1>2 DEF DirtyGoes
  <2> QED BY <2>1, <2>2, <2>3, <2>4
<1>4. ASSUME NEW w \in Ways, NEW k \in Lines, w # way
      PROVE  LineFrom(c, w, k) /\ DirtyFrom(c, w, k) /\ OpenFrom(c, w, k) /\ DirtyGoes(c, w, k)
  BY <1>4 DEF LineFrom, DirtyFrom, OpenFrom, DirtyGoes
<1>5. L2Step(c)
  BY DEF L2Step
<1> QED BY <1>3, <1>4, <1>5 DEF L1Step

(* The lock of the way a refill will use. *)
LEMMA LockStep ==
    ASSUME NEW c, Regs(c), NEW way \in Ways, st[c] = "s_miss1", way = mshr[c].way,
           \A w \in Ways : tag'[c].l1[w] = IF w = way THEN Locked(tag[c].l1[w]) ELSE tag[c].l1[w],
           \A q \in L2Sets : tag'[c].l2[q] \in {tag[c].l2[q], EmptyEntry}
    PROVE  TagStep(c)
<1> USE StateNumbers
<1>0. 1 \in 1..3 /\ ~FillEnds(c) /\ \A w \in Ways : tag[c].l1[w] \in L1Entry
  BY DEF FillEnds, Regs, Tags
<1>1. \A w \in Ways, l \in Lines, n \in 1..3 : Held(tag'[c].l1[w], l, n) <=> Held(tag[c].l1[w], l, n)
  BY <1>0, LockedHeld
<1>2. L1Step(c)
  <2>1. \A w \in Ways, l \in Lines : LineFrom(c, w, l) /\ DirtyFrom(c, w, l) /\ DirtyGoes(c, w, l)
    BY <1>1 DEF LineFrom, DirtyFrom, DirtyGoes
  <2>2. \A w \in Ways, l \in Lines : OpenFrom(c, w, l)
    BY DEF OpenFrom
  <2> QED BY <2>1, <2>2 DEF L1Step
<1>3. L2Step(c)
  BY <1>0, EmptyHeld DEF L2Step
<1>4. Shut(tag'[c].l1[way])
  <2>1. PICK e : e = tag[c].l1[way]
    OBVIOUS
  <2>2. e \in L1Entry /\ tag'[c].l1[way] = Locked(e)
    BY <1>0, <2>1
  <2>3. Locked(e).st = cache_state_lock(e.st) /\ e.st \in cache_state_t
    BY <2>2 DEF Locked, L1Entry, Entry
  <2>4. ASSUME NEW l \in Lines, Open(Locked(e), l, 1) PROVE FALSE
    <3>1. cache_state_unlock(Locked(e).st) >= 1 /\ ~cache_state_test_locked(Locked(e).st)
      BY <2>4 DEF Open, Held
    <3>2. cache_state_lock(e.st) >= 4
      BY <2>3 DEF cache_state_lock, cache_state_t
    <3> QED BY <2>3, <3>1, <3>2 DEF cache_state_test_locked
  <2> QED BY <2>2, <2>4 DEF Shut
<1> QED BY <1>0, <1>2, <1>3, <1>4 DEF TagStep, Leaves

LEMMA MissTagStep ==
    ASSUME NEW c, Regs(c), LocalInv(c), LocalInv(c)', s_miss1(c)
    PROVE  TagStep(c)
<1> USE StateNumbers
<1>0. st[c] = "s_miss1" /\ st'[c] # "s_bug" /\ ~FillEnds(c)
  BY DEF s_miss1, LocalInv, FillEnds
<1>1. PICK m, t, e : AtMiss(c, m, t, e) /\ e = MissEntry(c)
  BY MissFacts
<1>2. /\ m = mshr[c] /\ t = tag[c] /\ e = t.l1[m.way] /\ m.addr \in Lines /\ m.way \in Ways
      /\ m \in Mshr /\ m.valid /\ e \in L1Entry /\ m.min \in {1, 3}
      /\ m.cur # 0 => e.addr = m.addr /\ cache_state_unlock(e.st) = m.cur
  BY <1>1 DEF AtMiss
<1>3. CASE tag' = tag /\ st'[c] \notin RefillStates
  BY <1>0, <1>3 DEF TagStep, L1Step, L2Step, Leaves, LineFrom, DirtyFrom, OpenFrom, DirtyGoes
<1>4. ASSUME NEW s \in UnlockedStates, WriteL1(c, {m.way}, m.addr, s),
             st'[c] = "s_return1", m.cur # 0, s >= m.cur,
             s = 3 => m.min = 3 \/ m.cur = 3
      PROVE  TagStep(c)
  <2>1. PICK way, l : way = m.way /\ l = m.addr
    OBVIOUS
  <2>2. /\ tag'[c].l2 = tag[c].l2
        /\ \A w \in Ways : tag'[c].l1[w] = IF w \in {way} THEN MkEntry(l, s) ELSE tag[c].l1[w]
    BY <1>4, <2>1, L1Written
  <2>3. m.cur \in 1..3 /\ way \in Ways /\ l \in Lines
    BY <1>2, <1>4, <2>1 DEF Mshr, UnlockedStates
  <2>4. /\ Held(tag[c].l1[way], l, 1)
        /\ Held(tag[c].l1[way], l, 3) <=> m.cur = 3
    BY <1>2, <1>4, <2>1, <2>3 DEF Held
  <2>5. s \in 0..3
    BY DEF UnlockedStates
  <2>6. /\ Held(tag[c].l1[way], l, 3) => s = 3
        /\ s = 3 => /\ st[c] \in {"s_miss1", "s_lsnoop_promote3"}
                    /\ way = mshr[c].way /\ mshr[c].valid
                    /\ mshr[c].min = 3 \/ Held(tag[c].l1[way], l, 3)
    BY <1>0, <1>2, <1>4, <2>1, <2>3, <2>4, <2>5
  <2>7. L1Step(c) /\ L2Step(c)
    BY <1>0, <2>2, <2>3, <2>4, <2>6, InPlaceStep
  <2>8. Leaves(c)
    BY <1>0, <1>4 DEF Leaves, RefillStates
  <2> QED BY <2>7, <2>8 DEF TagStep
<1>5. \A bug : Goto(c, "s_return1", bug) => st'[c] = "s_return1"
  BY <1>0, GoesTo
<1>6. CASE Miss1Cross(c)
  <2>1. \A bug : Goto(c, "s_inv1", bug) => st'[c] = "s_inv1"
    BY <1>0, GoesTo
  <2>2. tag' = tag /\ st'[c] = "s_inv1"
    BY <1>6, <2>1 DEF Miss1Cross
  <2> QED BY <1>3, <2>2 DEF RefillStates
<1>7. CASE Miss1Promote(c)
  <2>0. \A bug : Goto(c, "s_lsnoop_promote1", bug) => st'[c] = "s_lsnoop_promote1"
    BY <1>0, GoesTo
  <2>1. \/ tag' = tag /\ st'[c] = "s_lsnoop_promote1"
        \/ WriteL1(c, {m.way}, m.addr, m.min) /\ st'[c] = "s_return1" /\ m.cur < m.min /\ m.cur # 0
    BY <1>2, <1>5, <1>7, <2>0 DEF Miss1Promote
  <2>2. m.min \in UnlockedStates /\ (m.cur < m.min => m.min >= m.cur)
    BY <1>2 DEF Mshr, UnlockedStates
  <2> QED BY <1>3, <1>4, <2>1, <2>2 DEF RefillStates
<1>8. CASE Miss1Unlock(c)
  <2>1. PICK s : s = cache_state_unlock(e.st)
    OBVIOUS
  <2>2. WriteL1(c, {m.way}, e.addr, s) /\ st'[c] = "s_return1" /\ m.cur # 0
    BY <1>1, <1>2, <1>5, <1>8, <2>1 DEF Miss1Unlock
  <2>3. s = m.cur /\ e.addr = m.addr /\ s \in UnlockedStates /\ s >= m.cur
    BY <1>2, <2>1, <2>2 DEF Mshr, UnlockedStates
  <2> QED BY <1>4, <2>2, <2>3
<1>9. CASE Miss1Refill(c) /\ L2Hit(c, m.addr)
  <2>1. PICK way, q : way = m.way /\ q = L2Set[m.addr]
    OBVIOUS
  <2>2. /\ Miss1Refill(c)
        /\ L2Hit(c, m.addr)
        /\ AtMiss(c, m, t, e)
    BY <1>1, <1>9
  <2>3. tag' = [tag EXCEPT ![c].l1[m.way] = Locked(@), ![c].l2[L2Set[m.addr]] = EmptyEntry]
    BY <2>2, RefillHit
  <2>4. q \in L2Sets
    BY <1>2, <1>9, <2>1, L2Found, SetOfLine
  <2>5. way \in Ways /\ tag' = [tag EXCEPT ![c].l1[way] = Locked(@), ![c].l2[q] = EmptyEntry]
    BY <1>2, <2>1, <2>3
  <2>6. /\ \A w \in Ways : tag'[c].l1[w] = IF w = way THEN Locked(tag[c].l1[w]) ELSE tag[c].l1[w]
        /\ \A k \in L2Sets : tag'[c].l2[k] = IF k = q THEN EmptyEntry ELSE tag[c].l2[k]
    BY <2>4, <2>5, RefillWritten
  <2>7. \A k \in L2Sets : tag'[c].l2[k] \in {tag[c].l2[k], EmptyEntry}
    BY <2>6
  <2>8. way = mshr[c].way
    BY <1>2, <2>1
  <2> QED BY <1>0, <2>5, <2>6, <2>7, <2>8, LockStep
<1>10. CASE Miss1Refill(c) /\ ~L2Hit(c, m.addr)
  <2>1. PICK way : way = m.way
    OBVIOUS
  <2>0. /\ Miss1Refill(c)
        /\ ~L2Hit(c, m.addr)
        /\ AtMiss(c, m, t, e)
    BY <1>1, <1>10
  <2>9. tag' = [tag EXCEPT ![c].l1[m.way] = Locked(@)]
    BY <2>0, RefillAsk
  <2>2. tag' = [tag EXCEPT ![c].l1[way] = Locked(@)] /\ way \in Ways
    BY <1>2, <2>1, <2>9
  <2>3. /\ \A w \in Ways : tag'[c].l1[w] = IF w = way THEN Locked(tag[c].l1[w]) ELSE tag[c].l1[w]
        /\ tag'[c].l2 = tag[c].l2
    BY <2>2, LockWritten
  <2> QED BY <1>0, <1>2, <2>1, <2>2, <2>3, LockStep
<1> QED BY <1>6, <1>7, <1>8, <1>9, <1>10 DEF s_miss1

LEMMA FillTagStep ==
    ASSUME NEW c, Regs(c), LocalInv(c), InsAsked(mshr[c]), NEW moves, s_miss5(c, moves)
    PROVE  TagStep(c)
<1> USE StateNumbers
<1>0. st[c] = "s_miss5"
  BY DEF s_miss5
<1>1. CASE ~Miss5Done(c)
  <2>1. tag' = tag /\ st' = st
    BY <1>1 DEF s_miss5
  <2> QED BY <1>0, <2>1, SameTagStep DEF FillEnds
<1>2. CASE Miss5Done(c)
  <2>1. FillEnds(c)
    BY <1>0, <1>2, GoesTo DEF Miss5Done, FillEnds
  <2>2. PICK way, l, s, o, v : way = mshr[c].way /\ l = mshr[c].addr /\ s = mshr[c].ins
                               /\ o = oldaddr[c] /\ v = VictimState(c)
    OBVIOUS
  <2>3. way \in Ways /\ l \in Lines /\ s \in UnlockedStates /\ mshr[c].valid /\ v \in UnlockedStates
    BY <1>0, <2>2, StateFacts
       DEF Regs, Fits, RefillStates, Mshr, LocalInv, MissReg, FillStates, VictimState
  <2>4. /\ \A w \in Ways : tag'[c].l1[w] = IF w = way THEN MkEntry(l, s) ELSE tag[c].l1[w]
        /\ \A q \in L2Sets : tag'[c].l2[q] =
              IF mshr[c].old # T_STATE_INVALID /\ q = L2Set[o] THEN MkEntry(o, v) ELSE tag[c].l2[q]
    BY <1>2, <2>2, <2>3, FillWritten
  <2>5. 1 \in 1..3 /\ 3 \in 1..3 /\ \A x \in UnlockedStates : x >= 3 <=> x = 3
    BY DEF UnlockedStates
  <2>6. \A k \in Lines : /\ Held(tag'[c].l1[way], k, 1) <=> l = k /\ s >= 1
                         /\ Held(tag'[c].l1[way], k, 3) <=> l = k /\ s >= 3
                         /\ Open(tag'[c].l1[way], k, 3) <=> l = k /\ s >= 3
    BY <2>3, <2>4, <2>5, MadeHeld, MadeOpen
  <2>7. ASSUME NEW k \in Lines
        PROVE  LineFrom(c, way, k) /\ DirtyFrom(c, way, k) /\ OpenFrom(c, way, k) /\ DirtyGoes(c, way, k)
    <3>1. LineFrom(c, way, k) /\ OpenFrom(c, way, k)
      BY <2>1, <2>2, <2>6 DEF LineFrom, OpenFrom
    <3>2. DirtyFrom(c, way, k)
      BY <1>0, <2>2, <2>3, <2>5, <2>6 DEF DirtyFrom, InsAsked
    <3>3. DirtyGoes(c, way, k)
      BY <2>1, <2>2 DEF DirtyGoes
    <3> QED BY <3>1, <3>2, <3>3
  <2>8. ASSUME NEW w \in Ways, NEW k \in Lines, w # way
        PROVE  LineFrom(c, w, k) /\ DirtyFrom(c, w, k) /\ OpenFrom(c, w, k) /\ DirtyGoes(c, w, k)
    BY <2>4, <2>8 DEF LineFrom, DirtyFrom, OpenFrom, DirtyGoes
  <2>9. L1Step(c)
    BY <2>7, <2>8 DEF L1Step
  <2>10. ASSUME NEW q \in L2Sets, NEW k \in Lines, mshr[c].old # T_STATE_INVALID, q = L2Set[o],
                Held(tag'[c].l2[q], k, 1)
         PROVE  k = o
    BY <2>3, <2>4, <2>5, <2>10, MadeHeld
  <2>11. L2Step(c)
    BY <2>1, <2>2, <2>4, <2>10 DEF L2Step
  <2>12. Leaves(c)
    BY <1>0, <2>2, <2>3, <2>4 DEF Leaves
  <2> QED BY <2>9, <2>11, <2>12 DEF TagStep
<1> QED BY <1>1, <1>2

LEMMA InvTagStep ==
    ASSUME NEW c, Regs(c), LocalInv(c), s_inv1(c)
    PROVE  TagStep(c)
<1> USE StateNumbers
<1>0. st[c] = "s_inv1" /\ ~FillEnds(c) /\ inv[c].addr \in Lines /\ 1 \in Levels /\ 1 \in 1..3 /\ 3 \in 1..3
  BY DEF s_inv1, FillEnds, Regs, Fits, InvStates, Levels
<1>1. PICK l, s : l = inv[c].addr /\ s = InvFinalState(c)
  OBVIOUS
<1>2. s \in UnlockedStates /\ ~(s >= 3)
  BY <1>1, FinalStates DEF UnlockedStates
<1>3. Lowers(tag'[c], tag[c])
  BY InvLowers
<1>4. \A w \in Ways : \/ tag'[c].l1[w] = tag[c].l1[w]
                      \/ /\ tag'[c].l1[w] = MkEntry(l, s)
                         /\ Inv1Done(c) /\ w \in InvMatches(c)
  BY <1>1, InvWritten DEF s_inv1
<1>5. \A k \in Lines : ~Held(MkEntry(l, s), k, 3) /\ ~Open(MkEntry(l, s), k, 3)
  BY <1>0, <1>2, MadeHeld, MadeOpen
<1>6. Inv1Done(c) => st'[c] = "s_return1" /\ InvDirty(c) = {}
  BY GoesTo DEF Inv1Done
<1>7. ASSUME NEW w \in Ways, NEW k \in Lines
      PROVE  LineFrom(c, w, k) /\ DirtyFrom(c, w, k) /\ OpenFrom(c, w, k)
  <2>1. LineFrom(c, w, k)
    BY <1>0, <1>3 DEF Lowers, LineFrom
  <2>2. DirtyFrom(c, w, k) /\ OpenFrom(c, w, k)
    BY <1>4, <1>5 DEF DirtyFrom, OpenFrom
  <2> QED BY <2>1, <2>2
<1>8. ASSUME NEW w \in Ways, NEW k \in Lines
      PROVE  DirtyGoes(c, w, k)
  <2>1. CASE tag'[c].l1[w] = tag[c].l1[w]
    BY <2>1 DEF DirtyGoes
  <2>2. CASE Inv1Done(c) /\ w \in InvMatches(c)
    <3>1. SUFFICES ASSUME Held(tag[c].l1[w], k, 3) PROVE inv[c].act = "hit_inv" /\ k = inv[c].addr
      BY <1>0, <1>6, <2>2 DEF DirtyGoes
    <3>2. Dirty(tag[c].l1[w])
      <4>1. cache_state_unlock(tag[c].l1[w].st) \in UnlockedStates
        BY StateFacts DEF Regs, Tags, L1Entry, Entry
      <4> QED BY <3>1, <4>1 DEF Held, Dirty, UnlockedStates
    <3>3. inv[c].act = "hit_inv"
      BY <1>6, <2>2, <3>2 DEF InvDirty
    <3>4. tag[c].l1[w].addr = inv[c].addr
      BY <2>2, <3>3 DEF InvMatches, L1Matches, Holds
    <3> QED BY <3>1, <3>3, <3>4 DEF Held
  <2> QED BY <1>4, <2>1, <2>2
<1>9. L1Step(c)
  BY <1>7, <1>8 DEF L1Step
<1>10. L2Step(c)
  BY <1>0, <1>3 DEF L2Step, Lowers
<1>11. ASSUME inv[c].act = "hit_inv"
       PROVE  st'[c] = "s_return1" /\ \A w \in Ways : ~Held(tag'[c].l1[w], inv[c].addr, 1)
  <2>1. InvDirty(c) = {} /\ s = 0
    BY <1>1, <1>11 DEF InvDirty, InvFinalState
  <2>2. Inv1Done(c)
    BY <2>1 DEF s_inv1, trigger_writeback
  <2>3. ASSUME NEW w \in Ways, Held(tag'[c].l1[w], inv[c].addr, 1) PROVE FALSE
    <3>1. Held(tag[c].l1[w], inv[c].addr, 1)
      BY <1>0, <1>3, <2>3 DEF Lowers
    <3>2. w \in L1Matches(c, inv[c].addr)
      BY <3>1, L1Found
    <3>3. w \in InvMatches(c) /\ inv[c].act # "hit_wb"
      BY <1>11, <3>2 DEF InvMatches
    <3>4. tag'[c].l1[w] = MkEntry(l, s)
      BY <1>1, <2>2, <3>3, InvWritten
    <3> QED BY <1>0, <1>2, <2>1, <2>3, <3>4, MadeHeld
  <2> QED BY <1>6, <2>2, <2>3
<1>12. Leaves(c)
  BY <1>0, <1>11 DEF Leaves
<1> QED BY <1>9, <1>10, <1>12 DEF TagStep

LEMMA CopyTagStep ==
    ASSUME NEW c, Regs(c), LocalInv(c), NEW moves, s_inv2(c) \/ s_inv6(c, moves)
    PROVE  TagStep(c)
<1> USE StateNumbers
<1>0. st[c] \in {"s_inv2", "s_inv6"} /\ ~FillEnds(c)
  BY DEF s_inv2, s_inv6, FillEnds
<1>1. PICK way, l, s : /\ way = inv[c].way /\ l = tag[c].l1[inv[c].way].addr
                       /\ s = IF st[c] = "s_inv2" THEN T_STATE_EXCLUSIVE ELSE InvFinalState(c)
  OBVIOUS
<1>2. way \in Ways /\ l \in Lines /\ s \in UnlockedStates /\ s <= 2
  BY <1>0, <1>1, FinalStates, StateFacts DEF Regs, Fits, CopyStates
<1>3. /\ cache_state_unlock(tag[c].l1[way].st) \in {2, 3}
      /\ st[c] = "s_inv6" => cache_state_unlock(tag[c].l1[way].st) = 2
  BY <1>0, <1>1 DEF LocalInv, CopyWay, CopyStates
<1>4. CASE tag' = tag /\ st[c] = "s_inv6"
  BY <1>0, <1>4, SameTagStep
<1>5. CASE WriteL1(c, {way}, l, s)
  <2>1. /\ tag'[c].l2 = tag[c].l2
        /\ \A w \in Ways : tag'[c].l1[w] = IF w \in {way} THEN MkEntry(l, s) ELSE tag[c].l1[w]
    BY <1>5, L1Written
  <2>2. Held(tag[c].l1[way], l, 1)
    BY <1>1, <1>3 DEF Held
  <2>3. /\ Held(tag[c].l1[way], l, 3) => st[c] = "s_inv2" /\ way = inv[c].way /\ s = 2
        /\ s # 3
    BY <1>0, <1>1, <1>2, <1>3 DEF Held
  <2>4. L1Step(c) /\ L2Step(c)
    BY <1>0, <1>2, <2>1, <2>2, <2>3, InPlaceStep
  <2>5. st[c] = "s_inv2" => MkEntry(l, s).addr = l
    BY <1>1 DEF MkEntry
  <2>6. Leaves(c)
    BY <1>0, <1>1, <1>2, <2>1, <2>5 DEF Leaves
  <2> QED BY <2>4, <2>6 DEF TagStep
<1> QED BY <1>1, <1>4, <1>5 DEF s_inv2, s_inv6

LEMMA AnswerTagStep ==
    ASSUME NEW c, Regs(c), LocalInv(c), LocalInv(c)', s_lsnoop_promote3(c) \/ s_lsnoop_miss3(c)
    PROVE  TagStep(c)
<1> USE StateNumbers
<1>0. st[c] \in {"s_lsnoop_promote3", "s_lsnoop_miss3"} /\ ~FillEnds(c)
  BY DEF s_lsnoop_promote3, s_lsnoop_miss3, FillEnds
<1>1. CASE tag' = tag
  BY <1>0, <1>1, SameTagStep
<1>2. CASE tag' # tag
  <2>1. PICK way, l, s : way = mshr[c].way /\ l = mshr[c].addr /\ s = mshr[c].min
    OBVIOUS
  <2>2. st[c] = "s_lsnoop_promote3" /\ WriteL1(c, {way}, l, s)
    BY <1>2, <2>1 DEF s_lsnoop_promote3, s_lsnoop_miss3
  <2>3. /\ way \in Ways /\ l \in Lines /\ s = 3 /\ s \in UnlockedStates /\ mshr[c].valid
        /\ tag[c].l1[way].addr = l /\ cache_state_unlock(tag[c].l1[way].st) = 1
    BY <2>1, <2>2, StateFacts
       DEF Regs, Fits, MissStates, LocalInv, MissReg, MissWay, PromoteStates
  <2>4. /\ tag'[c].l2 = tag[c].l2
        /\ \A w \in Ways : tag'[c].l1[w] = IF w \in {way} THEN MkEntry(l, s) ELSE tag[c].l1[w]
    BY <2>2, L1Written
  <2>5. Held(tag[c].l1[way], l, 1) /\ mshr[c].min = 3 /\ way = mshr[c].way
    BY <2>1, <2>3 DEF Held
  <2>6. L1Step(c) /\ L2Step(c)
    BY <1>0, <2>2, <2>3, <2>4, <2>5, InPlaceStep
  <2>7. Leaves(c)
    BY <1>0, <2>2 DEF Leaves
  <2> QED BY <2>6, <2>7 DEF TagStep
<1> QED BY <1>1, <1>2

-----------------------------------------------------------------------------
(* One clock of the state machine's registers. *)
NextState(s, n) ==
    \/ s = "s_idle" /\ n \in {"s_idle", "s_inv0", "s_inv1", "s_miss1"}
    \/ s = "s_miss1" /\ n \in {"s_inv1", "s_lsnoop_promote1", "s_lsnoop_miss1", "s_miss2", "s_return1"}
    \/ s \in {"s_lsnoop_promote1", "s_lsnoop_promote2"} /\ n \in PromoteStates \union {"s_inv0"}
    \/ s = "s_lsnoop_promote3" /\ n \in {"s_lsnoop_promote3", "s_return1"}
    \/ s \in {"s_lsnoop_miss1", "s_lsnoop_miss2"} /\ n \in AskStates \union {"s_inv0"}
    \/ s = "s_lsnoop_miss3" /\ n \in {"s_lsnoop_miss3", "s_miss2"}
    \/ s = "s_miss2" /\ n \in {"s_miss3", "s_miss4"}
    \/ s = "s_miss3" /\ n = "s_miss4"
    \/ s = "s_miss4" /\ n \in {"s_miss4", "s_miss5"}
    \/ s = "s_miss5" /\ n \in {"s_miss5", "s_return1"}
    \/ s = "s_inv0" /\ n = "s_inv1"
    \/ s = "s_inv1" /\ n \in {"s_inv2", "s_return1"}
    \/ s = "s_inv2" /\ n = "s_inv3"
    \/ s = "s_inv3" /\ n = "s_inv4"
    \/ s = "s_inv4" /\ n = "s_inv5"
    \/ s = "s_inv5" /\ n \in {"s_inv5", "s_inv6"}
    \/ s = "s_inv6" /\ n \in {"s_inv6", "s_inv7"}
    \/ s = "s_inv7" /\ n = "s_inv1"
    \/ s = "s_return1" /\ n = "s_return2"
    \/ s = "s_return2" /\ n = "s_idle"

TagsKept(c) ==
    \/ st[c] \notin {"s_miss1", "s_lsnoop_promote3", "s_miss5", "s_inv1", "s_inv2", "s_inv6"}
    \/ st'[c] = st[c]
    => tag'[c] = tag[c]

(* A miss keeps its line, way and kind; a refill from L2 found the line. *)
MissMoves(c) ==
    /\ st[c] \in FillStates \union InvStates \union {"s_return1"} => mshr'[c] = mshr[c]
    /\ st[c] = "s_return2" => ~mshr'[c].valid
    /\ st[c] # "s_idle" /\ mshr'[c].valid =>
         /\ mshr[c].valid /\ mshr'[c].addr = mshr[c].addr /\ mshr'[c].way = mshr[c].way
         /\ mshr'[c].min = mshr[c].min
         /\ mshr'[c].l2hit =>
              \/ mshr[c].l2hit
              \/ /\ st[c] = "s_miss1" /\ st'[c] = "s_miss2"
                 /\ HasL2 /\ Held(tag[c].l2[L2Set[mshr[c].addr]], mshr[c].addr, T_STATE_SHARED)
    /\ st[c] = "s_idle" /\ mshr'[c].valid =>
         /\ st'[c] = "s_miss1" /\ fifo[c] = None /\ ~mshr'[c].l2hit
         /\ mshr'[c].min = T_STATE_MODIFIED => mshr'[c].way \in DWays

InvMoves(c) ==
    /\ st'[c] = "s_inv0" =>
         /\ s_attn(c) /\ inv'[c].addr = snp[c].addr
         /\ inv'[c].act \in {"hit_wb_inv", "hit_wb_shar"}
    /\ st[c] = "s_idle" /\ st'[c] = "s_inv1" =>
         CacheOpPending(c) /\ fifo[c] = None /\ inv'[c].act = dreq[c].op
    /\ st[c] = "s_miss1" /\ st'[c] = "s_inv1" => inv'[c].act = "hit_wb_inv"
    /\ st[c] = "s_inv1" /\ st'[c] = "s_inv2" =>
         inv'[c].act = inv[c].act /\ inv'[c].addr = inv[c].addr /\ inv'[c].way \in InvDirty(c)
    /\ st[c] = "s_return2" => inv'[c].act = None
    /\ \/ inv'[c] = inv[c]
       \/ st'[c] = "s_inv0" \/ st[c] = "s_return2"
       \/ st[c] \in {"s_idle", "s_miss1"} /\ st'[c] = "s_inv1"
       \/ st[c] = "s_inv1" /\ st'[c] = "s_inv2"

RunMoves(c, moves) ==
    /\ bitmap'[c] <=> \/ bitmap[c] /\ st[c] # "s_return2"
                      \/ moves /\ st[c] = "s_miss5" /\ run[c] # "off"
    /\ st[c] = "s_miss4" /\ st'[c] = "s_miss5" => run'[c] = "on"
    /\ st[c] = "s_inv5" /\ st'[c] = "s_inv6" => run'[c] = "on" /\ fifo[c] = None
    /\ st[c] \in {"s_miss5", "s_inv6"} =>
         /\ st'[c] = st[c] <=> run[c] # "off"
         /\ run[c] # "off" => run'[c] = IF ~moves THEN run[c]
                                        ELSE IF run[c] = "on" THEN "moved" ELSE "off"

OldMoves(c) ==
    /\ st[c] = "s_inv2" => oldaddr'[c] = tag[c].l1[inv[c].way].addr
    /\ \/ oldaddr'[c] = oldaddr[c]
       \/ st[c] \in {"s_miss1", "s_inv2"}
       \/ st[c] = "s_idle" /\ fifo[c] = None

CtlStep(c, moves) ==
    NextState(st[c], st'[c]) /\ TagsKept(c) /\ MissMoves(c) /\ InvMoves(c)
    /\ RunMoves(c, moves) /\ OldMoves(c)

LEMMA DelayCtl ==
    ASSUME NEW c, Regs(c), LocalInv(c), LocalInv(c)', NEW m_halt, NEW moves,
           \/ s_miss2(c) \/ s_miss3(c) \/ s_miss4(c, m_halt)
           \/ s_inv0(c) \/ s_inv3(c) \/ s_inv4(c) \/ s_inv5(c) \/ s_inv7(c) \/ s_return1(c)
    PROVE  CtlStep(c, moves)
<1>0. UNCHANGED <<mshr, inv, tag, oldaddr, bitmap>>
  BY DEF s_miss2, s_miss3, s_miss4, s_inv0, s_inv3, s_inv4, s_inv5, s_inv7, s_return1,
         InvDelay, InvKeep
<1>1. /\ st[c] \in {"s_miss2", "s_miss3", "s_miss4", "s_inv0", "s_inv3", "s_inv4", "s_inv5",
                    "s_inv7", "s_return1"}
      /\ NextState(st[c], st'[c]) /\ st'[c] # "s_inv0"
  <2>0. \A n : Goto(c, n, FALSE) => st'[c] = n
    BY GoesTo
  <2>1. CASE s_miss2(c) \/ s_miss3(c)
    BY <2>0, <2>1 DEF s_miss2, s_miss3, NextState
  <2>2. CASE s_miss4(c, m_halt)
    BY <2>0, <2>2 DEF s_miss4, NextState
  <2>3. CASE s_inv0(c) \/ s_inv3(c) \/ s_inv4(c) \/ s_inv7(c) \/ s_return1(c)
    BY <2>0, <2>3 DEF s_inv0, s_inv3, s_inv4, s_inv7, s_return1, InvDelay, NextState
  <2>4. CASE s_inv5(c)
    BY <2>0, <2>4 DEF s_inv5, NextState
  <2> QED BY <2>1, <2>2, <2>3, <2>4
<1>2. MissMoves(c)
  BY <1>0, <1>1 DEF MissMoves
<1>3. InvMoves(c) /\ OldMoves(c) /\ TagsKept(c)
  BY <1>0, <1>1 DEF InvMoves, OldMoves, TagsKept
<1>4. RunMoves(c, moves)
  <2>1. s_miss4(c, m_halt) => (st'[c] = "s_miss5" => run'[c] = "on")
    BY GoesTo DEF s_miss4, Regs, CtlType
  <2>2. s_inv5(c) => (st'[c] = "s_inv6" => run'[c] = "on" /\ fifo[c] = None)
    BY GoesTo DEF s_inv5, Regs, CtlType
  <2>3. st[c] = "s_miss4" => s_miss4(c, m_halt)
    BY DEF s_miss2, s_miss3, s_miss4, s_inv0, s_inv3, s_inv4, s_inv5, s_inv7, s_return1, InvDelay
  <2>4. st[c] = "s_inv5" => s_inv5(c)
    BY DEF s_miss2, s_miss3, s_miss4, s_inv0, s_inv3, s_inv4, s_inv5, s_inv7, s_return1, InvDelay
  <2> QED BY <1>0, <1>1, <2>1, <2>2, <2>3, <2>4 DEF RunMoves
<1> QED BY <1>1, <1>2, <1>3, <1>4 DEF CtlStep

LEMMA AskCtl ==
    ASSUME NEW c, Regs(c), LocalInv(c), LocalInv(c)', NEW moves,
           \/ s_lsnoop_promote1(c) \/ s_lsnoop_promote2(c)
           \/ s_lsnoop_miss1(c) \/ s_lsnoop_miss2(c)
    PROVE  CtlStep(c, moves)
<1>0. UNCHANGED <<tag, oldaddr, run, bitmap>>
  BY DEF s_lsnoop_promote1, s_lsnoop_promote2, s_lsnoop_miss1, s_lsnoop_miss2, LSnoopKeep
<1>1. st[c] \in {"s_lsnoop_promote1", "s_lsnoop_promote2", "s_lsnoop_miss1", "s_lsnoop_miss2"}
  BY DEF s_lsnoop_promote1, s_lsnoop_promote2, s_lsnoop_miss1, s_lsnoop_miss2
<1>2. CASE LSnoopAbandon(c)
  <2>1. /\ st'[c] = "s_inv0" /\ s_attn(c) /\ ~mshr'[c].valid /\ inv'[c].addr = snp[c].addr
        /\ inv'[c].act \in {"hit_wb_inv", "hit_wb_shar"}
    BY <1>2, GoesTo DEF LSnoopAbandon, handle_s_attn, NoMshr, Regs, CtlType
  <2> QED BY <1>0, <1>1, <2>1
          DEF CtlStep, NextState, TagsKept, MissMoves, InvMoves, RunMoves, OldMoves, FillStates,
              InvStates, CopyStates
<1>3. CASE ~LSnoopAbandon(c)
  <2>1. UNCHANGED <<mshr, inv>>
    BY <1>3 DEF s_lsnoop_promote1, s_lsnoop_promote2, s_lsnoop_miss1, s_lsnoop_miss2,
                LSnoopArbitrate, LSnoopRequest
  <2>2. \/ st[c] \in {"s_lsnoop_promote1", "s_lsnoop_promote2"} /\ st'[c] \in PromoteStates
        \/ st[c] \in {"s_lsnoop_miss1", "s_lsnoop_miss2"} /\ st'[c] \in AskStates
    BY <1>3, GoesTo DEF s_lsnoop_promote1, s_lsnoop_promote2, s_lsnoop_miss1, s_lsnoop_miss2,
                LSnoopArbitrate, LSnoopRequest, PromoteStates, AskStates
  <2>3. NextState(st[c], st'[c]) /\ st'[c] # "s_inv0"
    BY <2>2 DEF NextState, PromoteStates, AskStates
  <2> QED BY <1>0, <1>1, <2>1, <2>3
          DEF CtlStep, TagsKept, MissMoves, InvMoves, RunMoves, OldMoves
<1> QED BY <1>2, <1>3

LEMMA AnswerCtl ==
    ASSUME NEW c, Regs(c), LocalInv(c), LocalInv(c)', NEW moves,
           s_lsnoop_promote3(c) \/ s_lsnoop_miss3(c)
    PROVE  CtlStep(c, moves)
<1>0. UNCHANGED <<inv, oldaddr, run, bitmap>>
  BY DEF s_lsnoop_promote3, s_lsnoop_miss3
<1>1. st[c] \in {"s_lsnoop_promote3", "s_lsnoop_miss3"} /\ st'[c] # "s_bug"
  BY DEF s_lsnoop_promote3, s_lsnoop_miss3, LocalInv
<1>2. \/ st'[c] = st[c] /\ tag' = tag
      \/ st[c] = "s_lsnoop_promote3" /\ st'[c] = "s_return1"
      \/ st[c] = "s_lsnoop_miss3" /\ st'[c] = "s_miss2" /\ tag' = tag
  <2>1. \A n, bug : Goto(c, n, bug) => st'[c] = n
    BY <1>1, GoesTo
  <2> QED BY <2>1 DEF s_lsnoop_promote3, s_lsnoop_miss3
<1>3. PICK m, n, ins : /\ m = mshr[c] /\ n = mshr'[c]
                       /\ ins = IF AutoPromote(c) THEN T_STATE_EXCLUSIVE ELSE m.ins
  OBVIOUS
<1>4. \/ n = m
      \/ n = [m EXCEPT !.snooped = TRUE]
      \/ n = [m EXCEPT !.snooped = TRUE, !.ins = ins]
  <2>1. \/ mshr' = mshr \/ mshr' = [mshr EXCEPT ![c].snooped = TRUE]
        \/ mshr' = [mshr EXCEPT ![c].snooped = TRUE, ![c].ins = ins]
    BY <1>3 DEF s_lsnoop_promote3, s_lsnoop_miss3
  <2> QED BY <1>3, <2>1 DEF Regs, CtlType
<1>5. /\ n.valid = m.valid /\ n.addr = m.addr /\ n.way = m.way /\ n.min = m.min
      /\ n.l2hit = m.l2hit
  BY <1>3, <1>4 DEF Regs, Mshr
<1>6. NextState(st[c], st'[c]) /\ TagsKept(c)
  BY <1>1, <1>2 DEF NextState, TagsKept
<1>7. MissMoves(c)
  BY <1>1, <1>3, <1>5 DEF MissMoves, FillStates, InvStates, CopyStates
<1>8. InvMoves(c) /\ RunMoves(c, moves) /\ OldMoves(c)
  BY <1>0, <1>1, <1>2 DEF InvMoves, RunMoves, OldMoves
<1> QED BY <1>6, <1>7, <1>8 DEF CtlStep

LEMMA RestCtl ==
    ASSUME NEW c, Regs(c), LocalInv(c), LinkInv(c), NEW moves, NEW dk, NEW ik,
           s_idle(c, dk, ik) \/ s_return2(c)
    PROVE  CtlStep(c, moves)
<1> USE StateNumbers
<1>0. \A n : Goto(c, n, FALSE) => st'[c] = n
  BY GoesTo
<1>1. CASE s_return2(c)
  <2>1. /\ st[c] = "s_return2" /\ st'[c] = "s_idle" /\ tag' = tag /\ oldaddr' = oldaddr
        /\ ~bitmap'[c] /\ ~mshr'[c].valid /\ inv'[c].act = None
    BY <1>0, <1>1 DEF s_return2, NoMshr, NoInv, Regs, CtlType
  <2>2. NextState(st[c], st'[c]) /\ TagsKept(c) /\ OldMoves(c)
    BY <2>1 DEF NextState, TagsKept, OldMoves
  <2>3. MissMoves(c)
    BY <2>1 DEF MissMoves, FillStates, InvStates, CopyStates
  <2>4. InvMoves(c) /\ RunMoves(c, moves)
    BY <2>1 DEF InvMoves, RunMoves
  <2> QED BY <2>2, <2>3, <2>4 DEF CtlStep
<1>2. CASE s_idle(c, dk, ik)
  <2>0. /\ st[c] = "s_idle" /\ ~mshr[c].valid /\ tag' = tag /\ bitmap' = bitmap /\ run' = run
        /\ oldaddr'[c] = oldaddr[c] \/ fifo[c] = None
    BY <1>2 DEF s_idle, LocalInv, MissReg, Regs, CtlType
  <2>1. TagsKept(c) /\ OldMoves(c) /\ RunMoves(c, moves)
    BY <2>0 DEF TagsKept, OldMoves, RunMoves
  <2>2. CASE IdleSnoop(c)
    <3>1. /\ st'[c] = "s_inv0" /\ s_attn(c) /\ ~mshr'[c].valid /\ inv'[c].addr = snp[c].addr
          /\ inv'[c].act \in {"hit_wb_inv", "hit_wb_shar"}
      BY <1>0, <2>2 DEF IdleSnoop, handle_s_attn, NoMshr, Regs, CtlType
    <3> QED BY <2>0, <2>1, <3>1
            DEF CtlStep, NextState, MissMoves, InvMoves, FillStates, InvStates, CopyStates
  <2>3. CASE IdleInv(c)
    <3>1. /\ st'[c] = "s_inv1" /\ mshr' = mshr /\ CacheOpPending(c) /\ fifo[c] = None
          /\ inv'[c].act = dreq[c].op
      BY <1>0, <2>3 DEF IdleInv, Regs, CtlType
    <3> QED BY <2>0, <2>1, <3>1
            DEF CtlStep, NextState, MissMoves, InvMoves, FillStates, InvStates, CopyStates
  <2>4. CASE IdleMiss(c, dk, ik)
    <3>1. /\ st'[c] = "s_miss1" /\ inv' = inv /\ fifo[c] = None
      BY <1>0, <2>4 DEF IdleMiss
    <3>2. PICK q \in PortReq, ways \in SUBSET Ways :
            /\ Selected(c, q, ways) /\ ~mshr'[c].l2hit
            /\ mshr'[c].min = MinState(q.op) /\ mshr'[c].way \in MissWays(c, ways, q.addr)
      BY <2>4, MissStarted DEF Started
    <3>3. mshr'[c].way \in ways
      BY <3>2 DEF MissWays, TagWays, EmptyWays
    <3>4. mshr'[c].min = T_STATE_MODIFIED => ways = DWays
      <4>1. SUFFICES ASSUME IMiss(c), q = ireq[c] PROVE MinState(q.op) # T_STATE_MODIFIED
        BY <3>2 DEF Selected
      <4>2. q.op = "rd"
        BY <4>1 DEF LinkInv, IMiss
      <4> QED BY <4>2 DEF MinState
    <3> QED BY <2>0, <2>1, <3>1, <3>2, <3>3, <3>4
            DEF CtlStep, NextState, MissMoves, InvMoves, FillStates, InvStates, CopyStates
  <2>5. CASE IdleStay(c, dk, ik)
    <3>1. UNCHANGED <<st, mshr, inv>>
      BY <2>5 DEF IdleStay
    <3> QED BY <2>0, <2>1, <3>1
            DEF CtlStep, NextState, MissMoves, InvMoves, FillStates, InvStates, CopyStates
  <2> QED BY <1>2, <2>2, <2>3, <2>4, <2>5 DEF s_idle
<1> QED BY <1>1, <1>2

LEMMA FillCtl ==
    ASSUME NEW c, Regs(c), LocalInv(c), NEW moves, s_miss5(c, moves) \/ s_inv6(c, moves)
    PROVE  CtlStep(c, moves)
<1>0. \A n : Goto(c, n, FALSE) => st'[c] = n
  BY GoesTo
<1>1. /\ st[c] \in {"s_miss5", "s_inv6"} /\ mshr' = mshr /\ inv' = inv /\ oldaddr' = oldaddr
  BY DEF s_miss5, s_inv6
<1>2. MissMoves(c)
  BY <1>1 DEF MissMoves
<1>3. CASE run[c] = "off"
  <2>1. run' = run /\ bitmap' = bitmap
        /\ st'[c] = IF st[c] = "s_miss5" THEN "s_return1" ELSE "s_inv7"
    BY <1>0, <1>3 DEF s_miss5, s_inv6, Miss5Done
  <2> QED BY <1>1, <1>2, <1>3, <2>1
          DEF CtlStep, NextState, TagsKept, InvMoves, RunMoves, OldMoves
<1>4. CASE run[c] # "off"
  <2>1. TransferClock(c, moves) /\ st' = st /\ tag' = tag
    BY <1>4 DEF s_miss5, s_inv6, Miss5Done
  <2>2. /\ run'[c] = IF ~moves THEN run[c] ELSE IF run[c] = "on" THEN "moved" ELSE "off"
        /\ bitmap'[c] <=> bitmap[c] \/ (moves /\ st[c] = "s_miss5")
    BY <2>1 DEF TransferClock, Regs, CtlType
  <2>3. NextState(st[c], st'[c]) /\ TagsKept(c) /\ InvMoves(c) /\ OldMoves(c)
    BY <1>1, <2>1 DEF NextState, TagsKept, InvMoves, OldMoves
  <2>4. RunMoves(c, moves)
    BY <1>1, <1>4, <2>1, <2>2 DEF RunMoves
  <2> QED BY <1>2, <2>3, <2>4 DEF CtlStep
<1> QED BY <1>3, <1>4

LEMMA InvCtl ==
    ASSUME NEW c, Regs(c), LocalInv(c), LocalInv(c)', NEW moves, s_inv1(c) \/ s_inv2(c)
    PROVE  CtlStep(c, moves)
<1>0. /\ st[c] \in {"s_inv1", "s_inv2"} /\ mshr' = mshr /\ bitmap' = bitmap /\ run' = run
      /\ st'[c] # "s_bug"
  BY DEF s_inv1, s_inv2, InvKeep, LocalInv
<1>1. \A n, bug : Goto(c, n, bug) => st'[c] = n
  BY <1>0, GoesTo
<1>2. MissMoves(c)
  BY <1>0 DEF MissMoves
<1>3. CASE s_inv2(c)
  <2>1. /\ st[c] = "s_inv2" /\ st'[c] = "s_inv3" /\ inv' = inv
        /\ oldaddr'[c] = tag[c].l1[inv[c].way].addr
    BY <1>1, <1>3 DEF s_inv2, Regs, CtlType
  <2> QED BY <1>0, <1>2, <2>1 DEF CtlStep, NextState, TagsKept, InvMoves, RunMoves, OldMoves
<1>4. CASE s_inv1(c) /\ trigger_writeback(c)
  <2>1. PICK i, w : i = inv[c] /\ w = CHOOSE y \in InvDirty(c) : \A x \in InvDirty(c) : y <= x
    OBVIOUS
  <2>2. i \in InvReg /\ inv'[c] = [i EXCEPT !.way = w]
    BY <1>4, <2>1 DEF trigger_writeback, Regs, CtlType
  <2>3. inv'[c].act = i.act /\ inv'[c].addr = i.addr /\ inv'[c].way = w
    BY <2>2 DEF InvReg
  <2>4. w \in InvDirty(c)
    <3>1. PICK S : S = InvDirty(c)
      OBVIOUS
    <3>2. S # {} /\ S \subseteq Ways
      BY <1>4, <3>1 DEF trigger_writeback, InvDirty, InvMatches, L1Matches
    <3>3. (CHOOSE y \in S : \A x \in S : y <= x) \in S
      BY <3>2, LowestWay
    <3> QED BY <2>1, <3>1, <3>3
  <2>5. st[c] = "s_inv1" /\ st'[c] = "s_inv2" /\ oldaddr' = oldaddr
    BY <1>1, <1>4 DEF s_inv1, trigger_writeback
  <2> QED BY <1>0, <1>2, <2>1, <2>3, <2>4, <2>5
          DEF CtlStep, NextState, TagsKept, InvMoves, RunMoves, OldMoves
<1>5. CASE s_inv1(c) /\ Inv1Done(c)
  <2>1. st[c] = "s_inv1" /\ st'[c] = "s_return1" /\ inv' = inv /\ oldaddr' = oldaddr
    BY <1>1, <1>5 DEF s_inv1, Inv1Done
  <2> QED BY <1>0, <1>2, <2>1 DEF CtlStep, NextState, TagsKept, InvMoves, RunMoves, OldMoves
<1> QED BY <1>3, <1>4, <1>5 DEF s_inv1

LEMMA MissCtl ==
    ASSUME NEW c, Regs(c), LocalInv(c), LocalInv(c)', NEW moves, s_miss1(c)
    PROVE  CtlStep(c, moves)
<1>0. /\ st[c] = "s_miss1" /\ bitmap' = bitmap /\ run' = run /\ st'[c] # "s_bug"
  BY DEF s_miss1, LocalInv
<1>1. \A n, bug : Goto(c, n, bug) => st'[c] = n
  BY <1>0, GoesTo
<1>2. TagsKept(c) \/ st'[c] = "s_miss1"
  BY <1>0 DEF TagsKept
<1>3. OldMoves(c) /\ RunMoves(c, moves)
  BY <1>0 DEF OldMoves, RunMoves
<1>4. CASE Miss1Cross(c)
  <2>1. PICK a, i : a = mshr[c].addr
                    /\ i = [act |-> "hit_wb_inv", addr |-> a, expl |-> FALSE, way |-> None]
    OBVIOUS
  <2>2. inv'[c] = i /\ i.act = "hit_wb_inv" /\ mshr' = mshr
    BY <1>4, <2>1 DEF Miss1Cross, Regs, CtlType
  <2>3. st'[c] = "s_inv1"
    BY <1>1, <1>4 DEF Miss1Cross
  <2> QED BY <1>0, <1>2, <1>3, <2>2, <2>3
          DEF CtlStep, NextState, MissMoves, InvMoves, FillStates, InvStates, CopyStates
<1>5. CASE Miss1Promote(c) \/ Miss1Unlock(c)
  <2>1. mshr' = mshr /\ inv' = inv
    BY <1>5 DEF Miss1Promote, Miss1Unlock
  <2>2. st'[c] \in {"s_lsnoop_promote1", "s_return1"}
    BY <1>1, <1>5 DEF Miss1Promote, Miss1Unlock
  <2> QED BY <1>0, <1>2, <1>3, <2>1, <2>2
          DEF CtlStep, NextState, MissMoves, InvMoves, FillStates, InvStates, CopyStates
<1>6. CASE Miss1Refill(c)
  <2>1. PICK m, t, e : AtMiss(c, m, t, e) /\ e = MissEntry(c)
    BY MissFacts
  <2>2. inv' = inv /\ m = mshr[c] /\ m \in Mshr /\ m.addr \in Lines /\ t = tag[c] /\ m.valid
    BY <1>6, <2>1 DEF Miss1Refill, AtMiss
  <2>3. CASE L2Hit(c, m.addr)
    <3>0. /\ st'[c] = "s_miss2"
          /\ mshr'[c] = [m EXCEPT !.old = cache_state_unlock(e.st), !.l2hit = TRUE,
                                  !.snooped = TRUE, !.ins = FromL2(m, L2Entry(c, m.addr))]
          /\ tag' = [tag EXCEPT ![c].l1[m.way] = Locked(@), ![c].l2[L2Set[m.addr]] = EmptyEntry]
      <4>1. /\ Miss1Refill(c)
            /\ L2Hit(c, m.addr)
            /\ AtMiss(c, m, t, e)
        BY <1>6, <2>1, <2>3
      <4> QED BY <4>1, RefillHit
    <3>1. PICK ins, old : ins = FromL2(m, L2Entry(c, m.addr)) /\ old = cache_state_unlock(e.st)
      OBVIOUS
    <3>2. st'[c] = "s_miss2"
          /\ mshr'[c] = [m EXCEPT !.old = old, !.l2hit = TRUE, !.snooped = TRUE, !.ins = ins]
      BY <3>0, <3>1
    <3>3. mshr'[c].addr = m.addr /\ mshr'[c].way = m.way /\ mshr'[c].min = m.min
      BY <2>2, <3>2 DEF Mshr
    <3>4. HasL2 /\ Held(tag[c].l2[L2Set[m.addr]], m.addr, T_STATE_SHARED)
      BY <2>2, <2>3, L2Found
    <3>5. MissMoves(c)
      BY <1>0, <2>2, <3>2, <3>3, <3>4 DEF MissMoves, FillStates, InvStates, CopyStates
    <3> QED BY <1>0, <1>2, <1>3, <2>2, <3>2, <3>5 DEF CtlStep, NextState, InvMoves
  <2>4. CASE ~L2Hit(c, m.addr)
    <3>1. PICK old : old = cache_state_unlock(e.st)
      OBVIOUS
    <3>2. st'[c] = "s_lsnoop_miss1" /\ mshr'[c] = [m EXCEPT !.old = old]
      BY <1>6, <2>1, <2>4, <3>1, RefillAsk
    <3>3. /\ mshr'[c].addr = m.addr /\ mshr'[c].way = m.way /\ mshr'[c].min = m.min
          /\ mshr'[c].l2hit = m.l2hit
      BY <2>2, <3>2 DEF Mshr
    <3>5. MissMoves(c)
      BY <1>0, <2>2, <3>2, <3>3 DEF MissMoves, FillStates, InvStates, CopyStates
    <3> QED BY <1>0, <1>2, <1>3, <2>2, <3>2, <3>5 DEF CtlStep, NextState, InvMoves
  <2> QED BY <2>3, <2>4
<1> QED BY <1>4, <1>5, <1>6 DEF s_miss1

LEMMA MachineCtl ==
    ASSUME NEW c, Regs(c), LocalInv(c), LocalInv(c)', LinkInv(c), NEW dk, NEW ik, NEW m_halt, NEW moves,
           StateMachine(c, dk, ik, m_halt, moves)
    PROVE  CtlStep(c, moves)
<1>1. CASE s_idle(c, dk, ik) \/ s_return2(c)
  BY <1>1, RestCtl
<1>2. CASE s_miss1(c)
  BY <1>2, MissCtl
<1>3. CASE \/ s_miss2(c) \/ s_miss3(c) \/ s_miss4(c, m_halt)
           \/ s_inv0(c) \/ s_inv3(c) \/ s_inv4(c) \/ s_inv5(c) \/ s_inv7(c) \/ s_return1(c)
  BY <1>3, DelayCtl
<1>4. CASE s_miss5(c, moves) \/ s_inv6(c, moves)
  BY <1>4, FillCtl
<1>5. CASE \/ s_lsnoop_promote1(c) \/ s_lsnoop_promote2(c)
           \/ s_lsnoop_miss1(c) \/ s_lsnoop_miss2(c)
  BY <1>5, AskCtl
<1>6. CASE s_lsnoop_promote3(c) \/ s_lsnoop_miss3(c)
  BY <1>6, AnswerCtl
<1>7. CASE s_inv1(c) \/ s_inv2(c)
  BY <1>7, InvCtl
<1> QED BY <1>1, <1>2, <1>3, <1>4, <1>5, <1>6, <1>7 DEF StateMachine

LEMMA MachineTags ==
    ASSUME NEW c, Regs(c), LocalInv(c), LocalInv(c)', LinkInv(c), NEW dk, NEW ik, NEW m_halt, NEW moves,
           StateMachine(c, dk, ik, m_halt, moves)
    PROVE  TagStep(c)
<1>0. InsAsked(mshr[c])
  BY DEF LinkInv
<1>1. CASE s_idle(c, dk, ik) \/ s_return2(c)
  <2>1. tag' = tag /\ st[c] \in {"s_idle", "s_return2"}
    BY <1>1 DEF s_idle, s_return2
  <2> QED BY <2>1, SameTagStep DEF FillEnds
<1>2. CASE s_miss1(c)
  BY <1>2, MissTagStep
<1>3. CASE \/ s_miss2(c) \/ s_miss3(c) \/ s_miss4(c, m_halt)
           \/ s_inv0(c) \/ s_inv3(c) \/ s_inv4(c) \/ s_inv5(c) \/ s_inv7(c) \/ s_return1(c)
  <2>1. /\ tag' = tag
        /\ st[c] \in {"s_miss2", "s_miss3", "s_miss4", "s_inv0", "s_inv3", "s_inv4", "s_inv5",
                      "s_inv7", "s_return1"}
    BY <1>3 DEF s_miss2, s_miss3, s_miss4, s_inv0, s_inv3, s_inv4, s_inv5, s_inv7, s_return1,
         InvDelay, InvKeep
  <2> QED BY <2>1, SameTagStep DEF FillEnds
<1>4. CASE s_miss5(c, moves)
  BY <1>0, <1>4, FillTagStep
<1>5. CASE \/ s_lsnoop_promote1(c) \/ s_lsnoop_promote2(c)
           \/ s_lsnoop_miss1(c) \/ s_lsnoop_miss2(c)
  <2>1. /\ tag' = tag
        /\ st[c] \in {"s_lsnoop_promote1", "s_lsnoop_promote2", "s_lsnoop_miss1", "s_lsnoop_miss2"}
    BY <1>5 DEF s_lsnoop_promote1, s_lsnoop_promote2, s_lsnoop_miss1, s_lsnoop_miss2, LSnoopKeep
  <2> QED BY <2>1, SameTagStep DEF FillEnds
<1>6. CASE s_lsnoop_promote3(c) \/ s_lsnoop_miss3(c)
  BY <1>6, AnswerTagStep
<1>7. CASE s_inv1(c)
  BY <1>7, InvTagStep
<1>8. CASE s_inv2(c) \/ s_inv6(c, moves)
  BY <1>8, CopyTagStep
<1> QED BY <1>1, <1>2, <1>3, <1>4, <1>5, <1>6, <1>7, <1>8 DEF StateMachine

-----------------------------------------------------------------------------
(* What the control of one controller keeps, for its data to be right. *)
Dropping(c) == inv[c].act = "hit_inv" /\ st[c] \in ReturnStates

(* The tags have reached the other ports. *)
TagsSettle(s, act, t, r, x) ==
    /\ s \in {"s_miss3", "s_miss4", "s_miss5"} => r = t
    /\ s = "s_miss5" => x = t
    /\ s = "s_inv1" /\ act = "hit_inv" => r = t

FifoFree(c) ==
    \/ st[c] \in MissStates \union AskStates \union {"s_miss2", "s_miss3", "s_miss4"}
    \/ st[c] = "s_miss5" /\ ~bitmap[c]
    \/ st[c] = "s_inv6" /\ run[c] = "on"
    \/ inv[c].act = "hit_inv"

(* A way that no port may use while it is filled: x does not show it. *)
Unseen(x, m) ==
    /\ \A w \in Ways : ~Held(x.l1[w], m.addr, T_STATE_SHARED)
    /\ Shut(x.l1[m.way])

Filling(c) ==
    /\ bitmap[c] => st[c] \in {"s_miss5"} \union ReturnStates
    /\ st[c] = "s_miss5" => (bitmap[c] <=> run[c] # "on")
    /\ st[c] \in RefillStates => Shut(tag[c].l1[mshr[c].way])
    /\ st[c] \in ReturnStates /\ bitmap[c] =>
         /\ tag[c].l1[mshr[c].way] = MkEntry(mshr[c].addr, mshr[c].ins)
         /\ mshr[c].addr \in Lines /\ mshr[c].way \in Ways
         /\ Unseen(xtag[c], mshr[c])
         /\ st[c] = "s_return1" => Unseen(rtag[c], mshr[c])

(* A dirty line the ports see is dirty in the tags too, or is being copied. *)
PipeDirty(c, w, l) ==
    /\ Open(rtag[c].l1[w], l, T_STATE_MODIFIED) =>
         \/ Held(tag[c].l1[w], l, T_STATE_MODIFIED)
         \/ /\ st[c] = "s_inv3" /\ w = inv[c].way
            /\ Held(tag[c].l1[w], l, T_STATE_EXCLUSIVE)
         \/ Dropping(c)
    /\ Open(xtag[c].l1[w], l, T_STATE_MODIFIED) =>
         \/ /\ Held(tag[c].l1[w], l, T_STATE_MODIFIED)
            /\ Held(rtag[c].l1[w], l, T_STATE_EXCLUSIVE)
         \/ /\ st[c] \in {"s_inv3", "s_inv4"} /\ w = inv[c].way
            /\ Held(tag[c].l1[w], l, T_STATE_EXCLUSIVE)
            /\ Held(rtag[c].l1[w], l, T_STATE_EXCLUSIVE)
         \/ Dropping(c)

DirtyWays(c) ==
    /\ \A w \in Ways, l \in Lines : Held(tag[c].l1[w], l, T_STATE_MODIFIED) => w \in DWays
    /\ mshr[c].valid /\ mshr[c].min = T_STATE_MODIFIED => mshr[c].way \in DWays

CtlInv(c) ==
    /\ TagsSettle(st[c], inv[c].act, tag[c], rtag[c], xtag[c])
    /\ FifoFree(c) => fifo[c] = None
    /\ Filling(c)
    /\ inv[c].act = "hit_inv" => st[c] \in {"s_inv1"} \union ReturnStates /\ CacheOpPending(c)
    /\ \A w \in Ways, l \in Lines : PipeDirty(c, w, l)
    /\ OneCopy(rtag[c]) /\ OneCopy(xtag[c])
    /\ DirtyWays(c)
    /\ st[c] \in CopyStates => oldaddr[c] = tag[c].l1[inv[c].way].addr
    /\ st[c] \in MissStates \union AskStates => ~mshr[c].l2hit

(* One clock of a controller and its ports. *)
Flushes(c, moves) ==
    /\ moves /\ run[c] = "on"
    /\ st[c] = "s_inv6" \/ (st[c] = "s_miss5" /\ mshr[c].old = T_STATE_MODIFIED)

PortMoves(c) ==
    /\ CacheOpPending(c) /\ st[c] # "s_return2" => dreq'[c] = dreq[c]
    /\ dreq'[c] # None => dreq'[c] = dreq[c] \/ dreq'[c].op \in DOps

Clocked(c, moves) ==
    /\ Regs(c) /\ Regs(c)' /\ LocalInv(c) /\ LocalInv(c)'
    /\ Piped(c) /\ TagStep(c) /\ CtlStep(c, moves) /\ PortMoves(c)
    /\ ~Flushes(c, moves) => fifo'[c] \in {fifo[c], None}

LEMMA HeldChain ==
    ASSUME NEW e \in L1Entry, NEW l
    PROVE  /\ Held(e, l, 3) => Held(e, l, 2)
           /\ Held(e, l, 2) => Held(e, l, 1)
           /\ Open(e, l, 3) => Open(e, l, 1)
           /\ Open(e, l, 3) => Held(e, l, 3)
           /\ Open(e, l, 1) => Held(e, l, 1)
<1>1. 1 \in 1..3 /\ 2 \in 1..3 /\ 3 \in 1..3
  OBVIOUS
<1>2. (Held(e, l, 3) => Held(e, l, 2) /\ Held(e, l, 1)) /\ (Held(e, l, 2) => Held(e, l, 1))
  BY <1>1, HeldLower
<1> QED BY <1>2 DEF Open

LEMMA PipeEntries ==
    ASSUME NEW c, Regs(c), NEW w \in Ways
    PROVE  tag[c].l1[w] \in L1Entry /\ rtag[c].l1[w] \in L1Entry /\ xtag[c].l1[w] \in L1Entry
<1>1. tag[c] \in Tags /\ rtag[c] \in Tags /\ xtag[c] \in Tags
  BY DEF Regs, TagType
<1> QED BY <1>1 DEF Tags

LEMMA SettleKept ==
    ASSUME NEW c, NEW moves, Clocked(c, moves), CtlInv(c)
    PROVE  TagsSettle(st[c], inv[c].act, tag[c], rtag[c], xtag[c])'
<1>0. /\ TagsSettle(st[c], inv[c].act, tag[c], rtag[c], xtag[c])
      /\ inv[c].act = "hit_inv" => st[c] \in {"s_inv1"} \union ReturnStates
  BY DEF CtlInv
<1>1. NextState(st[c], st'[c]) /\ TagsKept(c) /\ InvMoves(c) /\ Piped(c)
      /\ InPipe(st[c], tag[c], rtag[c], xtag[c])
  BY DEF Clocked, CtlStep, LocalInv
<1>2. CASE st'[c] \in {"s_miss3", "s_miss4", "s_miss5"}
  <2>1. /\ st[c] \in {"s_miss2", "s_miss3", "s_miss4", "s_miss5"}
        /\ st[c] = "s_miss5" => st'[c] = st[c]
        /\ st'[c] = "s_miss5" => st[c] \in {"s_miss4", "s_miss5"}
    BY <1>1, <1>2 DEF NextState, PromoteStates, AskStates
  <2>2. tag'[c] = tag[c]
    BY <1>1, <2>1 DEF TagsKept
  <2> QED BY <1>0, <1>1, <1>2, <2>1, <2>2 DEF TagsSettle, Piped
<1>3. CASE st'[c] = "s_inv1" /\ inv'[c].act = "hit_inv"
  <2>1. st[c] \in {"s_idle", "s_miss1", "s_inv0", "s_inv7"}
    BY <1>1, <1>3 DEF NextState, PromoteStates, AskStates
  <2>2. st[c] = "s_idle"
    BY <1>0, <1>1, <1>3, <2>1 DEF InvMoves, ReturnStates
  <2>3. tag'[c] = tag[c]
    BY <1>1, <2>2 DEF TagsKept
  <2> QED BY <1>1, <1>3, <2>2, <2>3 DEF TagsSettle, Piped, InPipe
<1> QED BY <1>2, <1>3 DEF TagsSettle

LEMMA DropKept ==
    ASSUME NEW c, NEW moves, Clocked(c, moves), CtlInv(c), inv'[c].act = "hit_inv"
    PROVE  /\ st'[c] \in {"s_inv1"} \union ReturnStates /\ CacheOpPending(c)'
           /\ fifo[c] = None /\ ~Flushes(c, moves)
           /\ st[c] \in {"s_idle", "s_inv1", "s_return1"}
<1>0. /\ inv[c].act = "hit_inv" => st[c] \in {"s_inv1"} \union ReturnStates /\ CacheOpPending(c)
      /\ FifoFree(c) => fifo[c] = None
  BY DEF CtlInv
<1>9. None # "hit_inv"
  BY NoneAssumption DEF InvActs, CacheOps
<1>1. NextState(st[c], st'[c]) /\ InvMoves(c) /\ PortMoves(c) /\ Leaves(c)
  BY DEF Clocked, CtlStep, TagStep
<1>2. CASE inv[c].act = "hit_inv"
  <2>1. st[c] # "s_return2"
    BY <1>1, <1>9 DEF InvMoves
  <2>2. st[c] \in {"s_inv1", "s_return1"}
    BY <1>0, <1>2, <2>1 DEF ReturnStates
  <2>3. st'[c] \in ReturnStates
    BY <1>1, <1>2, <2>2 DEF NextState, Leaves, ReturnStates, PromoteStates, AskStates
  <2>4. dreq'[c] = dreq[c] /\ CacheOpPending(c)
    BY <1>0, <1>1, <1>2, <2>1 DEF PortMoves
  <2>5. fifo[c] = None
    BY <1>0, <1>2 DEF FifoFree
  <2> QED BY <2>2, <2>3, <2>4, <2>5 DEF CacheOpPending, Flushes
<1>3. CASE inv[c].act # "hit_inv"
  <2>1. st[c] = "s_idle" /\ st'[c] = "s_inv1" /\ CacheOpPending(c) /\ fifo[c] = None
    BY <1>1, <1>3, <1>9 DEF InvMoves
  <2>2. dreq'[c] = dreq[c]
    BY <1>1, <2>1 DEF PortMoves
  <2> QED BY <2>1, <2>2 DEF CacheOpPending, Flushes
<1> QED BY <1>2, <1>3

LEMMA FreeKept ==
    ASSUME NEW c, NEW moves, Clocked(c, moves), CtlInv(c), FifoFree(c)'
    PROVE  fifo'[c] = None
<1>0. /\ FifoFree(c) => fifo[c] = None
      /\ Filling(c) /\ LocalInv(c)'
      /\ ~Flushes(c, moves) => fifo'[c] \in {fifo[c], None}
  BY DEF CtlInv, Clocked
<1>1. NextState(st[c], st'[c]) /\ MissMoves(c) /\ RunMoves(c, moves)
  BY DEF Clocked, CtlStep
<1>2. CASE inv'[c].act = "hit_inv"
  BY <1>0, <1>2, DropKept
<1>3. CASE st'[c] \in MissStates \union AskStates \union {"s_miss2", "s_miss3", "s_miss4"}
  <2>1. \/ st[c] = "s_idle" /\ st'[c] = "s_miss1"
        \/ st[c] \in MissStates \union AskStates \union {"s_miss2", "s_miss3", "s_miss4"}
    BY <1>1, <1>3 DEF NextState, MissStates, PromoteStates, AskStates
  <2>2. st'[c] = "s_miss1" => mshr'[c].valid
    BY <1>0 DEF LocalInv, MissReg, MissStates
  <2>3. fifo[c] = None
    BY <1>0, <1>1, <2>1, <2>2 DEF FifoFree, MissMoves
  <2>4. ~Flushes(c, moves)
    BY <2>1 DEF Flushes, MissStates, AskStates
  <2> QED BY <1>0, <2>3, <2>4
<1>4. CASE st'[c] = "s_miss5" /\ ~bitmap'[c]
  <2>1. st[c] \in {"s_miss4", "s_miss5"}
    BY <1>1, <1>4 DEF NextState, PromoteStates, AskStates
  <2>2. st[c] = "s_miss5" => ~bitmap[c] /\ ~(moves /\ run[c] # "off")
    BY <1>1, <1>4 DEF RunMoves
  <2>3. fifo[c] = None /\ ~Flushes(c, moves)
    BY <1>0, <2>1, <2>2 DEF FifoFree, Flushes
  <2> QED BY <1>0, <2>3
<1>5. CASE st'[c] = "s_inv6" /\ run'[c] = "on"
  <2>1. st[c] \in {"s_inv5", "s_inv6"}
    BY <1>1, <1>5 DEF NextState, PromoteStates, AskStates
  <2>2. st[c] = "s_inv5" => fifo[c] = None
    BY <1>1, <1>5 DEF RunMoves
  <2>3. st[c] = "s_inv6" => run[c] = "on" /\ ~moves
    BY <1>1, <1>5 DEF RunMoves
  <2>4. fifo[c] = None /\ ~Flushes(c, moves)
    BY <1>0, <2>1, <2>2, <2>3 DEF FifoFree, Flushes
  <2> QED BY <1>0, <2>4
<1> QED BY <1>2, <1>3, <1>4, <1>5 DEF FifoFree

LEMMA FillingKept ==
    ASSUME NEW c, NEW moves, Clocked(c, moves), CtlInv(c)
    PROVE  Filling(c)'
<1> USE StateNumbers
<1>0. /\ Filling(c) /\ LocalInv(c) /\ LocalInv(c)' /\ Regs(c)
      /\ TagsSettle(st[c], inv[c].act, tag[c], rtag[c], xtag[c])
  BY DEF CtlInv, Clocked
<1>1. /\ NextState(st[c], st'[c]) /\ MissMoves(c) /\ RunMoves(c, moves) /\ TagsKept(c)
      /\ Leaves(c) /\ Piped(c)
  BY DEF Clocked, CtlStep, TagStep
<1>2. bitmap'[c] => st[c] \in {"s_miss5", "s_return1"} /\ st'[c] \in {"s_miss5"} \union ReturnStates
  <2>1. bitmap'[c] => st[c] \in {"s_miss5", "s_return1"}
    BY <1>0, <1>1 DEF Filling, RunMoves, ReturnStates
  <2> QED BY <1>1, <2>1 DEF NextState, ReturnStates, PromoteStates, AskStates
<1>3. st'[c] = "s_miss5" => (bitmap'[c] <=> run'[c] # "on")
  <2>1. SUFFICES ASSUME st'[c] = "s_miss5" PROVE bitmap'[c] <=> run'[c] # "on"
    OBVIOUS
  <2>2. st[c] \in {"s_miss4", "s_miss5"}
    BY <1>1, <2>1 DEF NextState, PromoteStates, AskStates
  <2>3. CASE st[c] = "s_miss4"
    BY <1>0, <1>1, <2>1, <2>3 DEF Filling, RunMoves, ReturnStates
  <2>4. CASE st[c] = "s_miss5"
    BY <1>0, <1>1, <2>1, <2>4 DEF Filling, RunMoves
  <2> QED BY <2>2, <2>3, <2>4
<1>4. st'[c] \in RefillStates => Shut(tag'[c].l1[mshr'[c].way])
  <2>1. SUFFICES ASSUME st'[c] \in RefillStates PROVE Shut(tag'[c].l1[mshr'[c].way])
    OBVIOUS
  <2>2. st[c] = "s_miss1" \/ (st[c] \in RefillStates /\ (st[c] = "s_miss5" => st'[c] = st[c]))
    BY <1>1, <2>1 DEF NextState, RefillStates, PromoteStates, AskStates
  <2>3. mshr'[c].way = mshr[c].way
    <3>1. mshr'[c].valid
      BY <1>0, <2>1 DEF LocalInv, MissReg, RefillStates, AskStates, FillStates
    <3> QED BY <1>1, <2>2, <3>1 DEF MissMoves, RefillStates
  <2>4. CASE st[c] = "s_miss1"
    BY <1>1, <2>1, <2>3, <2>4 DEF Leaves
  <2>5. CASE st[c] # "s_miss1"
    <3>1. tag'[c] = tag[c] /\ st[c] \in RefillStates
      BY <1>1, <2>2, <2>5 DEF TagsKept, RefillStates
    <3> QED BY <1>0, <2>3, <3>1 DEF Filling
  <2> QED BY <2>4, <2>5
<1>5. ASSUME st'[c] \in ReturnStates, bitmap'[c]
      PROVE  /\ tag'[c].l1[mshr'[c].way] = MkEntry(mshr'[c].addr, mshr'[c].ins)
             /\ mshr'[c].addr \in Lines /\ mshr'[c].way \in Ways
             /\ Unseen(xtag'[c], mshr'[c])
             /\ st'[c] = "s_return1" => Unseen(rtag'[c], mshr'[c])
  <2>1. mshr'[c] = mshr[c]
    BY <1>1, <1>2, <1>5 DEF MissMoves, FillStates
  <2>2. CASE st[c] = "s_miss5"
    <3>1. FillEnds(c)
      BY <1>1, <1>5, <2>2 DEF FillEnds, NextState, ReturnStates, PromoteStates, AskStates
    <3>2. mshr[c].addr \in Lines /\ mshr[c].way \in Ways
      BY <1>0, <2>2 DEF Regs, Fits, RefillStates
    <3>3. Unseen(tag[c], mshr[c])
      <4>1. ~Has(tag[c], mshr[c].addr, T_STATE_SHARED)
        BY <1>0, <2>2 DEF LocalInv, MissWay, RefillStates
      <4>2. Shut(tag[c].l1[mshr[c].way])
        BY <1>0, <2>2 DEF Filling, RefillStates
      <4> QED BY <4>1, <4>2 DEF Unseen, Has
    <3>4. rtag'[c] = tag[c] /\ xtag'[c] = tag[c]
      BY <1>0, <1>1, <2>2 DEF Piped, TagsSettle
    <3>5. tag'[c].l1[mshr[c].way] = MkEntry(mshr[c].addr, mshr[c].ins)
      BY <1>1, <3>1 DEF Leaves
    <3> QED BY <2>1, <3>2, <3>3, <3>4, <3>5
  <2>3. CASE st[c] = "s_return1"
    <3>1. bitmap[c]
      BY <1>1, <1>5, <2>3 DEF RunMoves
    <3>2. st'[c] = "s_return2" /\ tag'[c] = tag[c] /\ xtag'[c] = rtag[c]
      BY <1>1, <2>3 DEF TagsKept, Piped, NextState, PromoteStates, AskStates
    <3> QED BY <1>0, <2>1, <2>3, <3>1, <3>2 DEF Filling, ReturnStates
  <2> QED BY <1>2, <1>5, <2>2, <2>3
<1> QED BY <1>2, <1>3, <1>4, <1>5 DEF Filling

LEMMA PipeKept ==
    ASSUME NEW c, NEW moves, Clocked(c, moves), CtlInv(c), NEW w \in Ways, NEW l \in Lines
    PROVE  PipeDirty(c, w, l)'
<1> USE StateNumbers
<1>0. /\ Filling(c) /\ LocalInv(c) /\ Regs(c) /\ PipeDirty(c, w, l)
      /\ TagsSettle(st[c], inv[c].act, tag[c], rtag[c], xtag[c])
      /\ InPipe(st[c], tag[c], rtag[c], xtag[c])
  BY DEF CtlInv, Clocked, LocalInv
<1>1. /\ NextState(st[c], st'[c]) /\ InvMoves(c) /\ TagsKept(c) /\ DirtyGoes(c, w, l) /\ Piped(c)
  BY DEF Clocked, CtlStep, TagStep, L1Step
<1>2. PICK e, r : e = tag[c].l1[w] /\ r = rtag[c].l1[w] /\ e \in L1Entry /\ r \in L1Entry
  BY <1>0, PipeEntries
<1>3. rtag'[c].l1[w] = e /\ xtag'[c].l1[w] = r
  BY <1>1, <1>2 DEF Piped
(* Where a dirty entry of the tags is one clock later. *)
<1>4. ASSUME Held(e, l, 3), ~(st[c] = "s_miss5" /\ w = mshr[c].way /\ FillEnds(c))
      PROVE  \/ Held(tag'[c].l1[w], l, 3)
             \/ st'[c] = "s_inv3" /\ w = inv'[c].way /\ Held(tag'[c].l1[w], l, 2)
             \/ Dropping(c)'
  <2>1. CASE st[c] = "s_inv2" /\ w = inv[c].way /\ Held(tag'[c].l1[w], l, 2)
    <3>1. st'[c] = "s_inv3"
      BY <1>1, <2>1 DEF NextState, PromoteStates, AskStates
    <3>2. inv'[c] = inv[c]
      BY <1>1, <2>1, <3>1 DEF InvMoves
    <3> QED BY <2>1, <3>1, <3>2
  <2>2. CASE st[c] = "s_inv1" /\ st'[c] = "s_return1" /\ inv[c].act = "hit_inv"
    <3>1. inv'[c] = inv[c]
      BY <1>1, <2>2 DEF InvMoves
    <3> QED BY <2>2, <3>1 DEF Dropping, ReturnStates
  <2> QED BY <1>1, <1>2, <1>4, <2>1, <2>2 DEF DirtyGoes, FillEnds
<1>5. (w = mshr[c].way /\ st[c] = "s_miss5") => ~Open(e, l, 3) /\ ~Open(r, l, 3)
  <2>1. SUFFICES ASSUME w = mshr[c].way, st[c] = "s_miss5" PROVE ~Open(e, l, 3) /\ ~Open(r, l, 3)
    OBVIOUS
  <2>2. Shut(e) /\ r = e
    BY <1>0, <1>2, <2>1 DEF Filling, RefillStates, TagsSettle
  <2>3. ~Open(e, l, 1)
    BY <2>2 DEF Shut
  <2> QED BY <1>2, <2>2, <2>3, HeldChain
<1>6. Open(e, l, 3) => \/ Held(tag'[c].l1[w], l, 3)
                       \/ st'[c] = "s_inv3" /\ w = inv'[c].way /\ Held(tag'[c].l1[w], l, 2)
                       \/ Dropping(c)'
  BY <1>2, <1>4, <1>5, HeldChain
<1>7. ASSUME Open(r, l, 3)
      PROVE  \/ Held(tag'[c].l1[w], l, 3) /\ Held(e, l, 2)
             \/ /\ st'[c] \in {"s_inv3", "s_inv4"} /\ w = inv'[c].way
                /\ Held(tag'[c].l1[w], l, 2) /\ Held(e, l, 2)
             \/ Dropping(c)'
  <2>1. CASE Held(e, l, 3)
    BY <1>2, <1>4, <1>5, <1>7, <2>1, HeldChain
  <2>2. CASE st[c] = "s_inv3" /\ w = inv[c].way /\ Held(e, l, 2)
    <3>1. st'[c] = "s_inv4" /\ tag'[c] = tag[c]
      BY <1>1, <2>2 DEF NextState, TagsKept, PromoteStates, AskStates
    <3>2. inv'[c] = inv[c]
      BY <1>1, <2>2, <3>1 DEF InvMoves
    <3> QED BY <1>2, <2>2, <3>1, <3>2
  <2>3. CASE Dropping(c)
    <3>1. CASE st[c] = "s_return1"
      <4>1. st'[c] = "s_return2"
        BY <1>1, <3>1 DEF NextState, PromoteStates, AskStates
      <4>2. inv'[c] = inv[c]
        BY <1>1, <3>1, <4>1 DEF InvMoves
      <4> QED BY <2>3, <4>1, <4>2 DEF Dropping, ReturnStates
    <3>2. CASE st[c] = "s_return2"
      <4>1. r = e
        BY <1>0, <1>2, <3>2 DEF InPipe
      <4>2. Held(e, l, 3)
        BY <1>2, <1>7, <4>1, HeldChain
      <4> QED BY <2>1, <4>2
    <3> QED BY <2>3, <3>1, <3>2 DEF Dropping, ReturnStates
  <2> QED BY <1>0, <1>2, <1>7, <2>1, <2>2, <2>3 DEF PipeDirty
<1> QED BY <1>3, <1>6, <1>7 DEF PipeDirty

LEMMA DirtyWaysKept ==
    ASSUME NEW c, NEW moves, Clocked(c, moves), CtlInv(c)
    PROVE  DirtyWays(c)'
<1>0. DirtyWays(c) /\ MissMoves(c) /\ L1Step(c)
  BY DEF CtlInv, Clocked, CtlStep, TagStep
<1>1. ASSUME NEW w \in Ways, NEW l \in Lines, Held(tag'[c].l1[w], l, T_STATE_MODIFIED)
      PROVE  w \in DWays
  BY <1>0, <1>1 DEF L1Step, DirtyFrom, DirtyWays
<1>2. ASSUME mshr'[c].valid, mshr'[c].min = T_STATE_MODIFIED
      PROVE  mshr'[c].way \in DWays
  <2>1. CASE st[c] = "s_idle"
    BY <1>0, <1>2, <2>1 DEF MissMoves
  <2>2. CASE st[c] # "s_idle"
    BY <1>0, <1>2, <2>2 DEF MissMoves, DirtyWays
  <2> QED BY <2>1, <2>2
<1> QED BY <1>1, <1>2 DEF DirtyWays

LEMMA CtlKept ==
    ASSUME NEW c, NEW moves, Clocked(c, moves), CtlInv(c)
    PROVE  CtlInv(c)'
<1>0. /\ LocalInv(c) /\ LocalInv(c)' /\ Piped(c) /\ OneCopy(tag[c]) /\ OneCopy(rtag[c])
      /\ st[c] \in CopyStates => oldaddr[c] = tag[c].l1[inv[c].way].addr
      /\ st[c] \in MissStates \union AskStates => ~mshr[c].l2hit
  BY DEF CtlInv, Clocked, LocalInv
<1>1. /\ NextState(st[c], st'[c]) /\ InvMoves(c) /\ TagsKept(c) /\ OldMoves(c) /\ Leaves(c)
      /\ MissMoves(c)
  BY DEF Clocked, CtlStep, TagStep
<1>2. OneCopy(rtag'[c]) /\ OneCopy(xtag'[c])
  BY <1>0 DEF Piped
<1>3. ASSUME st'[c] \in CopyStates PROVE oldaddr'[c] = tag'[c].l1[inv'[c].way].addr
  <2>1. st[c] \in CopyStates \union {"s_inv2"} /\ st'[c] # "s_inv0"
        /\ (st[c] = "s_inv6" => st'[c] = st[c])
    BY <1>1, <1>3 DEF NextState, CopyStates, PromoteStates, AskStates
  <2>2. inv'[c] = inv[c]
    BY <1>1, <2>1 DEF InvMoves, CopyStates
  <2>3. CASE st[c] = "s_inv2"
    BY <1>1, <2>2, <2>3 DEF OldMoves, Leaves
  <2>4. CASE st[c] \in CopyStates
    <3>1. tag'[c] = tag[c] /\ oldaddr'[c] = oldaddr[c]
      BY <1>1, <2>1, <2>4 DEF TagsKept, OldMoves, CopyStates
    <3> QED BY <1>0, <2>2, <2>4, <3>1
  <2> QED BY <2>1, <2>3, <2>4
<1>4. ASSUME st'[c] \in MissStates \union AskStates PROVE ~mshr'[c].l2hit
  <2>1. st[c] = "s_idle" \/ st[c] \in MissStates \union AskStates
    BY <1>1, <1>4 DEF NextState, MissStates, PromoteStates, AskStates
  <2>2. mshr'[c].valid
    BY <1>0, <1>4 DEF LocalInv, MissReg
  <2>3. CASE st[c] = "s_idle"
    BY <1>1, <2>2, <2>3 DEF MissMoves
  <2>4. CASE st[c] # "s_idle"
    <3>1. st'[c] # "s_miss2"
      BY <1>4 DEF MissStates, AskStates
    <3> QED BY <1>0, <1>1, <2>1, <2>2, <2>4, <3>1 DEF MissMoves
  <2> QED BY <2>3, <2>4
<1>5. TagsSettle(st[c], inv[c].act, tag[c], rtag[c], xtag[c])'
  BY SettleKept
<1>6. FifoFree(c)' => fifo'[c] = None
  BY FreeKept
<1>7. Filling(c)' /\ DirtyWays(c)'
  BY FillingKept, DirtyWaysKept
<1>8. \A w \in Ways, l \in Lines : PipeDirty(c, w, l)'
  BY PipeKept
<1>9. inv'[c].act = "hit_inv" => st'[c] \in {"s_inv1"} \union ReturnStates /\ CacheOpPending(c)'
  BY DropKept
<1> QED BY <1>2, <1>3, <1>4, <1>5, <1>6, <1>7, <1>8, <1>9 DEF CtlInv

-----------------------------------------------------------------------------
(* The line the FIFO holds is the line a snoop waits for. *)
LEMMA DirtyHeld ==
    ASSUME NEW e \in L1Entry
    PROVE  /\ Dirty(e) => e.addr \in Lines /\ Held(e, e.addr, T_STATE_MODIFIED)
           /\ \A l : Held(e, l, T_STATE_MODIFIED) => Dirty(e) /\ e.addr = l
<1>1. e.st \in cache_state_t /\ (cache_state_unlock(e.st) # 0 => e.addr \in Lines)
  BY StateNumbers DEF L1Entry, Entry
<1>2. cache_state_unlock(e.st) \in 0..3
  BY <1>1, StateFacts DEF UnlockedStates
<1> QED BY <1>1, <1>2, StateNumbers DEF Dirty, Held

LEMMA TagSees ==
    ASSUME NEW c, LocalInv(c), NEW l \in Lines, NEW n \in Levels, Has(tag[c], l, n)
    PROVE  Sees(c, l, n)
BY DEF LocalInv, Covered, Sees

LEMMA OwnWait ==
    ASSUME NEW c, Regs(c), LocalInv(c), Active(c), snp[c].addr \in Lines,
           Sees(c, snp[c].addr, T_STATE_EXCLUSIVE)
    PROVE  CCWait(c)
<1>1. PICK l : l = snp[c].addr
  OBVIOUS
<1>2. /\ l \in Lines
      /\ Sees(c, l, T_STATE_EXCLUSIVE)
  BY <1>1
<1>3. Sees(c, l, T_STATE_SHARED)
  BY <1>2, SeesLower
<1>4. /\ MatchStates(c, l) # {}
      /\ \E s \in MatchStates(c, l) : cache_state_unlock(s) >= T_STATE_EXCLUSIVE
  BY <1>2, <1>3, MatchSees
<1>5. cache_state_unlock(T_STATE_EXCLUSIVE) = T_STATE_EXCLUSIVE
  BY StateFacts
<1> QED BY <1>1, <1>4, <1>5
        DEF CCWait, s_attn, s_match, s_match_excl, cache_state_test_at_least

OpsAsked(c) ==
    /\ dreq[c] # None => dreq[c].op \in DOps
    /\ inv[c].act = "idx_wb_inv" => "idx_wb_inv" \in DOps

(* One writeback empties what an invalidation finds dirty. *)
OneDirtyWay == "idx_wb_inv" \notin DOps \/ \A w, y \in DWays : w = y

CopyDone(c) ==
    /\ st[c] \in CopyStates \union {"s_inv7"} => InvDirty(c) = {}
    /\ st[c] = "s_inv2" => inv[c].way \in InvDirty(c)

LEMMA OpsKept ==
    ASSUME NEW c, NEW moves, Clocked(c, moves), OpsAsked(c)
    PROVE  OpsAsked(c)'
<1>1. PortMoves(c) /\ InvMoves(c)
  BY DEF Clocked, CtlStep
<1>2. None # "idx_wb_inv"
  BY NoneAssumption DEF InvActs, CacheOps
<1>3. dreq'[c] # None => dreq'[c].op \in DOps
  BY <1>1 DEF PortMoves, OpsAsked
<1>4. inv'[c].act = "idx_wb_inv" => "idx_wb_inv" \in DOps
  BY <1>1, <1>2 DEF InvMoves, OpsAsked, CacheOpPending
<1> QED BY <1>3, <1>4 DEF OpsAsked

LEMMA InvDirtyIs ==
    ASSUME NEW c, Regs(c), NEW w \in Ways
    PROVE  w \in InvDirty(c) <=>
             /\ inv[c].act # "hit_inv"
             /\ \E l \in Lines : /\ Held(tag[c].l1[w], l, T_STATE_MODIFIED)
                                 /\ inv[c].act # "idx_wb_inv" => l = inv[c].addr
<1>1. PICK e : e = tag[c].l1[w] /\ e \in L1Entry
  BY PipeEntries
<1>2. /\ Dirty(e) => e.addr \in Lines /\ Held(e, e.addr, T_STATE_MODIFIED)
      /\ \A l : Held(e, l, T_STATE_MODIFIED) => Dirty(e) /\ e.addr = l
  BY <1>1, DirtyHeld
<1>3. Dirty(e) => \A l : Holds(e, l) <=> e.addr = l
  BY StateNumbers DEF Dirty, Holds
<1>4. w \in InvDirty(c) <=> /\ inv[c].act # "hit_inv" /\ Dirty(e)
                            /\ inv[c].act # "idx_wb_inv" => Holds(e, inv[c].addr)
  BY <1>1 DEF InvDirty, InvMatches, L1Matches
<1> QED BY <1>1, <1>2, <1>3, <1>4

LEMMA InvDirtyIsNext ==
    ASSUME NEW c, Regs(c)', NEW w \in Ways
    PROVE  w \in InvDirty(c)' <=>
             /\ inv'[c].act # "hit_inv"
             /\ \E l \in Lines : /\ Held(tag'[c].l1[w], l, T_STATE_MODIFIED)
                                 /\ inv'[c].act # "idx_wb_inv" => l = inv'[c].addr
<1>1. PICK e : e = tag'[c].l1[w] /\ e \in L1Entry
  BY DEF Regs, Tags
<1>2. /\ Dirty(e) => e.addr \in Lines /\ Held(e, e.addr, T_STATE_MODIFIED)
      /\ \A l : Held(e, l, T_STATE_MODIFIED) => Dirty(e) /\ e.addr = l
  BY <1>1, DirtyHeld
<1>3. Dirty(e) => \A l : Holds(e, l) <=> e.addr = l
  BY StateNumbers DEF Dirty, Holds
<1>4. w \in InvDirty(c)' <=> /\ inv'[c].act # "hit_inv" /\ Dirty(e)
                             /\ inv'[c].act # "idx_wb_inv" => Holds(e, inv'[c].addr)
  BY <1>1 DEF InvDirty, InvMatches, L1Matches
<1> QED BY <1>1, <1>2, <1>3, <1>4

LEMMA InvDirtyFrom ==
    ASSUME NEW c, NEW moves, Clocked(c, moves), st[c] \notin {"s_miss1", "s_lsnoop_promote3", "s_miss5"},
           inv'[c].act = inv[c].act, inv'[c].addr = inv[c].addr, NEW w \in Ways, w \in InvDirty(c)'
    PROVE  w \in InvDirty(c)
<1>1. Regs(c) /\ Regs(c)' /\ L1Step(c)
  BY DEF Clocked, TagStep
<1>2. PICK l \in Lines : /\ Held(tag'[c].l1[w], l, T_STATE_MODIFIED)
                         /\ inv[c].act # "idx_wb_inv" => l = inv[c].addr
      /\ inv[c].act # "hit_inv"
  BY <1>1, InvDirtyIsNext
<1>3. Held(tag[c].l1[w], l, T_STATE_MODIFIED)
  BY <1>1, <1>2 DEF L1Step, DirtyFrom
<1> QED BY <1>1, <1>2, <1>3, InvDirtyIs

LEMMA OneDirty ==
    ASSUME NEW c, Regs(c), LocalInv(c), DirtyWays(c), OpsAsked(c), OneDirtyWay,
           NEW w \in Ways, NEW y \in Ways, w \in InvDirty(c), y \in InvDirty(c)
    PROVE  w = y
<1>1. PICK l \in Lines : /\ Held(tag[c].l1[w], l, T_STATE_MODIFIED)
                         /\ inv[c].act # "idx_wb_inv" => l = inv[c].addr
  BY InvDirtyIs
<1>2. PICK k \in Lines : /\ Held(tag[c].l1[y], k, T_STATE_MODIFIED)
                         /\ inv[c].act # "idx_wb_inv" => k = inv[c].addr
  BY InvDirtyIs
<1>3. CASE inv[c].act = "idx_wb_inv"
  BY <1>1, <1>2, <1>3 DEF DirtyWays, OneDirtyWay, OpsAsked
<1>4. CASE inv[c].act # "idx_wb_inv"
  <2>1. Held(tag[c].l1[w], l, T_STATE_SHARED) /\ Held(tag[c].l1[y], l, T_STATE_SHARED)
    BY <1>1, <1>2, <1>4, PipeEntries, HeldChain, StateNumbers
  <2> QED BY <2>1 DEF LocalInv, OneCopy
<1> QED BY <1>3, <1>4

LEMMA CopyDoneKept ==
    ASSUME NEW c, NEW moves, Clocked(c, moves), CtlInv(c), OpsAsked(c), OneDirtyWay, CopyDone(c)
    PROVE  CopyDone(c)'
<1>0. Regs(c) /\ Regs(c)' /\ LocalInv(c) /\ LocalInv(c)' /\ DirtyWays(c) /\ L1Step(c)
  BY DEF Clocked, CtlInv, TagStep
<1>1. NextState(st[c], st'[c]) /\ InvMoves(c)
  BY DEF Clocked, CtlStep
<1>2. ASSUME st'[c] \in CopyStates \union {"s_inv7"} PROVE InvDirty(c)' = {}
  <2>1. st[c] \in CopyStates \union {"s_inv2"}
    BY <1>1, <1>2 DEF NextState, CopyStates, PromoteStates, AskStates
  <2>2. inv'[c] = inv[c]
    BY <1>1, <1>2, <2>1 DEF InvMoves, CopyStates
  <2>3. ASSUME NEW w \in InvDirty(c)' PROVE FALSE
    <3>0. w \in Ways
      BY <2>3 DEF InvDirty, InvMatches, L1Matches
    <3>1. w \in InvDirty(c)
      BY <2>1, <2>2, <2>3, <3>0, InvDirtyFrom DEF CopyStates
    <3>2. CASE st[c] \in CopyStates
      BY <3>1, <3>2 DEF CopyDone
    <3>3. CASE st[c] = "s_inv2"
      <4>1. inv[c].way \in InvDirty(c) /\ inv[c].way \in Ways
        BY <1>0, <3>3 DEF CopyDone, Regs, Fits
      <4>2. w = inv[c].way
        BY <1>0, <3>0, <3>1, <4>1, OneDirty
      <4>3. st'[c] = "s_inv3"
        BY <1>1, <3>3 DEF NextState, PromoteStates, AskStates
      <4>4. PICK e : e = tag'[c].l1[w]
        OBVIOUS
      <4>5. cache_state_unlock(e.st) = 2
        BY <1>0, <2>2, <4>2, <4>3, <4>4, StateNumbers DEF LocalInv, CopyWay, CopyStates
      <4>6. cache_state_unlock(e.st) = 3
        BY <2>3, <4>4, StateNumbers DEF InvDirty, Dirty
      <4> QED BY <4>5, <4>6
    <3> QED BY <2>1, <3>2, <3>3
  <2> QED BY <2>3
<1>3. ASSUME st'[c] = "s_inv2" PROVE inv'[c].way \in InvDirty(c)'
  <2>1. st[c] = "s_inv1"
    BY <1>1, <1>3 DEF NextState, PromoteStates, AskStates
  <2>2. inv'[c].act = inv[c].act /\ inv'[c].addr = inv[c].addr /\ inv'[c].way \in InvDirty(c)
    BY <1>1, <1>3, <2>1 DEF InvMoves
  <2>3. PICK w : w = inv'[c].way
    OBVIOUS
  <2>4. w \in Ways /\ w \in InvDirty(c)
    BY <2>2, <2>3 DEF InvDirty, InvMatches, L1Matches
  <2>5. PICK e : e = tag'[c].l1[w] /\ e \in L1Entry
    BY <1>0, <2>4 DEF Regs, Tags
  <2>6. Dirty(e)
    BY <1>0, <1>3, <2>3, <2>5 DEF LocalInv, CopyWay, Dirty
  <2>7. e.addr \in Lines /\ Held(e, e.addr, T_STATE_MODIFIED)
    BY <2>5, <2>6, DirtyHeld
  <2>8. Held(tag[c].l1[w], e.addr, T_STATE_MODIFIED)
    BY <1>0, <2>1, <2>4, <2>5, <2>7 DEF L1Step, DirtyFrom
  <2>9. PICK l \in Lines : /\ Held(tag[c].l1[w], l, T_STATE_MODIFIED)
                           /\ inv[c].act # "idx_wb_inv" => l = inv[c].addr
        /\ inv[c].act # "hit_inv"
    BY <1>0, <2>4, InvDirtyIs
  <2>10. e.addr = l
    BY <2>8, <2>9 DEF Held
  <2> QED BY <1>0, <2>2, <2>3, <2>4, <2>5, <2>7, <2>9, <2>10, InvDirtyIsNext
<1> QED BY <1>2, <1>3 DEF CopyDone

SnoopInv(c) == snp[c].addr = inv[c].addr /\ inv[c].act \in {"hit_wb_inv", "hit_wb_shar"}

FifoAddr(c) ==
    fifo[c] # None =>
      /\ \/ fifo[c].addr = oldaddr[c]
         \/ /\ st[c] \in {"s_inv3", "s_inv4", "s_inv5"}
            /\ Active(c) /\ snp[c].addr = oldaddr[c]
      /\ st[c] = "s_inv0" => s_attn(c) /\ SnoopInv(c)
      /\ st[c] = "s_inv1" /\ InvDirty(c) # {} => Active(c) /\ SnoopInv(c)
      /\ st[c] = "s_inv2" => Active(c) /\ snp[c].addr = tag[c].l1[inv[c].way].addr

(* What a snoop waits for stays in the snoop pipeline. *)
Waits(c) == CCWait(c) => snp'[c] = snp[c]

LEMMA SnoopTakenWaits ==
    ASSUME NEW c, NEW moves, Clocked(c, moves), Waits(c), st[c] = "s_idle", st'[c] = "s_inv0"
    PROVE  s_attn(c)' /\ SnoopInv(c)'
<1>0. /\ Regs(c) /\ LocalInv(c) /\ LocalInv(c)' /\ Piped(c) /\ InvMoves(c) /\ MissMoves(c)
      /\ InPipe(st[c], tag[c], rtag[c], xtag[c]) /\ ~mshr[c].valid
  BY DEF Clocked, CtlStep, LocalInv, MissReg
<1>1. s_attn(c) /\ inv'[c].addr = snp[c].addr /\ inv'[c].act \in {"hit_wb_inv", "hit_wb_shar"}
  BY <1>0 DEF InvMoves
<1>2. snp'[c] = snp[c]
  BY <1>1 DEF Waits, CCWait, s_attn
<1>3. ~mshr'[c].valid
  BY <1>0 DEF MissMoves
<1>4. xtag'[c] = xtag[c]
  BY <1>0 DEF InPipe, Piped
<1>5. MatchStates(c, snp[c].addr)' = MatchStates(c, snp[c].addr)
  BY <1>0, <1>2, <1>3, <1>4 DEF MatchStates, TagWays
<1>6. s_attn(c)'
  BY <1>1, <1>2, <1>5 DEF s_attn, s_match, s_match_excl, Active
<1> QED BY <1>1, <1>2, <1>6 DEF SnoopInv

LEMMA AddrKept ==
    ASSUME NEW c, NEW moves, Clocked(c, moves), CtlInv(c), CopyDone(c), FifoAddr(c), Waits(c),
           ~NO_WRITEBACK_SNOOPING, Flushes(c, moves) => fifo'[c].addr = oldaddr[c]
    PROVE  FifoAddr(c)'
<1> USE StateNumbers
<1>0. /\ Regs(c) /\ Regs(c)' /\ LocalInv(c) /\ LocalInv(c)' /\ Filling(c)
      /\ FifoFree(c) => fifo[c] = None
      /\ ~Flushes(c, moves) => fifo'[c] \in {fifo[c], None}
  BY DEF Clocked, CtlInv
<1>1. /\ NextState(st[c], st'[c]) /\ InvMoves(c) /\ OldMoves(c) /\ RunMoves(c, moves) /\ L1Step(c)
      /\ TagsKept(c)
  BY DEF Clocked, CtlStep, TagStep
<1>2. CASE Flushes(c, moves)
  <2>1. st[c] \in {"s_miss5", "s_inv6"} /\ run[c] # "off"
    BY <1>2 DEF Flushes
  <2>2. st'[c] = st[c] /\ oldaddr'[c] = oldaddr[c]
    BY <1>1, <2>1 DEF RunMoves, OldMoves
  <2> QED BY <1>2, <2>1, <2>2 DEF FifoAddr
<1>3. CASE fifo'[c] = None
  BY <1>3 DEF FifoAddr
<1>4. CASE fifo'[c] = fifo[c] /\ fifo[c] # None
  <2>0. ~FifoFree(c)
    BY <1>0, <1>4
  <2>1. \/ fifo'[c].addr = oldaddr'[c]
        \/ /\ st'[c] \in {"s_inv3", "s_inv4", "s_inv5"}
           /\ Active(c)' /\ snp'[c].addr = oldaddr'[c]
    <3>1. CASE st[c] = "s_inv2"
      <4>1. st'[c] = "s_inv3" /\ oldaddr'[c] = tag[c].l1[inv[c].way].addr
        BY <1>1, <3>1 DEF NextState, OldMoves, PromoteStates, AskStates
      <4>2. Active(c) /\ snp[c].addr = tag[c].l1[inv[c].way].addr
        BY <1>4, <3>1 DEF FifoAddr
      <4>3. snp[c].addr \in Lines /\ inv[c].way \in Ways
        BY <1>0, <3>1, <4>2 DEF Regs, Fits
      <4>4. Held(tag[c].l1[inv[c].way], snp[c].addr, T_STATE_EXCLUSIVE)
        BY <1>0, <3>1, <4>2 DEF LocalInv, CopyWay, Held
      <4>5. Sees(c, snp[c].addr, T_STATE_EXCLUSIVE)
        BY <1>0, <4>3, <4>4, TagSees, LevelNumbers DEF Has
      <4>6. snp'[c] = snp[c]
        BY <1>0, <4>2, <4>3, <4>5, OwnWait DEF Waits
      <4> QED BY <4>1, <4>2, <4>6 DEF Active
    <3>2. CASE st[c] # "s_inv2"
      <4>1. st[c] # "s_miss1"
        BY <2>0 DEF FifoFree, MissStates
      <4>2. oldaddr'[c] = oldaddr[c]
        BY <1>1, <1>4, <3>2, <4>1 DEF OldMoves
      <4>3. CASE fifo[c].addr = oldaddr[c]
        BY <1>4, <4>2, <4>3
      <4>4. CASE /\ st[c] \in {"s_inv3", "s_inv4", "s_inv5"}
                 /\ Active(c) /\ snp[c].addr = oldaddr[c]
        <5>1. CCWait(c)
          BY <1>4, <4>4 DEF CCWait, s_fifowait
        <5>2. snp'[c] = snp[c]
          BY <5>1 DEF Waits
        <5>3. st'[c] \in {"s_inv4", "s_inv5"}
          BY <1>1, <1>4, <4>4 DEF NextState, RunMoves, PromoteStates, AskStates
        <5> QED BY <4>2, <4>4, <5>2, <5>3 DEF Active
      <4> QED BY <1>4, <4>3, <4>4 DEF FifoAddr
    <3> QED BY <3>1, <3>2
  <2>2. ASSUME st'[c] = "s_inv0" PROVE s_attn(c)' /\ SnoopInv(c)'
    <3>1. st[c] \in {"s_idle"} \union PromoteStates \union AskStates
      BY <1>1, <2>2 DEF NextState, PromoteStates, AskStates
    <3>2. st[c] = "s_idle"
      BY <2>0, <3>1 DEF FifoFree, MissStates, PromoteStates
    <3> QED BY <2>2, <3>2, SnoopTakenWaits
  <2>3. ASSUME st'[c] = "s_inv1", InvDirty(c)' # {} PROVE Active(c)' /\ SnoopInv(c)'
    <3>1. st[c] \in {"s_idle", "s_miss1", "s_inv0", "s_inv7"}
      BY <1>1, <2>3 DEF NextState, PromoteStates, AskStates
    <3>2. st[c] # "s_miss1" /\ st[c] # "s_idle"
      BY <1>1, <1>4, <2>0, <2>3 DEF FifoFree, MissStates, InvMoves
    <3>3. inv'[c] = inv[c]
      BY <1>1, <2>3, <3>1, <3>2 DEF InvMoves
    <3>4. CASE st[c] = "s_inv0"
      <4>1. s_attn(c) /\ SnoopInv(c)
        BY <1>4, <3>4 DEF FifoAddr
      <4>2. snp'[c] = snp[c]
        BY <4>1 DEF Waits, CCWait, s_attn
      <4> QED BY <3>3, <4>1, <4>2 DEF SnoopInv, Active, s_attn
    <3>5. CASE st[c] = "s_inv7"
      <4>1. PICK w : w \in InvDirty(c)'
        BY <2>3
      <4>2. w \in Ways
        BY <4>1 DEF InvDirty, InvMatches, L1Matches
      <4>3. w \in InvDirty(c)
        BY <3>3, <3>5, <4>1, <4>2, InvDirtyFrom
      <4> QED BY <3>5, <4>3 DEF CopyDone
    <3> QED BY <3>1, <3>2, <3>4, <3>5
  <2>4. ASSUME st'[c] = "s_inv2" PROVE Active(c)' /\ snp'[c].addr = tag'[c].l1[inv'[c].way].addr
    <3>1. st[c] = "s_inv1"
      BY <1>1, <2>4 DEF NextState, PromoteStates, AskStates
    <3>2. inv'[c].way \in InvDirty(c)
      BY <1>1, <2>4, <3>1 DEF InvMoves
    <3>3. Active(c) /\ SnoopInv(c)
      BY <1>4, <3>1, <3>2 DEF FifoAddr
    <3>4. PICK w \in Ways : w = inv'[c].way
      BY <3>2 DEF InvDirty, InvMatches, L1Matches
    <3>5. PICK l : l = snp[c].addr
      OBVIOUS
    <3>6. Held(tag[c].l1[w], l, 3) /\ l \in Lines
      <4>1. w \in InvDirty(c)
        BY <3>2, <3>4
      <4>2. PICK k \in Lines : /\ Held(tag[c].l1[w], k, T_STATE_MODIFIED)
                               /\ inv[c].act # "idx_wb_inv" => k = inv[c].addr
        BY <1>0, <4>1, InvDirtyIs
      <4> QED BY <3>3, <3>5, <4>2 DEF SnoopInv
    <3>7. Held(tag[c].l1[w], l, 2)
      BY <1>0, <3>6, PipeEntries, HeldChain
    <3>8. Sees(c, l, T_STATE_EXCLUSIVE)
      BY <1>0, <3>6, <3>7, TagSees, LevelNumbers DEF Has
    <3>9. snp'[c] = snp[c]
      BY <1>0, <3>3, <3>5, <3>6, <3>8, OwnWait DEF Waits
    <3>10. PICK e : e = tag'[c].l1[w] /\ e \in L1Entry
      BY <1>0 DEF Regs, Tags
    <3>11. Dirty(e)
      BY <1>0, <2>4, <3>4, <3>10 DEF LocalInv, CopyWay, Dirty
    <3>12. e.addr \in Lines /\ Held(e, e.addr, T_STATE_MODIFIED)
      BY <3>10, <3>11, DirtyHeld
    <3>13. Held(tag[c].l1[w], e.addr, T_STATE_MODIFIED)
      BY <1>1, <3>1, <3>10, <3>12 DEF L1Step, DirtyFrom
    <3>14. e.addr = l
      BY <3>6, <3>13 DEF Held
    <3> QED BY <3>3, <3>4, <3>5, <3>9, <3>10, <3>14 DEF Active
  <2> QED BY <2>1, <2>2, <2>3, <2>4 DEF FifoAddr
<1> QED BY <1>0, <1>2, <1>3, <1>4

-----------------------------------------------------------------------------
(* One clock of the data path. *)
Fills(c, moves) == moves /\ run[c] = "on" /\ st[c] = "s_miss5"

MovedWay(c) == IF st[c] = "s_miss5" THEN mshr[c].way ELSE inv[c].way

InFifo(c, l) == fifo[c] # None /\ fifo[c].addr = l

FillVal(c) == IF mshr[c].l2hit THEN d2[c][L2Set[mshr[c].addr]] ELSE mdat[c]

FilledWay(c, moves, w) ==
    IF Fills(c, moves) /\ w = mshr[c].way THEN FillVal(c) ELSE d1[c][w]

(* The ways a store to line l writes. *)
StoreWay(c, w, l) ==
    /\ w \in DWays
    /\ \/ Open(xtag[c].l1[w], l, T_STATE_MODIFIED)
       \/ bitmap[c] /\ w = mshr[c].way /\ Won(mshr[c], l, T_STATE_MODIFIED)

StoreStep(c, moves, l, v) ==
    /\ l \in Lines /\ ~CacheOpPending(c)
    /\ \E w \in Ways : StoreWay(c, w, l)
    /\ \A w \in Ways : d1'[c][w] = IF StoreWay(c, w, l) THEN v ELSE FilledWay(c, moves, w)
    /\ \A k \in Lines : last'[k] = IF k = l THEN v ELSE last[k]

QuietStep(c, moves) ==
    /\ \A w \in Ways : d1'[c][w] = FilledWay(c, moves, w)
    /\ \A k \in Lines : last'[k] = IF Discards(c) /\ k = inv[c].addr THEN mem[k] ELSE last[k]

MemStep(c, moves) ==
    /\ Flushes(c, moves) => fifo'[c] = [addr |-> oldaddr[c], val |-> d1[c][MovedWay(c)]]
    /\ ~Flushes(c, moves) => fifo'[c] \in {fifo[c], None}
    /\ \A l \in Lines : mem'[l] = mem[l] \/ (InFifo(c, l) /\ mem'[l] = fifo[c].val)
    /\ fifo[c] # None /\ fifo'[c] = None => mem'[fifo[c].addr] = fifo[c].val
    /\ \A q \in L2Sets : d2'[c][q] =
         IF Fills(c, moves) /\ mshr[c].old # T_STATE_INVALID /\ q = L2Set[oldaddr[c]]
         THEN d1[c][mshr[c].way] ELSE d2[c][q]
    /\ \/ mdat'[c] \in {mdat[c], None}
       \/ MemRead(c) /\ mdat'[c] = mem[mshr[c].addr]
    /\ MemRead(c) => ~Fills(c, moves)
    /\ Fills(c, moves) => (mshr[c].l2hit \/ mdat[c] # None) /\ mdat'[c] = None

LEMMA MovingFree ==
    ASSUME NEW c, LocalInv(c), CtlInv(c), run[c] = "on"
    PROVE  fifo[c] = None /\ st[c] \in {"s_miss5", "s_inv6"} /\ ~bitmap[c]
<1>1. st[c] \in {"s_miss5", "s_inv6"}
  BY DEF LocalInv
<1>2. ~bitmap[c]
  BY <1>1 DEF CtlInv, Filling, ReturnStates
<1> QED BY <1>1, <1>2 DEF CtlInv, FifoFree

LEMMA MemoryStep ==
    ASSUME NEW c, Regs(c), DataType, LocalInv(c), CtlInv(c), NEW m_halt,
           NEW moves \in MoveChoices(c), Memory(c, m_halt, moves)
    PROVE  MemStep(c, moves)
<1>0. c \in CPUs /\ moves \in BOOLEAN
  BY DEF Regs, MoveChoices
<1>1. Fills(c, moves) => mshr[c].l2hit \/ mdat[c] # None
  BY DEF Fills, MoveChoices
<1>2. MemRead(c) => ~Fills(c, moves)
  BY <1>1 DEF MemRead
<1>3. moves /\ run[c] = "on" => fifo[c] = None /\ st[c] \in {"s_miss5", "s_inv6"} /\ ~bitmap[c]
  BY MovingFree
<1>4. CASE fifo[c] # None /\ ~m_halt
  <2>1. ~(moves /\ run[c] = "on")
    BY <1>3, <1>4
  <2>2. ~Fills(c, moves) /\ ~Flushes(c, moves)
    BY <2>1 DEF Fills, Flushes
  <2>3. /\ mem' = [mem EXCEPT ![fifo[c].addr] = fifo[c].val]
        /\ fifo' = [fifo EXCEPT ![c] = None] /\ d2' = d2 /\ mdat' = mdat
    BY <1>4 DEF Memory
  <2>4. fifo[c].addr \in Lines /\ mem \in [Lines -> Val]
    BY <1>0, <1>4 DEF DataType
  <2>5. fifo'[c] = None
    BY <1>0, <2>3 DEF DataType
  <2>6. /\ \A l \in Lines : mem'[l] = mem[l] \/ (l = fifo[c].addr /\ mem'[l] = fifo[c].val)
        /\ mem'[fifo[c].addr] = fifo[c].val
    BY <2>3, <2>4
  <2> QED BY <1>2, <1>4, <2>2, <2>3, <2>5, <2>6 DEF MemStep, InFifo
<1>5. CASE ~(fifo[c] # None /\ ~m_halt)
  <2>1. /\ Victim(c, moves) /\ mem' = mem
        /\ mdat' = [mdat EXCEPT ![c] =
                IF MemRead(c) /\ ~m_halt THEN mem[mshr[c].addr]
                ELSE IF Moving(c, moves) THEN None ELSE @]
    BY <1>5 DEF Memory
  <2>2. Moving(c, moves) /\ st[c] = "s_miss5" <=> Fills(c, moves)
    BY <1>0 DEF Moving, Fills
  <2>3. mdat'[c] = IF MemRead(c) /\ ~m_halt THEN mem[mshr[c].addr]
                   ELSE IF Moving(c, moves) THEN None ELSE mdat[c]
    BY <1>0, <2>1 DEF DataType
  <2>4. \A q \in L2Sets : d2'[c][q] =
          IF Fills(c, moves) /\ mshr[c].old # T_STATE_INVALID /\ q = L2Set[oldaddr[c]]
          THEN d1[c][mshr[c].way] ELSE d2[c][q]
    BY <1>0, <2>1, <2>2 DEF Victim, DataType
  <2>5. Flushes(c, moves) <=> /\ Moving(c, moves)
                              /\ \/ st[c] = "s_inv6"
                                 \/ st[c] = "s_miss5" /\ mshr[c].old = T_STATE_MODIFIED
    BY <1>0 DEF Flushes, Moving
  <2>6. CASE Flushes(c, moves)
    <3>1. PICK rec : rec = [addr |-> oldaddr[c], val |-> d1[c][MovedWay(c)]]
      OBVIOUS
    <3>2. fifo' = [fifo EXCEPT ![c] = rec]
      BY <2>1, <2>5, <2>6, <3>1 DEF Victim, MovedWay
    <3>3. fifo'[c] = rec /\ fifo[c] = None
      BY <1>0, <1>3, <2>6, <3>2 DEF DataType, Flushes
    <3> QED BY <1>1, <1>2, <2>1, <2>2, <2>3, <2>4, <2>6, <3>1, <3>3 DEF MemStep
  <2>7. CASE ~Flushes(c, moves)
    <3>1. fifo' = fifo
      BY <2>1, <2>5, <2>7 DEF Victim
    <3> QED BY <1>1, <1>2, <2>1, <2>2, <2>3, <2>4, <2>7, <3>1 DEF MemStep
  <2> QED BY <2>6, <2>7
<1> QED BY <1>4, <1>5

LEMMA AccessOpen ==
    ASSUME NEW e \in L1Entry, NEW l, NEW s \in {T_STATE_SHARED, T_STATE_MODIFIED}
    PROVE  Holds(e, l) /\ cache_state_test_access_ok(e.st, s) <=> Open(e, l, s)
<1>1. cache_state_unlock(s) = s /\ s \in {1, 3}
  BY StateFacts, StateNumbers
<1>2. cache_state_unlock(e.st) \in 0..3
  BY StateFacts DEF L1Entry, Entry, UnlockedStates
<1> QED BY <1>1, <1>2, StateNumbers
        DEF Open, Holds, Held, cache_state_test_access_ok, cache_state_test_at_least

LEMMA HitStores ==
    ASSUME NEW c, Regs(c), LocalInv(c), NEW w \in Ways, dreq[c] \in PortReq,
           MinState(dreq[c].op) = T_STATE_MODIFIED
    PROVE  w \in HitWays(c, DWays, dreq[c]) <=> StoreWay(c, w, dreq[c].addr)
<1>1. PICK l, x, m : l = dreq[c].addr /\ x = xtag[c].l1[w] /\ m = mshr[c]
  OBVIOUS
<1>2. l \in Lines /\ x \in L1Entry /\ m \in Mshr
  BY <1>1, PipeEntries DEF PortReq, Regs
<1>3. w \in TagWays(c, DWays, l) /\ cache_state_test_access_ok(x.st, T_STATE_MODIFIED)
        <=> w \in DWays /\ Open(x, l, T_STATE_MODIFIED)
  BY <1>1, <1>2, AccessOpen DEF TagWays
<1>4. bitmap[c] => m.valid /\ m.snooped
  BY <1>1 DEF LocalInv
<1>5. cache_state_test_access_ok(m.ins, T_STATE_MODIFIED) <=> m.ins >= T_STATE_MODIFIED
  <2>1. m.ins \in UnlockedStates /\ cache_state_unlock(m.ins) = m.ins
        /\ cache_state_unlock(T_STATE_MODIFIED) = T_STATE_MODIFIED
    BY <1>2, StateFacts DEF Mshr
  <2> QED BY <2>1, StateNumbers
          DEF cache_state_test_access_ok, cache_state_test_at_least, cache_state_test_locked,
              UnlockedStates
<1>6. RestartOK(c, DWays, dreq[c]) <=> bitmap[c] /\ Won(m, l, T_STATE_MODIFIED) /\ m.way \in DWays
  BY <1>1, <1>4, <1>5 DEF RestartOK, Won
<1>7. w \in HitWays(c, DWays, dreq[c]) <=>
        \/ w \in TagWays(c, DWays, l) /\ cache_state_test_access_ok(x.st, T_STATE_MODIFIED)
        \/ RestartOK(c, DWays, dreq[c]) /\ w = m.way
  BY <1>1 DEF HitWays
<1> QED BY <1>1, <1>3, <1>6, <1>7 DEF StoreWay

LEMMA FilledIs ==
    ASSUME NEW c, Regs(c), DataType, NEW moves, NEW w \in Ways
    PROVE  Filled(c, moves)[w] = FilledWay(c, moves, w)
<1>1. c \in CPUs /\ d1[c] \in [Ways -> Val]
  BY DEF Regs, DataType
<1>2. PICK f, v, k : f = d1[c] /\ v = FillVal(c) /\ k = mshr[c].way
  OBVIOUS
<1>3. Moving(c, moves) /\ st[c] = "s_miss5" <=> Fills(c, moves)
  BY DEF Moving, Fills
<1>4. CASE Fills(c, moves)
  <2>1. Filled(c, moves) = [f EXCEPT ![k] = v]
    BY <1>2, <1>3, <1>4 DEF Filled, FillVal
  <2>2. Filled(c, moves)[w] = IF w = k THEN v ELSE f[w]
    BY <1>1, <1>2, <2>1
  <2> QED BY <1>2, <1>4, <2>2 DEF FilledWay
<1>5. CASE ~Fills(c, moves)
  BY <1>3, <1>5 DEF Filled, FilledWay
<1> QED BY <1>4, <1>5

LEMMA StoreMoves ==
    ASSUME NEW c, Regs(c), DataType, LocalInv(c), NEW moves, NEW dkill, NEW v,
           Store(c, dkill, moves, v)
    PROVE  QuietStep(c, moves) \/ \E l : StoreStep(c, moves, l, v)
<1>0. c \in CPUs /\ d1 \in [CPUs -> [Ways -> Val]] /\ last \in [Lines -> Val]
  BY DEF Regs, DataType
<1>1. \A w \in Ways : Filled(c, moves)[w] = FilledWay(c, moves, w)
  BY FilledIs
<1>2. CASE Stores(c, dkill)
  <2>1. PICK l : l = dreq[c].addr
    OBVIOUS
  <2>2. /\ dreq[c] \in PortReq /\ MinState(dreq[c].op) = T_STATE_MODIFIED /\ DHit(c)
        /\ ~CacheOpPending(c)
    BY <1>2 DEF Stores, ScOK, Regs, PortType, MinState, CacheOpPending, CacheOps
  <2>3. l \in Lines
    BY <2>1, <2>2 DEF PortReq
  <2>4. \A w \in Ways : w \in HitWays(c, DWays, dreq[c]) <=> StoreWay(c, w, l)
    BY <2>1, <2>2, HitStores
  <2>5. \E w \in Ways : StoreWay(c, w, l)
    <3>1. HitWays(c, DWays, dreq[c]) \subseteq DWays
      BY DEF HitWays, TagWays, RestartOK
    <3> QED BY <2>2, <2>4, <3>1 DEF DHit, Ways
  <2>6. /\ d1' = [d1 EXCEPT ![c] = [w \in Ways |->
                     IF w \in HitWays(c, DWays, dreq[c]) THEN v ELSE Filled(c, moves)[w]]]
        /\ last' = [last EXCEPT ![l] = v]
    BY <1>2, <2>1 DEF Store
  <2>7. \A w \in Ways : d1'[c][w] =
            IF w \in HitWays(c, DWays, dreq[c]) THEN v ELSE Filled(c, moves)[w]
    BY <1>0, <2>6
  <2>8. \A k \in Lines : last'[k] = IF k = l THEN v ELSE last[k]
    BY <1>0, <2>3, <2>6
  <2>9. \A w \in Ways : d1'[c][w] = IF StoreWay(c, w, l) THEN v ELSE FilledWay(c, moves, w)
    BY <1>1, <2>4, <2>7
  <2> QED BY <2>2, <2>3, <2>5, <2>8, <2>9 DEF StoreStep
<1>3. CASE ~Stores(c, dkill)
  <2>1. /\ d1' = [d1 EXCEPT ![c] = Filled(c, moves)]
        /\ last' = IF Discards(c) THEN [last EXCEPT ![inv[c].addr] = mem[inv[c].addr]] ELSE last
    BY <1>3 DEF Store
  <2>2. \A w \in Ways : d1'[c][w] = FilledWay(c, moves, w)
    BY <1>0, <1>1, <2>1
  <2>3. \A k \in Lines : last'[k] = IF Discards(c) /\ k = inv[c].addr THEN mem[k] ELSE last[k]
    BY <1>0, <2>1
  <2> QED BY <2>2, <2>3 DEF QuietStep
<1> QED BY <1>2, <1>3

LEMMA PortsMove ==
    ASSUME NEW c, Regs(c), NEW dkill,
           \/ DIssue(c) \/ DAccess(c, dkill)
           \/ DCacheOp(c, st[c] = "s_return2" /\ inv[c].expl)
    PROVE  PortMoves(c)
<1>1. c \in CPUs /\ dreq \in [CPUs -> PortReq \union {None}]
  BY DEF Regs, PortType
<1>2. CASE DIssue(c)
  <2>1. ~CacheOpPending(c)
    BY <1>2 DEF DIssue, CacheOpPending
  <2>2. CASE dreq' = dreq
    BY <1>2, <2>1, <2>2 DEF PortMoves, DIssue
  <2>3. CASE \E op \in DOps, l \in Lines : dreq' = [dreq EXCEPT ![c] = Port(op, l)]
    <3>1. PICK op \in DOps, l \in Lines : dreq' = [dreq EXCEPT ![c] = Port(op, l)]
      BY <2>3
    <3>2. dreq'[c] = Port(op, l)
      BY <1>1, <3>1
    <3> QED BY <2>1, <3>2 DEF PortMoves, Port
  <2> QED BY <1>2, <2>2, <2>3 DEF DIssue
<1>3. CASE DAccess(c, dkill)
  <2>1. ~CacheOpPending(c)
    BY <1>3 DEF DAccess, CacheOpPending, CacheOps, ReadWriteOps
  <2>2. dreq'[c] = None \/ dreq'[c] = dreq[c]
    BY <1>1, <1>3 DEF DAccess
  <2> QED BY <2>1, <2>2 DEF PortMoves
<1>4. CASE DCacheOp(c, st[c] = "s_return2" /\ inv[c].expl)
  BY <1>1, <1>4 DEF DCacheOp, PortMoves
<1> QED BY <1>2, <1>3, <1>4

(* One clock of the data of processor c; the other processors' stay. *)
DataStep(c, moves) ==
    /\ MemStep(c, moves)
    /\ QuietStep(c, moves) \/ \E l, v : StoreStep(c, moves, l, v)

OthersKept(c) ==
    \A b \in CPUs : b # c =>
        /\ d1'[b] = d1[b] /\ d2'[b] = d2[b] /\ fifo'[b] = fifo[b] /\ mdat'[b] = mdat[b]
        /\ dreq'[b] = dreq[b] /\ ireq'[b] = ireq[b]

LEMMA TypedRegsNext ==
    ASSUME TypeInv', NEW c \in CPUs
    PROVE  Regs(c)'
BY L1Assumption DEF Regs, TypeInv, CtlType, TagType, BusTypeOK, ControllerInv

LEMMA EdgeData ==
    ASSUME CohInv, CohInv', NEW c \in CPUs, LinkInv(c), CtlInv(c), CPUClock(c)
    PROVE  \E moves : Clocked(c, moves) /\ DataStep(c, moves) /\ OthersKept(c)
<1>0. Regs(c) /\ Regs(c)' /\ LocalInv(c) /\ LocalInv(c)' /\ DataType /\ TypeInv
  BY TypedRegs, TypedRegsNext DEF CohInv, TypeInv
<1>1. PICK m_halt \in HaltChoices(c), moves \in MoveChoices(c) : CPUClockWith(c, m_halt, moves)
  BY DEF CPUClock
<1>2. PICK dkill, ik, v :
                      /\ StateMachine(c, dkill, ik, m_halt, moves)
                      /\ \/ DIssue(c)
                         \/ DAccess(c, dkill)
                         \/ DCacheOp(c, st[c] = "s_return2" /\ inv[c].expl)
                      /\ TagPipe(c)
                      /\ Memory(c, m_halt, moves)
                      /\ Store(c, dkill, moves, v)
  BY <1>1 DEF CPUClockWith, CPUEdge
<1>3. CtlStep(c, moves) /\ TagStep(c)
  BY <1>0, <1>2, MachineCtl, MachineTags
<1>4. PortMoves(c)
  BY <1>0, <1>2, PortsMove
<1>5. Piped(c)
  BY <1>0, <1>2 DEF TagPipe, Piped, Regs, TagType
<1>6. MemStep(c, moves)
  BY <1>0, <1>2, MemoryStep
<1>7. Clocked(c, moves)
  BY <1>0, <1>3, <1>4, <1>5, <1>6 DEF Clocked, MemStep
<1>8. QuietStep(c, moves) \/ \E l : StoreStep(c, moves, l, v)
  BY <1>0, <1>2, StoreMoves
<1>9. \A b \in CPUs : b # c => dreq'[b] = dreq[b] /\ ireq'[b] = ireq[b]
  BY <1>0, EdgePorts DEF PortStep
<1>10. \A b \in CPUs : b # c => d1'[b] = d1[b]
  <2>1. CASE Stores(c, dkill)
    BY <1>0, <1>2, <2>1 DEF Store, DataType
  <2>2. CASE ~Stores(c, dkill)
    BY <1>0, <1>2, <2>2 DEF Store, DataType
  <2> QED BY <2>1, <2>2
<1>11. \A b \in CPUs : b # c => d2'[b] = d2[b] /\ fifo'[b] = fifo[b] /\ mdat'[b] = mdat[b]
  <2>1. \A b \in CPUs : b # c => fifo'[b] = fifo[b]
    BY <1>0, <1>2 DEF Memory, Victim, DataType
  <2>2. \A b \in CPUs : b # c => d2'[b] = d2[b] /\ mdat'[b] = mdat[b]
    BY <1>0, <1>2 DEF Memory, Victim, DataType
  <2> QED BY <2>1, <2>2
<1> QED BY <1>6, <1>7, <1>8, <1>9, <1>10, <1>11 DEF DataStep, OthersKept

(* The clock at which a block moves. *)
LEMMA MovingKeeps ==
    ASSUME NEW c, NEW moves, Clocked(c, moves), CtlInv(c), moves, run[c] = "on"
    PROVE  /\ st'[c] = st[c] /\ st[c] \in {"s_miss5", "s_inv6"}
           /\ tag'[c] = tag[c] /\ rtag'[c] = tag[c] /\ xtag'[c] = rtag[c]
           /\ inv'[c] = inv[c] /\ mshr'[c] = mshr[c] /\ oldaddr'[c] = oldaddr[c]
           /\ run'[c] = "moved" /\ ~bitmap[c]
           /\ bitmap'[c] <=> st[c] = "s_miss5"
<1>0. LocalInv(c) /\ CtlStep(c, moves) /\ Piped(c)
  BY DEF Clocked
<1>1. st[c] \in {"s_miss5", "s_inv6"} /\ ~bitmap[c]
  BY <1>0, MovingFree
<1>2. st'[c] = st[c] /\ run'[c] = "moved" /\ (bitmap'[c] <=> st[c] = "s_miss5")
  BY <1>0, <1>1 DEF CtlStep, RunMoves
<1>3. tag'[c] = tag[c]
  BY <1>0, <1>2 DEF CtlStep, TagsKept
<1>4. mshr'[c] = mshr[c]
  BY <1>0, <1>1 DEF CtlStep, MissMoves, FillStates, InvStates, CopyStates
<1>5. inv'[c] = inv[c]
  BY <1>0, <1>1, <1>2 DEF CtlStep, InvMoves
<1>6. oldaddr'[c] = oldaddr[c]
  BY <1>0, <1>1 DEF CtlStep, OldMoves
<1> QED BY <1>0, <1>1, <1>2, <1>3, <1>4, <1>5, <1>6 DEF Piped

(* The block in the FIFO is not written while it is there. *)
FifoClean(c) ==
    fifo[c] # None =>
      /\ \A w \in Ways : /\ ~Open(tag[c].l1[w], fifo[c].addr, T_STATE_MODIFIED)
                         /\ ~Open(rtag[c].l1[w], fifo[c].addr, T_STATE_MODIFIED)
                         /\ ~Open(xtag[c].l1[w], fifo[c].addr, T_STATE_MODIFIED)
      /\ bitmap[c] => mshr[c].addr # fifo[c].addr

(* The line that is copied, in the tags. *)
LEMMA CopiedLine ==
    ASSUME NEW c, Regs(c), LocalInv(c), CtlInv(c), NEW l \in Lines, l = oldaddr[c],
           \/ st[c] \in CopyStates
           \/ st[c] \in RefillStates /\ mshr[c].old = T_STATE_MODIFIED
    PROVE  /\ \A w \in Ways : ~Open(tag[c].l1[w], l, T_STATE_MODIFIED)
           /\ Has(tag[c], l, T_STATE_EXCLUSIVE)
           /\ st[c] \in CopyStates =>
                inv[c].way \in Ways /\ Held(tag[c].l1[inv[c].way], l, T_STATE_EXCLUSIVE)
           /\ st[c] \in RefillStates =>
                /\ mshr[c].way \in Ways /\ l # mshr[c].addr
                /\ Held(tag[c].l1[mshr[c].way], l, T_STATE_MODIFIED)
<1> USE StateNumbers
<1>1. PICK t : t = tag[c] /\ OneCopy(t) /\ \A w \in Ways : t.l1[w] \in L1Entry
  BY PipeEntries DEF LocalInv
<1>2. CASE st[c] \in CopyStates
  <2>1. PICK y : y = inv[c].way /\ y \in Ways
    BY <1>2 DEF Regs, Fits, CopyStates
  <2>2. t.l1[y].addr = l /\ cache_state_unlock(t.l1[y].st) = 2
    BY <1>1, <1>2, <2>1 DEF CtlInv, LocalInv, CopyWay
  <2>3. Held(t.l1[y], l, 2) /\ ~Held(t.l1[y], l, 3) /\ Held(t.l1[y], l, 1)
    BY <2>2 DEF Held
  <2>4. \A w \in Ways : ~Open(t.l1[w], l, 3)
    <3>1. SUFFICES ASSUME NEW w \in Ways, Open(t.l1[w], l, 3) PROVE FALSE
      OBVIOUS
    <3>2. Held(t.l1[w], l, 3) /\ Held(t.l1[w], l, 1)
      BY <1>1, <3>1, HeldChain
    <3>3. w = y
      BY <1>1, <2>1, <2>3, <3>2 DEF OneCopy
    <3> QED BY <2>3, <3>2, <3>3
  <2>5. st[c] \notin RefillStates
    BY <1>2 DEF CopyStates, RefillStates
  <2> QED BY <1>1, <2>1, <2>3, <2>4, <2>5 DEF Has
<1>3. CASE st[c] \in RefillStates /\ mshr[c].old = T_STATE_MODIFIED
  <2>1. PICK y, k : y = mshr[c].way /\ k = mshr[c].addr /\ y \in Ways /\ k \in Lines
    BY <1>3 DEF Regs, Fits
  <2>2. t.l1[y].addr = l /\ cache_state_unlock(t.l1[y].st) = 3 /\ ~Has(t, k, 1) /\ Shut(t.l1[y])
    BY <1>1, <1>3, <2>1 DEF CtlInv, LocalInv, MissWay, Filling
  <2>3. Held(t.l1[y], l, 2) /\ Held(t.l1[y], l, 3) /\ Held(t.l1[y], l, 1)
    BY <2>2 DEF Held
  <2>4. \A w \in Ways : ~Open(t.l1[w], l, 3)
    <3>1. SUFFICES ASSUME NEW w \in Ways, Open(t.l1[w], l, 3) PROVE FALSE
      OBVIOUS
    <3>2. Open(t.l1[w], l, 1) /\ Held(t.l1[w], l, 1)
      BY <1>1, <3>1, HeldChain
    <3>3. w = y
      BY <1>1, <2>1, <2>3, <3>2 DEF OneCopy
    <3> QED BY <2>2, <3>2, <3>3 DEF Shut
  <2>5. l # k
    BY <2>1, <2>2, <2>3 DEF Has
  <2>6. st[c] \notin CopyStates
    BY <1>3 DEF CopyStates, RefillStates
  <2> QED BY <1>1, <2>1, <2>3, <2>4, <2>5, <2>6 DEF Has
<1> QED BY <1>2, <1>3

LEMMA CleanKept ==
    ASSUME NEW c, NEW moves, Clocked(c, moves), CtlInv(c), MemStep(c, moves),
           DataType, DataType', FifoClean(c)
    PROVE  FifoClean(c)'
<1> USE StateNumbers
<1>0. /\ Regs(c) /\ LocalInv(c) /\ LocalInv(c)' /\ CtlStep(c, moves) /\ Piped(c) /\ L1Step(c)
      /\ c \in CPUs
  BY DEF Clocked, TagStep, Regs
<1>1. SUFFICES ASSUME fifo'[c] # None, NEW a, a = fifo'[c].addr
      PROVE  /\ \A w \in Ways : /\ ~Open(tag'[c].l1[w], a, 3)
                                /\ ~Open(rtag'[c].l1[w], a, 3)
                                /\ ~Open(xtag'[c].l1[w], a, 3)
             /\ bitmap'[c] => mshr'[c].addr # a
  BY DEF FifoClean
<1>2. a \in Lines
  BY <1>0, <1>1 DEF DataType
<1>3. CASE Flushes(c, moves)
  <2>1. /\ st'[c] = st[c] /\ tag'[c] = tag[c] /\ rtag'[c] = tag[c] /\ xtag'[c] = rtag[c]
        /\ mshr'[c] = mshr[c] /\ (bitmap'[c] <=> st[c] = "s_miss5")
    BY <1>3, MovingKeeps DEF Flushes
  <2>2. a = oldaddr[c]
    BY <1>1, <1>3 DEF MemStep
  <2>3. CASE st[c] = "s_inv6"
    <3>1. \A w \in Ways : ~Open(tag[c].l1[w], a, 3)
      BY <1>0, <1>2, <2>2, <2>3, CopiedLine DEF CopyStates
    <3>2. \A w \in Ways : ~Held(tag[c].l1[w], a, 3)
      <4>1. PICK t, y : t = tag[c] /\ y = inv[c].way
        OBVIOUS
      <4>2. y \in Ways /\ Held(t.l1[y], a, 2) /\ cache_state_unlock(t.l1[y].st) = 2 /\ OneCopy(t)
        BY <1>0, <1>2, <2>2, <2>3, <4>1, CopiedLine DEF CopyStates, LocalInv, CopyWay
      <4>3. \A w \in Ways : t.l1[w] \in L1Entry
        BY <1>0, <4>1, PipeEntries
      <4>4. SUFFICES ASSUME NEW w \in Ways, Held(t.l1[w], a, 3) PROVE FALSE
        BY <4>1
      <4>5. Held(t.l1[w], a, 1) /\ Held(t.l1[y], a, 1)
        BY <4>2, <4>3, <4>4, HeldChain
      <4>6. w = y
        BY <1>2, <4>2, <4>5 DEF OneCopy
      <4> QED BY <4>2, <4>4, <4>6 DEF Held
    <3>3. \A w \in Ways : ~Open(rtag[c].l1[w], a, 3)
      BY <1>2, <2>3, <3>2 DEF CtlInv, PipeDirty, Dropping, ReturnStates
    <3> QED BY <2>1, <2>3, <3>1, <3>3
  <2>4. CASE st[c] = "s_miss5" /\ mshr[c].old = T_STATE_MODIFIED
    <3>1. (\A w \in Ways : ~Open(tag[c].l1[w], a, 3)) /\ a # mshr[c].addr
      BY <1>0, <1>2, <2>2, <2>4, CopiedLine DEF RefillStates
    <3>2. rtag[c] = tag[c]
      BY <2>4 DEF CtlInv, TagsSettle
    <3> QED BY <2>1, <3>1, <3>2
  <2> QED BY <1>3, <2>3, <2>4 DEF Flushes
<1>4. CASE ~Flushes(c, moves)
  <2>1. fifo[c] # None /\ a = fifo[c].addr
    BY <1>1, <1>4 DEF MemStep
  <2>2. /\ \A w \in Ways : /\ ~Open(tag[c].l1[w], a, 3)
                           /\ ~Open(rtag[c].l1[w], a, 3)
        /\ bitmap[c] => mshr[c].addr # a
    BY <2>1 DEF FifoClean
  <2>3. ~FifoFree(c)
    BY <2>1 DEF CtlInv
  <2>4. FillEnds(c) => bitmap[c]
    BY <1>0 DEF FillEnds, CtlInv, Filling, CtlStep, RunMoves
  <2>5. \A w \in Ways : ~Open(tag'[c].l1[w], a, 3)
    BY <1>0, <1>2, <2>2, <2>3, <2>4 DEF L1Step, OpenFrom, FifoFree, MissStates
  <2>6. bitmap'[c] => mshr'[c].addr # a
    <3>1. SUFFICES ASSUME bitmap'[c] PROVE mshr'[c].addr = mshr[c].addr /\ bitmap[c]
      BY <2>2
    <3>2. bitmap[c]
      BY <1>0, <2>3, <3>1 DEF CtlStep, RunMoves, FifoFree
    <3>3. mshr'[c].valid /\ st[c] # "s_idle"
      BY <1>0, <3>1, <3>2 DEF LocalInv, CtlInv, Filling, ReturnStates
    <3> QED BY <1>0, <3>2, <3>3 DEF CtlStep, MissMoves
  <2> QED BY <1>0, <2>2, <2>5, <2>6 DEF Piped
<1> QED BY <1>3, <1>4

-----------------------------------------------------------------------------
(* Where the data of a line is.  The refill of a way has begun to overwrite *)
(* it; the victim is already in L2. *)
Gone(c, w) == st[c] = "s_miss5" /\ bitmap[c] /\ w = mshr[c].way

Evicted(c, q) ==
    /\ st[c] = "s_miss5" /\ bitmap[c] /\ mshr[c].old # T_STATE_INVALID
    /\ q = L2Set[oldaddr[c]]

Evicts(c, moves, q) ==
    Fills(c, moves) /\ mshr[c].old # T_STATE_INVALID /\ q = L2Set[oldaddr[c]]

(* Way w must hold the last store to line l. *)
Claims(c, w, l) ==
    \/ Held(tag[c].l1[w], l, T_STATE_SHARED) /\ ~Gone(c, w)
    \/ /\ Open(rtag[c].l1[w], l, T_STATE_SHARED) \/ Open(xtag[c].l1[w], l, T_STATE_SHARED)
       /\ ~(Dropping(c) /\ w \in DWays)
    \/ bitmap[c] /\ w = mshr[c].way /\ l = mshr[c].addr

(* The same of set q of L2. *)
L2Claims(c, q, l) ==
    \/ Held(tag[c].l2[q], l, T_STATE_SHARED) /\ ~Evicted(c, q)
    \/ Evicted(c, q) /\ l = oldaddr[c]
    \/ /\ st[c] \in FillStates /\ mshr[c].l2hit /\ ~bitmap[c]
       /\ q = L2Set[mshr[c].addr] /\ l = mshr[c].addr

(* Where a claim comes from: it was there, or the refill makes it true. *)
LEMMA ClaimFrom ==
    ASSUME NEW c, NEW moves, Clocked(c, moves), CtlInv(c), NEW w \in Ways, NEW l \in Lines,
           Claims(c, w, l)'
    PROVE  \/ Claims(c, w, l) /\ ~(Fills(c, moves) /\ w = mshr[c].way)
           \/ Fills(c, moves) /\ w = mshr[c].way /\ l = mshr[c].addr
<1> USE StateNumbers
<1>0. /\ Filling(c) /\ LocalInv(c) /\ LocalInv(c)' /\ Regs(c)
      /\ TagsSettle(st[c], inv[c].act, tag[c], rtag[c], xtag[c])
      /\ InPipe(st[c], tag[c], rtag[c], xtag[c])
  BY DEF CtlInv, Clocked, LocalInv
<1>1. /\ NextState(st[c], st'[c]) /\ InvMoves(c) /\ MissMoves(c) /\ RunMoves(c, moves) /\ Leaves(c)
      /\ LineFrom(c, w, l) /\ Piped(c)
  BY DEF Clocked, CtlStep, TagStep, L1Step
<1>2. PICK e, r : e = tag[c].l1[w] /\ r = rtag[c].l1[w] /\ e \in L1Entry /\ r \in L1Entry
  BY <1>0, PipeEntries
<1>3. rtag'[c].l1[w] = e /\ xtag'[c].l1[w] = r
  BY <1>1, <1>2 DEF Piped
<1>4. Fills(c, moves) => /\ st'[c] = "s_miss5" /\ bitmap'[c] /\ ~bitmap[c] /\ mshr'[c] = mshr[c]
                         /\ st[c] = "s_miss5"
  BY MovingKeeps DEF Fills
<1>5. st[c] = "s_miss5" /\ w = mshr[c].way => ~Open(e, l, 1) /\ ~Open(r, l, 1)
  <2>1. SUFFICES ASSUME st[c] = "s_miss5", w = mshr[c].way PROVE ~Open(e, l, 1) /\ ~Open(r, l, 1)
    OBVIOUS
  <2>2. Shut(e) /\ r = e
    BY <1>0, <1>2, <2>1 DEF Filling, RefillStates, TagsSettle
  <2> QED BY <2>2 DEF Shut
<1>6. CASE Held(tag'[c].l1[w], l, 1) /\ ~Gone(c, w)'
  <2>1. ~(Fills(c, moves) /\ w = mshr[c].way)
    BY <1>4, <1>6 DEF Gone
  <2>2. CASE FillEnds(c) /\ w = mshr[c].way
    <3>1. bitmap[c]
      BY <1>0, <1>1, <2>2 DEF FillEnds, Filling, RunMoves
    <3>2. l = mshr[c].addr
      <4>1. tag'[c].l1[w] = MkEntry(mshr[c].addr, mshr[c].ins) /\ mshr[c].ins \in UnlockedStates
        BY <1>0, <1>1, <2>2 DEF Leaves, Regs, Mshr
      <4>2. 1 \in 1..3
        OBVIOUS
      <4> QED BY <1>6, <4>1, <4>2, MadeHeld
    <3> QED BY <2>1, <2>2, <3>1, <3>2 DEF Claims
  <2>3. CASE ~(FillEnds(c) /\ w = mshr[c].way)
    <3>1. Held(e, l, 1)
      BY <1>1, <1>2, <1>6, <2>3 DEF LineFrom
    <3>2. ~Gone(c, w)
      <4>1. SUFFICES ASSUME Gone(c, w) PROVE FALSE
        OBVIOUS
      <4>2. st'[c] = "s_miss5" /\ mshr'[c] = mshr[c] /\ bitmap'[c]
        BY <1>1, <2>3, <4>1 DEF Gone, FillEnds, NextState, PromoteStates, AskStates, MissMoves,
                                FillStates, RunMoves
      <4> QED BY <1>6, <4>1, <4>2 DEF Gone
    <3> QED BY <1>2, <2>1, <3>1, <3>2 DEF Claims
  <2> QED BY <2>2, <2>3
<1>7. CASE Open(e, l, 1)
  <2>1. Held(e, l, 1) /\ ~Gone(c, w) /\ ~(Fills(c, moves) /\ w = mshr[c].way)
    BY <1>2, <1>4, <1>5, <1>7, HeldChain DEF Gone
  <2> QED BY <1>2, <2>1 DEF Claims
<1>8. CASE Open(r, l, 1) /\ ~(Dropping(c)' /\ w \in DWays)
  <2>1. ~(Fills(c, moves) /\ w = mshr[c].way)
    BY <1>4, <1>5, <1>8
  <2>2. CASE Dropping(c) /\ w \in DWays
    <3>1. st[c] # "s_return1"
      <4>1. SUFFICES ASSUME st[c] = "s_return1" PROVE FALSE
        OBVIOUS
      <4>2. st'[c] = "s_return2"
        BY <1>1, <4>1 DEF NextState, PromoteStates, AskStates
      <4>3. inv'[c] = inv[c]
        BY <1>1, <4>1, <4>2 DEF InvMoves
      <4> QED BY <1>8, <2>2, <4>2, <4>3 DEF Dropping, ReturnStates
    <3>2. st[c] = "s_return2"
      BY <2>2, <3>1 DEF Dropping, ReturnStates
    <3>3. Held(e, l, 1)
      BY <1>0, <1>2, <1>8, <3>2, HeldChain DEF InPipe
    <3> QED BY <1>2, <2>1, <3>2, <3>3 DEF Claims, Gone
  <2>3. CASE ~(Dropping(c) /\ w \in DWays)
    BY <1>2, <1>8, <2>1, <2>3 DEF Claims
  <2> QED BY <2>2, <2>3
<1>9. CASE bitmap'[c] /\ w = mshr'[c].way /\ l = mshr'[c].addr
  <2>1. CASE bitmap[c]
    <3>1. mshr'[c].valid /\ st[c] # "s_idle"
      BY <1>0, <1>9, <2>1 DEF LocalInv, Filling, ReturnStates
    <3>2. w = mshr[c].way /\ l = mshr[c].addr
      BY <1>1, <1>9, <3>1 DEF MissMoves
    <3> QED BY <1>4, <2>1, <3>2 DEF Claims
  <2>2. CASE ~bitmap[c]
    <3>1. moves /\ st[c] = "s_miss5" /\ run[c] = "on"
      BY <1>0, <1>1, <1>9, <2>2 DEF RunMoves, Filling
    <3> QED BY <1>4, <1>9, <3>1 DEF Fills
  <2> QED BY <2>1, <2>2
<1> QED BY <1>3, <1>6, <1>7, <1>8, <1>9 DEF Claims

LEMMA L2ClaimFrom ==
    ASSUME NEW c, NEW moves, Clocked(c, moves), CtlInv(c), NEW q \in L2Sets, NEW l \in Lines,
           L2Claims(c, q, l)'
    PROVE  \/ L2Claims(c, q, l) /\ ~Evicts(c, moves, q)
           \/ Evicts(c, moves, q) /\ l = oldaddr[c]
<1> USE StateNumbers
<1>0. Filling(c) /\ LocalInv(c) /\ LocalInv(c)' /\ Regs(c)
  BY DEF CtlInv, Clocked
<1>1. /\ NextState(st[c], st'[c]) /\ MissMoves(c) /\ RunMoves(c, moves) /\ OldMoves(c)
      /\ L2Step(c)
  BY DEF Clocked, CtlStep, TagStep
<1>2. Fills(c, moves) => /\ st'[c] = "s_miss5" /\ bitmap'[c] /\ ~bitmap[c] /\ mshr'[c] = mshr[c]
                         /\ st[c] = "s_miss5" /\ oldaddr'[c] = oldaddr[c] /\ run[c] = "on"
  BY MovingKeeps DEF Fills
<1>3. st[c] = "s_miss5" => mshr'[c] = mshr[c] /\ oldaddr'[c] = oldaddr[c]
                           /\ st'[c] \in {"s_miss5", "s_return1"}
  BY <1>1 DEF MissMoves, FillStates, OldMoves, NextState, PromoteStates, AskStates
<1>4. CASE Held(tag'[c].l2[q], l, 1) /\ ~Evicted(c, q)'
  <2>1. ~Evicts(c, moves, q)
    BY <1>2, <1>4 DEF Evicts, Evicted
  <2>2. CASE FillEnds(c) /\ mshr[c].old # T_STATE_INVALID /\ q = L2Set[oldaddr[c]] /\ l = oldaddr[c]
    <3>1. bitmap[c]
      BY <1>0, <1>1, <2>2 DEF FillEnds, Filling, RunMoves
    <3> QED BY <2>1, <2>2, <3>1 DEF L2Claims, Evicted, FillEnds
  <2>3. CASE /\ Held(tag[c].l2[q], l, 1)
             /\ ~(FillEnds(c) /\ mshr[c].old # T_STATE_INVALID /\ q = L2Set[oldaddr[c]])
    <3>1. ~Evicted(c, q)
      BY <1>1, <1>3, <1>4, <2>3 DEF Evicted, FillEnds, RunMoves
    <3> QED BY <2>1, <2>3, <3>1 DEF L2Claims
  <2> QED BY <1>1, <1>4, <2>2, <2>3 DEF L2Step
<1>5. CASE Evicted(c, q)' /\ l = oldaddr'[c]
  <2>1. st[c] = "s_miss5"
    BY <1>0, <1>1, <1>5 DEF Evicted, NextState, PromoteStates, AskStates, RunMoves, Filling, ReturnStates
  <2>2. CASE bitmap[c]
    BY <1>2, <1>3, <1>5, <2>1, <2>2 DEF Evicted, Evicts, L2Claims
  <2>3. CASE ~bitmap[c]
    <3>1. Fills(c, moves)
      BY <1>0, <1>1, <1>5, <2>1, <2>3 DEF Evicted, RunMoves, Filling, Fills
    <3> QED BY <1>3, <1>5, <2>1, <3>1 DEF Evicted, Evicts
  <2> QED BY <2>2, <2>3
<1>6. CASE /\ st'[c] \in FillStates /\ mshr'[c].l2hit /\ ~bitmap'[c]
           /\ q = L2Set[mshr'[c].addr] /\ l = mshr'[c].addr
  <2>1. ~Evicts(c, moves, q)
    BY <1>2, <1>6 DEF Evicts
  <2>2. st[c] \in {"s_miss1", "s_lsnoop_miss3"} \union FillStates
    BY <1>1, <1>6 DEF NextState, PromoteStates, AskStates, FillStates
  <2>3. mshr'[c].valid
    BY <1>0, <1>6 DEF LocalInv, MissReg
  <2>4. CASE st[c] \in {"s_miss1", "s_lsnoop_miss3"}
    <3>1. ~mshr[c].l2hit
      BY <2>4 DEF CtlInv, MissStates, AskStates
    <3>2. /\ Held(tag[c].l2[L2Set[mshr[c].addr]], mshr[c].addr, 1)
          /\ mshr'[c].addr = mshr[c].addr
      BY <1>1, <1>6, <2>3, <2>4, <3>1 DEF MissMoves
    <3> QED BY <1>6, <2>1, <2>4, <3>2 DEF L2Claims, Evicted
  <2>5. CASE st[c] \in FillStates
    <3>1. mshr'[c] = mshr[c] /\ ~bitmap[c]
      BY <1>1, <1>6, <2>5 DEF MissMoves, RunMoves, FillStates
    <3> QED BY <1>6, <2>1, <2>5, <3>1 DEF L2Claims
  <2> QED BY <2>2, <2>4, <2>5
<1> QED BY <1>4, <1>5, <1>6 DEF L2Claims

(* What the ports see of a way whose refill has data. *)
LEMMA FillSeen ==
    ASSUME NEW c, Regs(c), LocalInv(c), CtlInv(c), bitmap[c]
    PROVE  /\ Unseen(xtag[c], mshr[c])
           /\ Unseen(rtag[c], mshr[c]) \/ rtag[c] = tag[c]
           /\ \/ st[c] = "s_miss5" /\ Unseen(tag[c], mshr[c])
              \/ /\ st[c] # "s_miss5"
                 /\ tag[c].l1[mshr[c].way] = MkEntry(mshr[c].addr, mshr[c].ins)
           /\ mshr[c].addr \in Lines /\ mshr[c].way \in Ways
<1>0. /\ Filling(c) /\ TagsSettle(st[c], inv[c].act, tag[c], rtag[c], xtag[c])
      /\ InPipe(st[c], tag[c], rtag[c], xtag[c])
  BY DEF CtlInv, LocalInv
<1>1. CASE st[c] = "s_miss5"
  <2>1. mshr[c].addr \in Lines /\ mshr[c].way \in Ways
    BY <1>1 DEF Regs, Fits, RefillStates
  <2>2. Unseen(tag[c], mshr[c])
    <3>1. ~Has(tag[c], mshr[c].addr, T_STATE_SHARED)
      BY <1>1 DEF LocalInv, MissWay, RefillStates
    <3>2. Shut(tag[c].l1[mshr[c].way])
      BY <1>0, <1>1 DEF Filling, RefillStates
    <3> QED BY <3>1, <3>2 DEF Unseen, Has
  <2>3. rtag[c] = tag[c] /\ xtag[c] = tag[c]
    BY <1>0, <1>1 DEF TagsSettle
  <2> QED BY <1>1, <2>1, <2>2, <2>3
<1>2. CASE st[c] \in ReturnStates
  BY <1>0, <1>2 DEF Filling, InPipe, ReturnStates
<1> QED BY <1>0, <1>1, <1>2 DEF Filling

(* A way a store hits shows the line in all tags. *)
LEMMA StoreSeen ==
    ASSUME NEW c, Regs(c), CtlInv(c), ~CacheOpPending(c), NEW w \in Ways, NEW l \in Lines,
           Open(xtag[c].l1[w], l, T_STATE_MODIFIED)
    PROVE  /\ Held(tag[c].l1[w], l, T_STATE_SHARED)
           /\ Held(rtag[c].l1[w], l, T_STATE_SHARED)
           /\ Held(xtag[c].l1[w], l, T_STATE_SHARED)
           /\ Open(xtag[c].l1[w], l, T_STATE_SHARED)
           /\ ~Dropping(c)
<1> USE StateNumbers
<1>1. PICK e, r, x : /\ e = tag[c].l1[w] /\ r = rtag[c].l1[w] /\ x = xtag[c].l1[w]
                     /\ e \in L1Entry /\ r \in L1Entry /\ x \in L1Entry
  BY PipeEntries
<1>2. ~Dropping(c)
  BY DEF CtlInv, Dropping
<1>3. Held(e, l, 2) \/ Held(e, l, 3)
  BY <1>1, <1>2 DEF CtlInv, PipeDirty
<1>4. Held(r, l, 2)
  BY <1>1, <1>2 DEF CtlInv, PipeDirty
<1> QED BY <1>1, <1>2, <1>3, <1>4, HeldChain

LEMMA SameLine ==
    ASSUME NEW e, NEW l, NEW k, NEW n, NEW j, Held(e, l, n), Held(e, k, j)
    PROVE  l = k
BY DEF Held

LEMMA SameWay ==
    ASSUME NEW t, OneCopy(t), NEW w \in Ways, NEW y \in Ways, NEW l \in Lines,
           Held(t.l1[w], l, T_STATE_SHARED), Held(t.l1[y], l, T_STATE_SHARED)
    PROVE  w = y
BY DEF OneCopy

(* A store to line k hits the way that must hold line l iff l = k. *)
LEMMA StoreClaim ==
    ASSUME NEW c, Regs(c), LocalInv(c), CtlInv(c), ~CacheOpPending(c),
           NEW w \in Ways, NEW y \in Ways, NEW k \in Lines, NEW l \in Lines,
           StoreWay(c, w, k), Claims(c, y, l)
    PROVE  w = y <=> l = k
<1> USE StateNumbers
<1>1. PICK t, r, x, m : t = tag[c] /\ r = rtag[c] /\ x = xtag[c] /\ m = mshr[c]
  OBVIOUS
<1>2. /\ OneCopy(t) /\ OneCopy(r) /\ OneCopy(x) /\ m \in Mshr
      /\ \A z \in Ways : t.l1[z] \in L1Entry /\ r.l1[z] \in L1Entry /\ x.l1[z] \in L1Entry
  BY <1>1, PipeEntries DEF LocalInv, CtlInv, Regs
<1>3. bitmap[c] => /\ Unseen(x, m) /\ (Unseen(r, m) \/ r = t)
                   /\ \/ st[c] = "s_miss5" /\ Unseen(t, m)
                      \/ st[c] # "s_miss5" /\ t.l1[m.way] = MkEntry(m.addr, m.ins)
                   /\ m.addr \in Lines /\ m.way \in Ways
  BY <1>1, FillSeen
<1>4. \/ Held(t.l1[y], l, 1) /\ ~Gone(c, y)
      \/ Open(r.l1[y], l, 1)
      \/ Open(x.l1[y], l, 1)
      \/ bitmap[c] /\ y = m.way /\ l = m.addr
  BY <1>1 DEF Claims
<1>5. CASE Open(x.l1[w], k, 3)
  <2>1. Held(t.l1[w], k, 1) /\ Held(r.l1[w], k, 1) /\ Held(x.l1[w], k, 1) /\ Open(x.l1[w], k, 1)
    BY <1>1, <1>5, StoreSeen
  <2>2. CASE Held(t.l1[y], l, 1)
    BY <1>2, <2>1, <2>2, SameLine, SameWay
  <2>3. CASE Open(r.l1[y], l, 1)
    <3>1. Held(r.l1[y], l, 1)
      BY <2>3 DEF Open
    <3> QED BY <1>2, <2>1, <3>1, SameLine, SameWay
  <2>4. CASE Open(x.l1[y], l, 1)
    <3>1. Held(x.l1[y], l, 1)
      BY <2>4 DEF Open
    <3> QED BY <1>2, <2>1, <3>1, SameLine, SameWay
  <2>5. CASE bitmap[c] /\ y = m.way /\ l = m.addr
    BY <1>3, <2>1, <2>5 DEF Unseen, Shut
  <2> QED BY <1>4, <2>2, <2>3, <2>4, <2>5
<1>6. CASE bitmap[c] /\ w = m.way /\ Won(m, k, 3)
  <2>1. k = m.addr /\ m.ins \in UnlockedStates /\ m.ins >= 1
    BY <1>2, <1>6 DEF Won, Mshr, UnlockedStates
  <2>2. st[c] # "s_miss5" => Held(t.l1[w], k, 1)
    <3>1. 1 \in 1..3
      OBVIOUS
    <3>2. Held(MkEntry(k, m.ins), k, 1)
      BY <2>1, <3>1, MadeHeld
    <3> QED BY <1>3, <1>6, <2>1, <3>2
  <2>3. ASSUME Held(t.l1[y], l, 1), st[c] = "s_miss5" => y # w PROVE w = y <=> l = k
    <3>1. CASE st[c] = "s_miss5"
      BY <1>3, <1>6, <2>1, <2>3, <3>1 DEF Unseen
    <3>2. CASE st[c] # "s_miss5"
      BY <1>2, <2>2, <2>3, <3>2, SameLine, SameWay
    <3> QED BY <3>1, <3>2
  <2>4. CASE Held(t.l1[y], l, 1) /\ ~Gone(c, y)
    BY <1>1, <1>6, <2>3, <2>4 DEF Gone
  <2>5. ASSUME NEW u, u.l1[y] \in L1Entry, Unseen(u, m), Open(u.l1[y], l, 1) PROVE w = y <=> l = k
    <3>1. Held(u.l1[y], l, 1)
      BY <2>5 DEF Open
    <3> QED BY <1>6, <2>1, <2>5, <3>1 DEF Unseen, Shut
  <2>6. CASE Open(x.l1[y], l, 1)
    BY <1>2, <1>3, <1>6, <2>5, <2>6
  <2>7. CASE Open(r.l1[y], l, 1)
    <3>1. CASE Unseen(r, m)
      BY <1>2, <2>5, <2>7, <3>1
    <3>2. CASE r = t /\ st[c] # "s_miss5"
      <4>1. Held(t.l1[y], l, 1)
        BY <2>7, <3>2 DEF Open
      <4> QED BY <2>3, <3>2, <4>1
    <3>3. CASE r = t /\ Unseen(t, m)
      BY <1>2, <2>5, <2>7, <3>3
    <3> QED BY <1>3, <1>6, <3>1, <3>2, <3>3
  <2>8. CASE bitmap[c] /\ y = m.way /\ l = m.addr
    BY <1>6, <2>1, <2>8
  <2> QED BY <1>4, <2>4, <2>6, <2>7, <2>8
<1> QED BY <1>1, <1>5, <1>6 DEF StoreWay

(* It is to no line that L2 or the memory port must hold, nor to a victim. *)
LEMMA StoreNotL2 ==
    ASSUME NEW c, Regs(c), LocalInv(c), CtlInv(c), ~CacheOpPending(c),
           NEW w \in Ways, NEW k \in Lines, StoreWay(c, w, k)
    PROVE  /\ \A q \in L2Sets : ~L2Claims(c, q, k)
           /\ st[c] \in FillStates /\ ~bitmap[c] => k # mshr[c].addr
           /\ st[c] = "s_miss5" /\ ~bitmap[c] =>
                /\ w # mshr[c].way
                /\ mshr[c].old # T_STATE_INVALID => k # oldaddr[c]
<1> USE StateNumbers
<1>1. PICK t, x, m : t = tag[c] /\ x = xtag[c] /\ m = mshr[c]
  OBVIOUS
<1>2. OneCopy(t) /\ m \in Mshr /\ \A z \in Ways : t.l1[z] \in L1Entry
  BY <1>1, PipeEntries DEF LocalInv, Regs
<1>3. st[c] \in FillStates => ~Has(t, m.addr, 1) /\ m.way \in Ways /\ m.addr \in Lines
  BY <1>1 DEF LocalInv, MissWay, RefillStates, FillStates, Regs, Fits
<1>4. st[c] = "s_miss5" => x = t /\ Shut(t.l1[m.way])
  BY <1>1 DEF CtlInv, Filling, RefillStates, TagsSettle
<1>5. st[c] = "s_miss5" /\ m.old # 0 => Held(t.l1[m.way], oldaddr[c], 1)
  <2>1. SUFFICES ASSUME st[c] = "s_miss5", m.old # 0 PROVE Held(t.l1[m.way], oldaddr[c], 1)
    OBVIOUS
  <2>2. t.l1[m.way].addr = oldaddr[c] /\ cache_state_unlock(t.l1[m.way].st) = m.old
    BY <1>1, <2>1 DEF LocalInv, MissWay, RefillStates
  <2>3. m.old \in 0..3
    BY <1>2 DEF Mshr, UnlockedStates
  <2> QED BY <2>1, <2>2, <2>3 DEF Held
<1>6. \A q \in L2Sets : L2Claims(c, q, k) =>
        \/ Held(t.l2[q], k, 1)
        \/ st[c] = "s_miss5" /\ bitmap[c] /\ m.old # 0 /\ k = oldaddr[c]
        \/ st[c] \in FillStates /\ ~bitmap[c] /\ k = m.addr
  BY <1>1 DEF L2Claims, Evicted
<1>7. CASE Open(x.l1[w], k, 3)
  <2>1. Held(t.l1[w], k, 1) /\ Open(x.l1[w], k, 1)
    BY <1>1, <1>7, StoreSeen
  <2>2. st[c] \in FillStates => k # m.addr
    BY <1>3, <2>1 DEF Has
  <2>3. st[c] = "s_miss5" => w # m.way
    BY <1>4, <2>1 DEF Shut
  <2>4. st[c] = "s_miss5" /\ m.old # 0 => k # oldaddr[c]
    BY <1>2, <1>3, <1>5, <2>1, <2>3, SameWay DEF FillStates
  <2>5. \A q \in L2Sets : ~Held(t.l2[q], k, 1)
    BY <1>2, <2>1 DEF OneCopy
  <2> QED BY <1>1, <1>6, <2>2, <2>3, <2>4, <2>5
<1>8. CASE bitmap[c] /\ w = m.way /\ Won(m, k, 3)
  <2>1. k = m.addr /\ m.ins \in UnlockedStates /\ m.ins >= 1
    BY <1>2, <1>8 DEF Won, Mshr, UnlockedStates
  <2>2. CASE st[c] = "s_miss5"
    <3>1. ~Has(t, k, 1)
      BY <1>3, <2>1, <2>2 DEF FillStates
    <3>2. m.old # 0 => k # oldaddr[c]
      BY <1>3, <1>5, <2>2, <3>1 DEF Has, FillStates
    <3>3. \A q \in L2Sets : ~Held(t.l2[q], k, 1)
      BY <1>2, <3>1 DEF OneCopy, Has, HasL2
    <3> QED BY <1>1, <1>6, <1>8, <2>2, <3>2, <3>3
  <2>3. CASE st[c] # "s_miss5"
    <3>1. t.l1[w] = MkEntry(k, m.ins)
      BY <1>1, <1>8, <2>1, <2>3, FillSeen
    <3>2. 1 \in 1..3
      OBVIOUS
    <3>3. Held(t.l1[w], k, 1)
      BY <2>1, <3>1, <3>2, MadeHeld
    <3>4. \A q \in L2Sets : ~Held(t.l2[q], k, 1)
      BY <1>2, <3>3 DEF OneCopy
    <3> QED BY <1>1, <1>6, <1>8, <2>3, <3>4
  <2> QED BY <2>2, <2>3
<1> QED BY <1>1, <1>7, <1>8 DEF StoreWay

(* The data that processor c holds. *)
WaysRight(c) == \A w \in Ways, l \in Lines : Claims(c, w, l) => d1[c][w] = last[l]

L2Right(c) == \A q \in L2Sets, l \in Lines : L2Claims(c, q, l) => d2[c][q] = last[l]

Reads(c) == st[c] \in FillStates /\ ~mshr[c].l2hit /\ ~bitmap[c]

PortRight(c) == mdat[c] # None => Reads(c) /\ mdat[c] = last[mshr[c].addr]

DataRight(c) == WaysRight(c) /\ L2Right(c) /\ PortRight(c)

(* A dirty line that is dropped is nowhere held after it. *)
LEMMA DiscardClaims ==
    ASSUME NEW c, NEW moves, Clocked(c, moves), CtlInv(c), Discards(c),
           NEW l, l = inv[c].addr
    PROVE  /\ \A w \in Ways : ~Claims(c, w, l)'
           /\ \A q \in L2Sets : ~L2Claims(c, q, l)'
<1> USE StateNumbers
<1>0. st[c] = "s_inv1" /\ inv[c].act = "hit_inv" /\ Regs(c) /\ LocalInv(c)
  BY DEF Discards, Clocked
<1>1. PICK t : t = tag[c]
  OBVIOUS
<1>2. l \in Lines /\ OneCopy(t) /\ \A z \in Ways : t.l1[z] \in L1Entry
  BY <1>0, <1>1, PipeEntries DEF Regs, Fits, InvStates, LocalInv
<1>3. PICK y \in Ways : Holds(t.l1[y], l) /\ Dirty(t.l1[y])
  BY <1>1 DEF Discards, L1Matches
<1>4. Held(t.l1[y], l, 3) /\ Held(t.l1[y], l, 1)
  BY <1>3 DEF Holds, Dirty, Held
<1>5. y \in DWays
  BY <1>1, <1>2, <1>4 DEF CtlInv, DirtyWays
<1>6. rtag[c] = t /\ rtag'[c] = t /\ xtag'[c] = t
  BY <1>0, <1>1 DEF CtlInv, TagsSettle, Clocked, Piped
<1>7. st'[c] = "s_return1" /\ \A w \in Ways : ~Held(tag'[c].l1[w], l, 1)
  BY <1>0, <1>1 DEF Clocked, TagStep, Leaves
<1>8. Dropping(c)'
  BY <1>0, <1>7 DEF Clocked, CtlStep, InvMoves, Dropping, ReturnStates
<1>9. ~bitmap'[c]
  BY <1>0 DEF CtlInv, Filling, ReturnStates, Clocked, CtlStep, RunMoves
<1>10. ASSUME NEW w \in Ways PROVE ~Claims(c, w, l)'
  <2>1. Open(t.l1[w], l, 1) => w \in DWays
    <3>1. Open(t.l1[w], l, 1) => Held(t.l1[w], l, 1)
      BY DEF Open
    <3> QED BY <1>2, <1>4, <1>5, <3>1, SameWay
  <2> QED BY <1>6, <1>7, <1>8, <1>9, <2>1 DEF Claims
<1>11. ASSUME NEW q \in L2Sets PROVE ~L2Claims(c, q, l)'
  <2>1. Held(tag'[c].l2[q], l, 1) => Held(t.l2[q], l, 1)
    BY <1>0, <1>1, <1>2 DEF Clocked, TagStep, L2Step, FillEnds
  <2>2. ~Held(t.l2[q], l, 1)
    BY <1>2, <1>4 DEF OneCopy
  <2> QED BY <1>7, <1>9, <2>1, <2>2 DEF L2Claims, Evicted, FillStates
<1> QED BY <1>10, <1>11

LEMMA FillRight ==
    ASSUME NEW c, NEW moves, Regs(c), LocalInv(c), CtlInv(c), MemStep(c, moves), DataRight(c),
           Fills(c, moves)
    PROVE  FillVal(c) = last[mshr[c].addr] /\ mshr[c].addr \in Lines /\ ~bitmap[c]
<1>1. st[c] = "s_miss5" /\ ~bitmap[c] /\ st[c] \in FillStates
  BY MovingFree DEF Fills, FillStates
<1>2. mshr[c].addr \in Lines
  BY <1>1 DEF Regs, Fits, RefillStates
<1>3. CASE mshr[c].l2hit
  <2>1. L2Set[mshr[c].addr] \in L2Sets
    BY <1>2, <1>3, SetOfLine DEF Regs, Fits
  <2>2. L2Claims(c, L2Set[mshr[c].addr], mshr[c].addr)
    BY <1>1, <1>3 DEF L2Claims
  <2> QED BY <1>1, <1>2, <1>3, <2>1, <2>2 DEF DataRight, L2Right, FillVal
<1>4. CASE ~mshr[c].l2hit
  BY <1>1, <1>2, <1>4 DEF MemStep, DataRight, PortRight, FillVal
<1> QED BY <1>3, <1>4

LEMMA WaysKept ==
    ASSUME NEW c, NEW moves, Clocked(c, moves), CtlInv(c), DataStep(c, moves), DataRight(c)
    PROVE  WaysRight(c)'
<1>0. Regs(c) /\ LocalInv(c) /\ MemStep(c, moves)
  BY DEF Clocked, DataStep
<1>1. SUFFICES ASSUME NEW w \in Ways, NEW l \in Lines, Claims(c, w, l)'
      PROVE  d1'[c][w] = last'[l]
  BY DEF WaysRight
<1>2. \/ Claims(c, w, l) /\ ~(Fills(c, moves) /\ w = mshr[c].way)
      \/ Fills(c, moves) /\ w = mshr[c].way /\ l = mshr[c].addr
  BY <1>1, ClaimFrom
<1>3. FilledWay(c, moves, w) = last[l]
  BY <1>0, <1>2, FillRight DEF FilledWay, DataRight, WaysRight
<1>4. CASE QuietStep(c, moves)
  <2>1. ~(Discards(c) /\ l = inv[c].addr)
    BY <1>1, DiscardClaims
  <2>2. last'[l] = last[l] /\ d1'[c][w] = FilledWay(c, moves, w)
    BY <1>4, <2>1 DEF QuietStep
  <2> QED BY <1>3, <2>2
<1>5. CASE \E k, v : StoreStep(c, moves, k, v)
  <2>1. PICK k, v : StoreStep(c, moves, k, v)
    BY <1>5
  <2>2. /\ k \in Lines /\ ~CacheOpPending(c)
        /\ d1'[c][w] = IF StoreWay(c, w, k) THEN v ELSE FilledWay(c, moves, w)
        /\ last'[l] = IF l = k THEN v ELSE last[l]
    BY <2>1 DEF StoreStep
  <2>3. PICK y \in Ways : StoreWay(c, y, k)
    BY <2>1 DEF StoreStep
  <2>4. CASE Claims(c, w, l)
    <3>1. y = w <=> l = k
      BY <1>0, <2>2, <2>3, <2>4, StoreClaim
    <3>2. StoreWay(c, w, k) => l = k
      <4>1. ASSUME StoreWay(c, w, k) PROVE l = k
        <5>1. w = w <=> l = k
          BY <1>0, <2>2, <2>4, <4>1, StoreClaim
        <5> QED BY <5>1
      <4> QED BY <4>1
    <3> QED BY <1>3, <2>2, <2>3, <3>1, <3>2
  <2>5. CASE Fills(c, moves) /\ w = mshr[c].way /\ l = mshr[c].addr
    <3>1. st[c] = "s_miss5" /\ ~bitmap[c] /\ st[c] \in FillStates
      BY <1>0, <2>5, MovingFree DEF Fills, FillStates
    <3>2. k # l
      BY <1>0, <2>2, <2>3, <2>5, <3>1, StoreNotL2
    <3>3. ~StoreWay(c, w, k)
      BY <1>0, <2>2, <2>5, <3>1, StoreNotL2
    <3> QED BY <1>3, <2>2, <3>2, <3>3
  <2> QED BY <1>2, <2>4, <2>5
<1> QED BY <1>4, <1>5 DEF DataStep

LEMMA VictimHeld ==
    ASSUME NEW c, Regs(c), LocalInv(c), st[c] \in RefillStates, mshr[c].old # T_STATE_INVALID
    PROVE  /\ Held(tag[c].l1[mshr[c].way], oldaddr[c], T_STATE_SHARED)
           /\ oldaddr[c] \in Lines /\ mshr[c].way \in Ways
<1> USE StateNumbers
<1>1. PICK e, m : e = tag[c].l1[mshr[c].way] /\ m = mshr[c]
  OBVIOUS
<1>2. e.addr = oldaddr[c] /\ cache_state_unlock(e.st) = m.old
  BY <1>1 DEF LocalInv, MissWay
<1>3. m.old \in 0..3
  BY <1>1 DEF Regs, Mshr, UnlockedStates
<1>4. Held(e, oldaddr[c], 1)
  BY <1>1, <1>2, <1>3 DEF Held
<1> QED BY <1>1, <1>4 DEF Regs, Fits

LEMMA L2Kept ==
    ASSUME NEW c, NEW moves, Clocked(c, moves), CtlInv(c), DataStep(c, moves), DataRight(c)
    PROVE  L2Right(c)'
<1>0. Regs(c) /\ LocalInv(c) /\ MemStep(c, moves)
  BY DEF Clocked, DataStep
<1>1. SUFFICES ASSUME NEW q \in L2Sets, NEW l \in Lines, L2Claims(c, q, l)'
      PROVE  d2'[c][q] = last'[l]
  BY DEF L2Right
<1>2. \/ L2Claims(c, q, l) /\ ~Evicts(c, moves, q)
      \/ Evicts(c, moves, q) /\ l = oldaddr[c]
  BY <1>1, L2ClaimFrom
<1>3. Evicts(c, moves, q) => /\ st[c] = "s_miss5" /\ ~bitmap[c] /\ mshr[c].old # T_STATE_INVALID
  BY <1>0, MovingFree DEF Evicts, Fills
<1>4. d2'[c][q] = last[l]
  <2>1. d2'[c][q] = IF Evicts(c, moves, q) THEN d1[c][mshr[c].way] ELSE d2[c][q]
    BY <1>0 DEF MemStep, Evicts
  <2>2. CASE L2Claims(c, q, l) /\ ~Evicts(c, moves, q)
    BY <2>1, <2>2 DEF DataRight, L2Right
  <2>3. CASE Evicts(c, moves, q) /\ l = oldaddr[c]
    <3>1. Held(tag[c].l1[mshr[c].way], l, T_STATE_SHARED) /\ mshr[c].way \in Ways
      BY <1>0, <1>3, <2>3, VictimHeld DEF RefillStates
    <3>2. Claims(c, mshr[c].way, l)
      BY <1>3, <2>3, <3>1 DEF Claims, Gone
    <3> QED BY <2>1, <2>3, <3>1, <3>2 DEF DataRight, WaysRight
  <2> QED BY <1>2, <2>2, <2>3
<1>5. CASE QuietStep(c, moves)
  <2>1. ~(Discards(c) /\ l = inv[c].addr)
    BY <1>1, DiscardClaims
  <2> QED BY <1>4, <1>5, <2>1 DEF QuietStep
<1>6. CASE \E k, v : StoreStep(c, moves, k, v)
  <2>1. PICK k, v : StoreStep(c, moves, k, v)
    BY <1>6
  <2>2. PICK y \in Ways : StoreWay(c, y, k)
    BY <2>1 DEF StoreStep
  <2>3. k \in Lines /\ ~CacheOpPending(c) /\ (last'[l] = IF l = k THEN v ELSE last[l])
    BY <2>1 DEF StoreStep
  <2>4. l # k
    BY <1>0, <1>2, <1>3, <2>2, <2>3, StoreNotL2
  <2> QED BY <1>4, <2>3, <2>4
<1> QED BY <1>5, <1>6 DEF DataStep

LEMMA PortKept ==
    ASSUME NEW c, NEW moves, Clocked(c, moves), CtlInv(c), DataStep(c, moves), DataRight(c),
           MemRead(c) => mem[mshr[c].addr] = last[mshr[c].addr]
    PROVE  PortRight(c)'
<1>0. Regs(c) /\ LocalInv(c) /\ MemStep(c, moves)
  BY DEF Clocked, DataStep
<1>1. SUFFICES ASSUME mdat'[c] # None PROVE Reads(c)' /\ mdat'[c] = last'[mshr'[c].addr]
  BY DEF PortRight
<1>2. Reads(c) /\ mdat'[c] = last[mshr[c].addr] /\ ~Fills(c, moves)
  <2>1. CASE mdat'[c] = mdat[c]
    BY <1>0, <1>1, <2>1 DEF DataRight, PortRight, MemStep
  <2>2. CASE MemRead(c) /\ mdat'[c] = mem[mshr[c].addr]
    BY <1>0, <2>2 DEF MemRead, Reads, FillStates, MemStep
  <2> QED BY <1>0, <1>1, <2>1, <2>2 DEF MemStep
<1>3. mshr[c].addr \in Lines
  BY <1>0, <1>2 DEF Regs, Fits, Reads, FillStates, RefillStates
<1>4. /\ NextState(st[c], st'[c]) /\ MissMoves(c) /\ RunMoves(c, moves)
      /\ Filling(c)
  BY DEF Clocked, CtlStep, CtlInv
<1>5. st[c] = "s_miss5" => run[c] = "on" /\ ~moves
  BY <1>2, <1>4 DEF Filling, Reads, Fills
<1>6. Reads(c)' /\ mshr'[c] = mshr[c]
  <2>1. st'[c] \in FillStates
    <3>1. CASE st[c] = "s_miss5"
      BY <1>2, <1>4, <1>5, <3>1 DEF RunMoves, Reads
    <3>2. CASE st[c] # "s_miss5"
      BY <1>2, <1>4, <3>2 DEF NextState, Reads, FillStates, PromoteStates, AskStates
    <3> QED BY <3>1, <3>2
  <2>2. mshr'[c] = mshr[c]
    BY <1>2, <1>4 DEF MissMoves, Reads
  <2>3. ~bitmap'[c]
    BY <1>2, <1>4, <1>5 DEF RunMoves, Reads
  <2> QED BY <1>2, <2>1, <2>2, <2>3 DEF Reads
<1>7. last'[mshr[c].addr] = last[mshr[c].addr]
  <2>1. CASE QuietStep(c, moves)
    BY <1>2, <1>3, <2>1 DEF QuietStep, Discards, Reads, FillStates
  <2>2. CASE \E k, v : StoreStep(c, moves, k, v)
    <3>1. PICK k, v : StoreStep(c, moves, k, v)
      BY <2>2
    <3>2. PICK y \in Ways : StoreWay(c, y, k)
      BY <3>1 DEF StoreStep
    <3>3. k \in Lines /\ ~CacheOpPending(c)
      BY <3>1 DEF StoreStep
    <3>4. k # mshr[c].addr
      BY <1>0, <1>2, <3>2, <3>3, StoreNotL2 DEF Reads
    <3> QED BY <1>3, <3>1, <3>4 DEF StoreStep
  <2> QED BY <2>1, <2>2 DEF DataStep
<1> QED BY <1>2, <1>6, <1>7

-----------------------------------------------------------------------------
(* Processor c answers for the last store to line l: a dirty way, a way that *)
(* is being copied, or a refill that memory does not know of. *)
DirtyAt(c, l) ==
    \/ \E w \in Ways : Held(tag[c].l1[w], l, T_STATE_MODIFIED) /\ ~Gone(c, w)
    \/ /\ st[c] \in CopyStates /\ oldaddr[c] = l
       /\ st[c] = "s_inv6" => run[c] = "on"
    \/ bitmap[c] /\ Won(mshr[c], l, T_STATE_MODIFIED)

LEMMA FlushIn ==
    ASSUME NEW c, NEW moves, Clocked(c, moves), MemStep(c, moves), DataType, Flushes(c, moves),
           NEW l, l = oldaddr[c], NEW v, v = d1[c][MovedWay(c)]
    PROVE  InFifo(c, l)' /\ l \in Lines /\ fifo'[c].val = v
<1>0. c \in CPUs
  BY DEF Clocked, Regs
<1>1. PICK r : r = fifo'[c]
  OBVIOUS
<1>2. r = [addr |-> l, val |-> v]
  BY <1>1 DEF MemStep
<1>4. l \in Lines /\ v \in Val
  <2>1. oldaddr[c] \in Lines
    BY DEF Clocked, Regs, Fits, Flushes, RefillStates, CopyStates, T_STATE_MODIFIED, T_STATE_INVALID
  <2>2. v \in Val
    <3>1. MovedWay(c) \in Ways
      BY DEF Clocked, Regs, Fits, Flushes, RefillStates, CopyStates, MovedWay
    <3> QED BY <1>0, <3>1 DEF DataType
  <2> QED BY <2>1, <2>2
<1>5. r # None
  BY <1>2, <1>4, NoneAssumption
<1> QED BY <1>1, <1>2, <1>4, <1>5 DEF InFifo

(* Where a dirty line is one clock later. *)
LEMMA DirtyMoves ==
    ASSUME NEW c, NEW moves, Clocked(c, moves), CtlInv(c), MemStep(c, moves), DataType,
           NEW l \in Lines, DirtyAt(c, l)
    PROVE  DirtyAt(c, l)' \/ InFifo(c, l)' \/ (Discards(c) /\ l = inv[c].addr)
<1> USE StateNumbers
<1>0. Filling(c) /\ LocalInv(c) /\ LocalInv(c)' /\ Regs(c)
  BY DEF CtlInv, Clocked
<1>1. /\ NextState(st[c], st'[c]) /\ InvMoves(c) /\ MissMoves(c) /\ RunMoves(c, moves) /\ TagsKept(c)
      /\ OldMoves(c) /\ \A w \in Ways : DirtyGoes(c, w, l)
  BY DEF Clocked, CtlStep, TagStep, L1Step
<1>2. CASE \E w \in Ways : Held(tag[c].l1[w], l, 3) /\ ~Gone(c, w)
  <2>1. PICK w \in Ways : Held(tag[c].l1[w], l, 3) /\ ~Gone(c, w)
    BY <1>2
  <2>2. CASE Held(tag'[c].l1[w], l, 3) /\ ~Gone(c, w)'
    BY <2>2 DEF DirtyAt
  <2>3. CASE Held(tag'[c].l1[w], l, 3) /\ Gone(c, w)'
    <3>1. st[c] = "s_miss5"
      BY <1>0, <1>1, <2>3 DEF Gone, NextState, PromoteStates, AskStates, RunMoves, Filling, ReturnStates
    <3>2. mshr'[c] = mshr[c]
      BY <1>1, <3>1 DEF MissMoves, FillStates
    <3>3. ~bitmap[c] /\ w = mshr[c].way
      BY <2>1, <2>3, <3>1, <3>2 DEF Gone
    <3>4. moves /\ run[c] = "on"
      BY <1>0, <1>1, <2>3, <3>1, <3>3 DEF Gone, RunMoves, Filling
    <3>5. mshr[c].old = 3 /\ oldaddr[c] = l
      <4>1. PICK e, m : e = tag[c].l1[w] /\ m = mshr[c]
        OBVIOUS
      <4>2. cache_state_unlock(e.st) = m.old /\ (m.old # 0 => e.addr = oldaddr[c])
        BY <1>0, <3>1, <3>3, <4>1 DEF LocalInv, MissWay, RefillStates
      <4>3. m.old \in 0..3
        BY <1>0, <4>1 DEF Regs, Mshr, UnlockedStates
      <4> QED BY <2>1, <4>1, <4>2, <4>3 DEF Held
    <3>6. Flushes(c, moves)
      BY <3>1, <3>4, <3>5 DEF Flushes
    <3> QED BY <3>5, <3>6, FlushIn
  <2>4. CASE st[c] = "s_inv2" /\ w = inv[c].way
    <3>1. st'[c] = "s_inv3" /\ oldaddr'[c] = tag[c].l1[w].addr
      BY <1>1, <2>4 DEF NextState, PromoteStates, AskStates, OldMoves
    <3>2. oldaddr'[c] = l
      BY <2>1, <3>1 DEF Held
    <3> QED BY <3>1, <3>2 DEF DirtyAt, CopyStates
  <2>5. CASE st[c] = "s_inv1" /\ inv[c].act = "hit_inv" /\ l = inv[c].addr
    <3>1. PICK e : e = tag[c].l1[w] /\ e \in L1Entry
      BY <1>0, PipeEntries
    <3>2. Dirty(e) /\ Held(e, l, 1)
      BY <2>1, <3>1, DirtyHeld, HeldChain
    <3>3. w \in L1Matches(c, l)
      BY <1>0, <3>1, <3>2, L1Found
    <3> QED BY <2>5, <3>1, <3>2, <3>3 DEF Discards
  <2>6. ~(FillEnds(c) /\ w = mshr[c].way)
    BY <1>0, <1>1, <2>1 DEF FillEnds, Gone, Filling, RunMoves
  <2> QED BY <1>1, <2>1, <2>2, <2>3, <2>4, <2>5, <2>6 DEF DirtyGoes
<1>3. CASE st[c] \in CopyStates /\ oldaddr[c] = l /\ (st[c] = "s_inv6" => run[c] = "on")
  <2>1. oldaddr'[c] = l
    BY <1>1, <1>3 DEF OldMoves, CopyStates
  <2>2. CASE st[c] # "s_inv6"
    <3>1. st'[c] \in CopyStates /\ (st'[c] = "s_inv6" => st[c] = "s_inv5")
      BY <1>1, <1>3, <2>2 DEF NextState, CopyStates, PromoteStates, AskStates
    <3> QED BY <1>1, <2>1, <3>1 DEF DirtyAt, RunMoves
  <2>3. CASE st[c] = "s_inv6" /\ moves
    BY <1>3, <2>3, FlushIn DEF Flushes
  <2>4. CASE st[c] = "s_inv6" /\ ~moves
    <3>1. st'[c] = "s_inv6" /\ run'[c] = "on"
      BY <1>1, <1>3, <2>4 DEF RunMoves
    <3> QED BY <2>1, <3>1 DEF DirtyAt, CopyStates
  <2> QED BY <2>2, <2>3, <2>4
<1>4. CASE bitmap[c] /\ Won(mshr[c], l, 3)
  <2>1. CASE st[c] # "s_return2"
    <3>1. bitmap'[c] /\ mshr'[c] = mshr[c]
      BY <1>0, <1>1, <1>4, <2>1 DEF RunMoves, Filling, ReturnStates, MissMoves, FillStates
    <3> QED BY <1>4, <3>1 DEF DirtyAt
  <2>2. CASE st[c] = "s_return2"
    <3>1. PICK m : m = mshr[c] /\ m \in Mshr
      BY <1>0 DEF Regs
    <3>2. /\ tag[c].l1[m.way] = MkEntry(m.addr, m.ins) /\ m.way \in Ways /\ m.addr = l
          /\ m.ins \in UnlockedStates /\ m.ins >= 3
      BY <1>0, <1>4, <2>2, <3>1 DEF Filling, ReturnStates, Won, Mshr
    <3>3. 3 \in 1..3
      OBVIOUS
    <3>4. Held(tag[c].l1[m.way], l, 3)
      BY <3>2, <3>3, MadeHeld
    <3>5. tag'[c] = tag[c] /\ st'[c] = "s_idle"
      BY <1>1, <2>2 DEF TagsKept, NextState, PromoteStates, AskStates
    <3>6. Held(tag'[c].l1[m.way], l, 3) /\ ~Gone(c, m.way)'
      BY <3>4, <3>5 DEF Gone
    <3> QED BY <3>2, <3>6 DEF DirtyAt
  <2> QED BY <2>1, <2>2
<1> QED BY <1>2, <1>3, <1>4 DEF DirtyAt

LEMMA DirtySees ==
    ASSUME NEW c, Regs(c), LocalInv(c), CtlInv(c), NEW l \in Lines, DirtyAt(c, l)
    PROVE  Sees(c, l, T_STATE_EXCLUSIVE)
<1> USE StateNumbers
<1>1. CASE \E w \in Ways : Held(tag[c].l1[w], l, 3)
  <2>1. PICK w \in Ways : Held(tag[c].l1[w], l, 3)
    BY <1>1
  <2>2. Held(tag[c].l1[w], l, 2)
    BY <2>1, PipeEntries, HeldChain
  <2>3. Has(tag[c], l, 2) /\ 2 \in Levels
    BY <2>2 DEF Has, Levels
  <2> QED BY <2>3, TagSees
<1>2. CASE st[c] \in CopyStates /\ oldaddr[c] = l
  <2>1. Has(tag[c], l, 2) /\ 2 \in Levels
    BY <1>2, CopiedLine DEF Levels
  <2> QED BY <2>1, TagSees
<1>3. CASE Won(mshr[c], l, 3)
  <2>1. PICK m : m = mshr[c] /\ m.ins \in 0..3
    BY DEF Regs, Mshr, UnlockedStates
  <2>2. Won(m, l, 2)
    BY <1>3, <2>1 DEF Won
  <2> QED BY <2>1, <2>2 DEF Sees
<1> QED BY <1>1, <1>2, <1>3 DEF DirtyAt

LEMMA StoreDirty ==
    ASSUME NEW c, Regs(c), LocalInv(c), CtlInv(c), ~CacheOpPending(c),
           NEW w \in Ways, NEW k \in Lines, StoreWay(c, w, k)
    PROVE  DirtyAt(c, k)
<1> USE StateNumbers
<1>1. CASE Open(xtag[c].l1[w], k, 3)
  <2>1. ~Dropping(c)
    BY DEF CtlInv, Dropping
  <2>2. Open(xtag[c].l1[w], k, 1)
    BY <1>1, PipeEntries, HeldChain
  <2>3. ~Gone(c, w)
    <3>1. bitmap[c] => Unseen(xtag[c], mshr[c])
      BY FillSeen
    <3> QED BY <2>2, <3>1 DEF Gone, Unseen, Shut
  <2>4. CASE Held(tag[c].l1[w], k, 3)
    BY <2>3, <2>4 DEF DirtyAt
  <2>5. CASE st[c] \in {"s_inv3", "s_inv4"} /\ w = inv[c].way /\ Held(tag[c].l1[w], k, 2)
    <3>1. oldaddr[c] = k /\ st[c] \in CopyStates
      BY <2>5 DEF CtlInv, CopyStates, Held
    <3> QED BY <2>5, <3>1 DEF DirtyAt
  <2> QED BY <1>1, <2>1, <2>4, <2>5 DEF CtlInv, PipeDirty
<1>2. CASE bitmap[c] /\ Won(mshr[c], k, 3)
  BY <1>2 DEF DirtyAt
<1> QED BY <1>1, <1>2 DEF StoreWay

(* A store is to no line on its way to memory. *)
LEMMA StoreNotFifo ==
    ASSUME NEW c, NEW moves, Regs(c), LocalInv(c), CtlInv(c), FifoClean(c), ~CacheOpPending(c),
           NEW w \in Ways, NEW k \in Lines, StoreWay(c, w, k)
    PROVE  /\ ~InFifo(c, k)
           /\ Flushes(c, moves) => k # oldaddr[c]
<1> USE StateNumbers
<1>1. ~InFifo(c, k)
  BY DEF InFifo, FifoClean, StoreWay, Won
<1>2. ASSUME Flushes(c, moves), k = oldaddr[c] PROVE FALSE
  <2>1. st[c] \in {"s_miss5", "s_inv6"} /\ ~bitmap[c]
    BY <1>2, MovingFree DEF Flushes
  <2>2. CASE st[c] = "s_miss5"
    BY <1>2, <2>1, <2>2, StoreNotL2 DEF Flushes
  <2>3. CASE st[c] = "s_inv6"
    <3>1. PICK t, y : t = tag[c] /\ y = inv[c].way
      OBVIOUS
    <3>2. y \in Ways /\ Held(t.l1[y], k, 2) /\ cache_state_unlock(t.l1[y].st) = 2 /\ OneCopy(t)
      BY <1>2, <2>3, <3>1, CopiedLine DEF CopyStates, LocalInv, CopyWay
    <3>3. Held(t.l1[w], k, 3)
      BY <2>1, <2>3, <3>1 DEF StoreWay, CtlInv, PipeDirty, Dropping, ReturnStates
    <3>4. Held(t.l1[w], k, 1) /\ Held(t.l1[y], k, 1)
      BY <3>1, <3>2, <3>3, PipeEntries, HeldChain
    <3>5. w = y
      BY <3>2, <3>4, SameWay
    <3> QED BY <3>2, <3>3, <3>5 DEF Held
  <2> QED BY <2>1, <2>2, <2>3
<1> QED BY <1>1, <1>2

-----------------------------------------------------------------------------
(* Memory, the FIFOs and the bus. *)
MemRight ==
    \A l \in Lines : mem[l] = last[l] \/ \E c \in CPUs : DirtyAt(c, l) \/ InFifo(c, l)

FifoRight ==
    \A c \in CPUs, l \in Lines : InFifo(c, l) =>
        /\ fifo[c].val = last[l]
        /\ \A b \in CPUs : b # c => ~Sees(b, l, T_STATE_SHARED)

WaitDriven == \A c \in CPUs : Due(c) /\ CCWait(c) => bus.wait

FifoGranted ==
    \A a, b \in CPUs : Answered(a) /\ Due(a) /\ ~bus.wait /\ a # b => ~InFifo(b, mshr[a].addr)

(* What a processor must hold, its snoop port answers for. *)
LEMMA WonSees ==
    ASSUME NEW c, Regs(c), LocalInv(c), NEW l \in Lines, l = mshr[c].addr,
           bitmap[c] \/ st[c] \in FillStates
    PROVE  Sees(c, l, T_STATE_SHARED)
<1> USE StateNumbers
<1>1. PICK m : m = mshr[c] /\ m.ins \in 0..3
  BY DEF Regs, Mshr, UnlockedStates
<1>2. m.valid /\ m.snooped /\ m.ins # 0
  BY <1>1 DEF LocalInv, MissReg
<1>3. Won(m, l, 1)
  BY <1>1, <1>2 DEF Won
<1> QED BY <1>1, <1>3 DEF Sees

LEMMA ClaimSees ==
    ASSUME NEW c, Regs(c), LocalInv(c), NEW w \in Ways, NEW l \in Lines, Claims(c, w, l)
    PROVE  Sees(c, l, T_STATE_SHARED)
<1> USE StateNumbers
<1>0. 1 \in Levels
  BY DEF Levels
<1>1. CASE Held(tag[c].l1[w], l, 1)
  <2>1. Has(tag[c], l, 1)
    BY <1>1 DEF Has
  <2> QED BY <1>0, <2>1, TagSees
<1>2. CASE Open(rtag[c].l1[w], l, 1)
  <2>1. Has(rtag[c], l, 1)
    BY <1>2 DEF Has, Open
  <2> QED BY <1>0, <2>1 DEF LocalInv, Covered, Sees
<1>3. CASE Open(xtag[c].l1[w], l, 1)
  BY <1>3 DEF Has, Open, Sees
<1>4. CASE bitmap[c] /\ l = mshr[c].addr
  BY <1>4, WonSees
<1> QED BY <1>1, <1>2, <1>3, <1>4 DEF Claims

LEMMA L2ClaimSees ==
    ASSUME NEW c, Regs(c), LocalInv(c), NEW q \in L2Sets, NEW l \in Lines, L2Claims(c, q, l)
    PROVE  Sees(c, l, T_STATE_SHARED)
<1> USE StateNumbers
<1>0. 1 \in Levels
  BY DEF Levels
<1>1. CASE Held(tag[c].l2[q], l, 1)
  <2>1. q = L2Set[l] /\ HasL2
    BY <1>1 DEF LocalInv, OneCopy, HasL2
  <2>2. Has(tag[c], l, 1)
    BY <1>1, <2>1 DEF Has
  <2> QED BY <1>0, <2>2, TagSees
<1>2. CASE Evicted(c, q) /\ l = oldaddr[c]
  <2>1. Held(tag[c].l1[mshr[c].way], l, 1) /\ mshr[c].way \in Ways
    BY <1>2, VictimHeld DEF Evicted, RefillStates
  <2>2. Has(tag[c], l, 1)
    BY <2>1 DEF Has
  <2> QED BY <1>0, <2>2, TagSees
<1>3. CASE st[c] \in FillStates /\ l = mshr[c].addr
  BY <1>3, WonSees
<1> QED BY <1>1, <1>2, <1>3 DEF L2Claims

(* The line that starts into the FIFO. *)
LEMMA FlushSees ==
    ASSUME NEW c, NEW moves, Regs(c), LocalInv(c), CtlInv(c), Flushes(c, moves),
           NEW l \in Lines, l = oldaddr[c]
    PROVE  Sees(c, l, T_STATE_EXCLUSIVE)
<1>1. Has(tag[c], l, T_STATE_EXCLUSIVE) /\ T_STATE_EXCLUSIVE \in Levels
  BY CopiedLine DEF Flushes, CopyStates, RefillStates, Levels
<1> QED BY <1>1, TagSees

LEMMA FlushRight ==
    ASSUME NEW c, NEW moves, Regs(c), LocalInv(c), CtlInv(c), Flushes(c, moves), DataRight(c),
           NEW l \in Lines, l = oldaddr[c]
    PROVE  d1[c][MovedWay(c)] = last[l]
<1> USE StateNumbers
<1>1. st[c] \in {"s_miss5", "s_inv6"} /\ ~bitmap[c]
  BY MovingFree DEF Flushes
<1>2. PICK y : y = MovedWay(c)
  OBVIOUS
<1>3. Held(tag[c].l1[y], l, 1) /\ y \in Ways
  <2>1. CASE st[c] = "s_miss5"
    BY <1>2, <2>1, VictimHeld DEF Flushes, RefillStates, MovedWay
  <2>2. CASE st[c] = "s_inv6"
    <3>1. Held(tag[c].l1[y], l, 2) /\ y \in Ways
      BY <1>2, <2>2, CopiedLine DEF CopyStates, MovedWay
    <3> QED BY <3>1, PipeEntries, HeldChain
  <2> QED BY <1>1, <2>1, <2>2
<1>4. Claims(c, y, l)
  BY <1>1, <1>3 DEF Claims, Gone
<1> QED BY <1>2, <1>3, <1>4 DEF DataRight, WaysRight

(* What processor c does to the last store to a line. *)
LEMMA LastMoves ==
    ASSUME NEW c, NEW moves, Clocked(c, moves), CtlInv(c), FifoClean(c), DataStep(c, moves),
           NEW l \in Lines, last'[l] # last[l]
    PROVE  /\ ~InFifo(c, l) /\ (Flushes(c, moves) => l # oldaddr[c])
           /\ DirtyAt(c, l) \/ (Discards(c) /\ l = inv[c].addr)
           /\ Discards(c) => last'[l] = mem[l]
<1>0. Regs(c) /\ LocalInv(c)
  BY DEF Clocked
<1>1. CASE QuietStep(c, moves)
  <2>1. Discards(c) /\ l = inv[c].addr /\ last'[l] = mem[l]
    BY <1>1 DEF QuietStep
  <2>2. fifo[c] = None
    BY <2>1 DEF CtlInv, FifoFree, Discards
  <2> QED BY <2>1, <2>2 DEF InFifo, Flushes, Discards
<1>2. CASE \E k, v : StoreStep(c, moves, k, v)
  <2>1. PICK k, v : StoreStep(c, moves, k, v)
    BY <1>2
  <2>2. PICK y \in Ways : StoreWay(c, y, k)
    BY <2>1 DEF StoreStep
  <2>3. k \in Lines /\ ~CacheOpPending(c) /\ l = k
    BY <2>1 DEF StoreStep
  <2>4. DirtyAt(c, l)
    BY <1>0, <2>2, <2>3, StoreDirty
  <2>5. ~Discards(c)
    BY <2>3 DEF Discards, CtlInv
  <2>6. ~InFifo(c, l) /\ (Flushes(c, moves) => l # oldaddr[c])
    BY <1>0, <2>2, <2>3, StoreNotFifo
  <2> QED BY <2>4, <2>5, <2>6
<1> QED BY <1>1, <1>2 DEF DataStep

LEMMA LastSeen ==
    ASSUME NEW c, NEW moves, Clocked(c, moves), CtlInv(c), FifoClean(c), DataStep(c, moves),
           NEW l \in Lines, last'[l] # last[l]
    PROVE  Sees(c, l, T_STATE_EXCLUSIVE)
<1>0. Regs(c) /\ LocalInv(c)
  BY DEF Clocked
<1>1. DirtyAt(c, l) \/ (Discards(c) /\ l = inv[c].addr)
  BY LastMoves
<1> QED BY <1>0, <1>1, DirtySees, DiscardSees

(* The FIFO one clock later. *)
LEMMA FifoMoves ==
    ASSUME NEW c, NEW moves, Clocked(c, moves), CtlInv(c), FifoClean(c), DataStep(c, moves),
           DataType, DataRight(c), NEW l \in Lines, InFifo(c, l)'
    PROVE  \/ InFifo(c, l) /\ fifo'[c] = fifo[c] /\ last'[l] = last[l]
           \/ Flushes(c, moves) /\ l = oldaddr[c] /\ fifo'[c].val = last'[l]
<1>0. Regs(c) /\ LocalInv(c) /\ MemStep(c, moves)
  BY DEF Clocked, DataStep
<1>1. CASE Flushes(c, moves)
  <2>1. l = oldaddr[c] /\ fifo'[c].val = d1[c][MovedWay(c)]
    BY <1>0, <1>1 DEF InFifo, MemStep
  <2>2. fifo'[c].val = last[l]
    BY <1>0, <1>1, <2>1, FlushRight
  <2>3. last'[l] = last[l]
    BY <1>1, <2>1, LastMoves
  <2> QED BY <1>1, <2>1, <2>2, <2>3
<1>2. CASE ~Flushes(c, moves)
  <2>1. fifo'[c] = fifo[c] /\ InFifo(c, l)
    BY <1>0, <1>2 DEF InFifo, MemStep
  <2> QED BY <2>1, LastMoves
<1> QED BY <1>1, <1>2

-----------------------------------------------------------------------------
(* The inductive invariant. *)
CPUInv(c) == CtlInv(c) /\ FifoClean(c) /\ DataRight(c) /\ OpsAsked(c)

AddrInv(c) == NO_WRITEBACK_SNOOPING \/ (CopyDone(c) /\ FifoAddr(c))

DataInv ==
    /\ ScInv
    /\ \A c \in CPUs : CPUInv(c) /\ AddrInv(c)
    /\ MemRight /\ FifoRight /\ WaitDriven /\ FifoGranted

LEMMA Typed ==
    ASSUME DataInv, NEW c \in CPUs
    PROVE  Regs(c) /\ LocalInv(c) /\ CPUInv(c) /\ CtlInv(c) /\ DataType /\ CohInv /\ LinkInv(c)
<1>1. CohInv /\ LinkInv(c) /\ CPUInv(c)
  BY DEF DataInv, ScInv
<1>2. TypeInv /\ LocalInv(c)
  BY <1>1 DEF CohInv
<1> QED BY <1>1, <1>2, TypedRegs DEF CPUInv, TypeInv

(* A controller that reads memory finds the last store there. *)
LEMMA RefillRight ==
    ASSUME DataInv, NEW c \in CPUs, MemRead(c)
    PROVE  mem[mshr[c].addr] = last[mshr[c].addr]
<1> USE StateNumbers
<1>0. Regs(c) /\ LocalInv(c) /\ CtlInv(c) /\ OneWriter
  BY Typed DEF CohInv
<1>1. st[c] \in FillStates /\ ~bitmap[c]
  BY DEF MemRead, FillStates
<1>2. PICK l : l = mshr[c].addr /\ l \in Lines
  BY <1>0, <1>1 DEF Regs, Fits, FillStates, RefillStates
<1>3. Sees(c, l, 1)
  BY <1>0, <1>1, <1>2, WonSees
<1>4. ~InFifo(c, l)
  BY <1>0, <1>1 DEF CtlInv, FifoFree, FillStates, InFifo
<1>5. ~DirtyAt(c, l)
  <2>1. ~Has(tag[c], l, 1)
    BY <1>0, <1>1, <1>2 DEF LocalInv, MissWay, RefillStates, FillStates
  <2>2. \A w \in Ways : ~Held(tag[c].l1[w], l, 3)
    <3>1. \A w \in Ways : Held(tag[c].l1[w], l, 3) => Held(tag[c].l1[w], l, 1)
      BY <1>0, PipeEntries, HeldChain
    <3> QED BY <2>1, <3>1 DEF Has
  <2> QED BY <1>1, <2>2 DEF DirtyAt, FillStates, CopyStates
<1>6. ASSUME NEW b \in CPUs, b # c PROVE ~DirtyAt(b, l) /\ ~InFifo(b, l)
  <2>1. Regs(b) /\ LocalInv(b) /\ CtlInv(b)
    BY Typed
  <2>2. ~Sees(b, l, 2)
    BY <1>0, <1>2, <1>3, <1>6 DEF OneWriter
  <2>3. ~DirtyAt(b, l)
    BY <1>2, <2>1, <2>2, DirtySees
  <2>4. ~InFifo(b, l)
    BY <1>2, <1>3, <1>6 DEF DataInv, FifoRight
  <2> QED BY <2>3, <2>4
<1> QED BY <1>2, <1>4, <1>5, <1>6 DEF DataInv, MemRight

(* An edge of processor c, with everything the lemmas above need. *)
Edged(c, moves) ==
    /\ DataInv /\ c \in CPUs
    /\ Edge(c) /\ Gains(c) /\ Clocked(c, moves) /\ DataStep(c, moves) /\ OthersKept(c)
    /\ DataType /\ DataType'

LEMMA ClockIsEdged ==
    ASSUME DataInv, CohInv', NEW c \in CPUs, CPUClock(c)
    PROVE  \E moves : Edged(c, moves)
<1>1. CohInv /\ LinkInv(c) /\ CtlInv(c) /\ DataType
  BY Typed
<1>2. Edge(c) /\ Gains(c)
  BY <1>1, EdgeLocal
<1>3. DataType'
  BY DEF CohInv, TypeInv
<1>4. PICK moves : Clocked(c, moves) /\ DataStep(c, moves) /\ OthersKept(c)
  BY <1>1, EdgeData
<1> QED BY <1>1, <1>2, <1>3, <1>4 DEF Edged

LEMMA EdgeOwn ==
    ASSUME NEW c, NEW moves, Edged(c, moves), NO_WRITEBACK_SNOOPING \/ OneDirtyWay
    PROVE  CPUInv(c)' /\ AddrInv(c)'
<1>0. /\ c \in CPUs /\ Clocked(c, moves) /\ DataStep(c, moves) /\ MemStep(c, moves) /\ DataInv
      /\ DataType /\ DataType' /\ Edge(c)
  BY DEF Edged, DataStep
<1>1. CtlInv(c) /\ FifoClean(c) /\ DataRight(c) /\ OpsAsked(c) /\ AddrInv(c)
  BY <1>0 DEF DataInv, CPUInv
<1>2. CtlInv(c)' /\ FifoClean(c)' /\ OpsAsked(c)'
  BY <1>0, <1>1, CtlKept, CleanKept, OpsKept
<1>3. MemRead(c) => mem[mshr[c].addr] = last[mshr[c].addr]
  BY <1>0, RefillRight
<1>4. DataRight(c)'
  BY <1>0, <1>1, <1>3, WaysKept, L2Kept, PortKept DEF DataRight
<1>5. AddrInv(c)'
  <2>1. CASE NO_WRITEBACK_SNOOPING
    BY <2>1 DEF AddrInv
  <2>2. CASE ~NO_WRITEBACK_SNOOPING
    <3>1. CopyDone(c) /\ FifoAddr(c) /\ OneDirtyWay
      BY <1>1, <2>2 DEF AddrInv
    <3>2. CopyDone(c)'
      BY <1>0, <1>1, <3>1, CopyDoneKept
    <3>3. Waits(c)
      <4>1. Due(c)
        BY <1>0, EdgeDue
      <4> QED BY <1>0, <4>1 DEF DataInv, WaitDriven, Waits, Edge
    <3>4. Flushes(c, moves) => fifo'[c].addr = oldaddr[c]
      BY <1>0 DEF MemStep
    <3>5. FifoAddr(c)'
      BY <1>0, <1>1, <2>2, <3>1, <3>3, <3>4, AddrKept
    <3> QED BY <3>2, <3>5 DEF AddrInv
  <2> QED BY <2>1, <2>2
<1> QED BY <1>2, <1>4, <1>5 DEF CPUInv

SameRegs(b) ==
    /\ st'[b] = st[b] /\ mshr'[b] = mshr[b] /\ inv'[b] = inv[b] /\ oldaddr'[b] = oldaddr[b]
    /\ tag'[b] = tag[b] /\ rtag'[b] = rtag[b] /\ xtag'[b] = xtag[b] /\ run'[b] = run[b]
    /\ bitmap'[b] = bitmap[b] /\ snp'[b] = snp[b] /\ fifo'[b] = fifo[b] /\ dreq'[b] = dreq[b]

LEMMA SameControl ==
    ASSUME NEW b, SameRegs(b)
    PROVE  /\ CtlInv(b) => CtlInv(b)'
           /\ FifoClean(b) => FifoClean(b)'
           /\ OpsAsked(b) => OpsAsked(b)'
           /\ AddrInv(b) => AddrInv(b)'
           /\ \A w, l : Claims(b, w, l)' <=> Claims(b, w, l)
           /\ \A q, l : L2Claims(b, q, l)' <=> L2Claims(b, q, l)
           /\ \A l : DirtyAt(b, l)' <=> DirtyAt(b, l)
           /\ \A l : InFifo(b, l)' <=> InFifo(b, l)
           /\ Reads(b)' <=> Reads(b)
           /\ CCWait(b)' <=> CCWait(b)
<1> USE DEF SameRegs
<1>1. (CacheOpPending(b)' <=> CacheOpPending(b)) /\ (Dropping(b)' <=> Dropping(b))
  BY DEF CacheOpPending, Dropping
<1>2. CtlInv(b) => CtlInv(b)'
  <2>1. (FifoFree(b)' <=> FifoFree(b)) /\ (Filling(b)' <=> Filling(b))
    BY DEF FifoFree, Filling
  <2>2. \A w, l : PipeDirty(b, w, l)' <=> PipeDirty(b, w, l)
    BY <1>1 DEF PipeDirty
  <2>3. DirtyWays(b)' <=> DirtyWays(b)
    BY DEF DirtyWays
  <2> QED BY <1>1, <2>1, <2>2, <2>3 DEF CtlInv
<1>3. FifoClean(b) => FifoClean(b)'
  BY DEF FifoClean
<1>4. OpsAsked(b) => OpsAsked(b)'
  BY DEF OpsAsked
<1>5. Active(b)' <=> Active(b)
  BY DEF Active
<1>6. s_attn(b)' <=> s_attn(b)
  <2>1. \A l : MatchStates(b, l)' = MatchStates(b, l)
    BY DEF MatchStates, TagWays
  <2> QED BY <1>5, <2>1 DEF s_attn, s_match, s_match_excl
<1>7. InvDirty(b)' = InvDirty(b)
  BY DEF InvDirty, InvMatches, L1Matches
<1>8. AddrInv(b) => AddrInv(b)'
  BY <1>5, <1>6, <1>7 DEF AddrInv, CopyDone, FifoAddr, SnoopInv
<1>9. CCWait(b)' <=> CCWait(b)
  BY <1>5, <1>6 DEF CCWait, s_fifowait
<1>10. \A w : Gone(b, w)' <=> Gone(b, w)
  BY DEF Gone
<1>11. \A w, l : Claims(b, w, l)' <=> Claims(b, w, l)
  BY <1>1, <1>10 DEF Claims
<1>12. \A q, l : L2Claims(b, q, l)' <=> L2Claims(b, q, l)
  BY DEF L2Claims, Evicted
<1>13. \A l : DirtyAt(b, l)' <=> DirtyAt(b, l)
  BY <1>10 DEF DirtyAt
<1>14. \A l : InFifo(b, l)' <=> InFifo(b, l)
  BY DEF InFifo
<1>15. Reads(b)' <=> Reads(b)
  BY DEF Reads
<1> QED BY <1>2, <1>3, <1>4, <1>8, <1>9, <1>11, <1>12, <1>13, <1>14, <1>15

LEMMA SameData ==
    ASSUME NEW b, Regs(b), LocalInv(b), CPUInv(b), AddrInv(b),
           SameRegs(b), d1'[b] = d1[b], d2'[b] = d2[b], mdat'[b] = mdat[b],
           \A l \in Lines : Sees(b, l, T_STATE_SHARED) => last'[l] = last[l]
    PROVE  CPUInv(b)' /\ AddrInv(b)'
<1>0. CtlInv(b) /\ FifoClean(b) /\ OpsAsked(b) /\ DataRight(b)
  BY DEF CPUInv
<1>1. /\ CtlInv(b)' /\ FifoClean(b)' /\ OpsAsked(b)' /\ AddrInv(b)'
      /\ \A w, l : Claims(b, w, l)' <=> Claims(b, w, l)
      /\ \A q, l : L2Claims(b, q, l)' <=> L2Claims(b, q, l)
      /\ Reads(b)' <=> Reads(b)
  BY <1>0, SameControl
<1>2. WaysRight(b)'
  <2>1. SUFFICES ASSUME NEW w \in Ways, NEW l \in Lines, Claims(b, w, l)
        PROVE  d1'[b][w] = last'[l]
    BY <1>1 DEF WaysRight
  <2>2. d1[b][w] = last[l]
    BY <1>0, <2>1 DEF DataRight, WaysRight
  <2>3. last'[l] = last[l]
    BY <2>1, ClaimSees
  <2> QED BY <2>2, <2>3
<1>3. L2Right(b)'
  <2>1. SUFFICES ASSUME NEW q \in L2Sets, NEW l \in Lines, L2Claims(b, q, l)
        PROVE  d2'[b][q] = last'[l]
    BY <1>1 DEF L2Right
  <2>2. d2[b][q] = last[l]
    BY <1>0, <2>1 DEF DataRight, L2Right
  <2>3. last'[l] = last[l]
    BY <2>1, L2ClaimSees
  <2> QED BY <2>2, <2>3
<1>4. PortRight(b)'
  <2> USE DEF SameRegs
  <2>1. SUFFICES ASSUME mdat[b] # None PROVE Reads(b) /\ mdat[b] = last'[mshr[b].addr]
    BY <1>1 DEF PortRight
  <2>2. Reads(b) /\ mdat[b] = last[mshr[b].addr]
    BY <1>0, <2>1 DEF DataRight, PortRight
  <2>3. PICK l : l = mshr[b].addr /\ l \in Lines
    BY <2>2 DEF Reads, Regs, Fits, FillStates, RefillStates
  <2>4. Sees(b, l, T_STATE_SHARED)
    BY <2>2, <2>3, WonSees DEF Reads
  <2> QED BY <2>2, <2>3, <2>4
<1> QED BY <1>1, <1>2, <1>3, <1>4 DEF CPUInv, DataRight

LEMMA EdgeSame ==
    ASSUME NEW c, NEW moves, Edged(c, moves), NEW b \in CPUs, b # c
    PROVE  SameRegs(b) /\ d1'[b] = d1[b] /\ d2'[b] = d2[b] /\ mdat'[b] = mdat[b]
BY DEF Edged, Edge, OthersKept, SameRegs

LEMMA EdgeRest ==
    ASSUME NEW c, NEW moves, Edged(c, moves), NEW b \in CPUs, b # c
    PROVE  CPUInv(b)' /\ AddrInv(b)'
<1>0. c \in CPUs /\ DataInv /\ Clocked(c, moves) /\ DataStep(c, moves)
  BY DEF Edged
<1>1. Regs(b) /\ LocalInv(b) /\ CPUInv(b) /\ CohInv
  BY <1>0, Typed
<1>2. CtlInv(c) /\ FifoClean(c)
  BY <1>0 DEF DataInv, CPUInv
<1>3. ASSUME NEW l \in Lines, Sees(b, l, T_STATE_SHARED) PROVE last'[l] = last[l]
  <2>1. ~Sees(c, l, T_STATE_EXCLUSIVE)
    BY <1>0, <1>1, <1>3 DEF CohInv, OneWriter
  <2> QED BY <1>0, <1>2, <2>1, LastSeen
<1>4. AddrInv(b)
  BY <1>0 DEF DataInv
<1> QED BY <1>1, <1>3, <1>4, EdgeSame, SameData

LEMMA EdgeMemRight ==
    ASSUME NEW c, NEW moves, Edged(c, moves)
    PROVE  MemRight'
<1>0. /\ c \in CPUs /\ DataInv /\ Clocked(c, moves) /\ DataStep(c, moves) /\ MemStep(c, moves)
      /\ DataType /\ MemRight
  BY DEF Edged, DataInv, DataStep
<1>1. Regs(c) /\ LocalInv(c) /\ CtlInv(c) /\ FifoClean(c)
  BY <1>0 DEF DataInv, CPUInv, Clocked
<1>2. SUFFICES ASSUME NEW l \in Lines
      PROVE  mem'[l] = last'[l] \/ \E b \in CPUs : DirtyAt(b, l)' \/ InFifo(b, l)'
  BY DEF MemRight
<1>3. CASE InFifo(c, l)
  <2>1. ~Flushes(c, moves)
    BY <1>1, <1>3, MovingFree DEF InFifo, Flushes
  <2>2. CASE fifo'[c] = fifo[c]
    BY <1>0, <1>3, <2>2 DEF InFifo
  <2>3. CASE fifo'[c] = None
    <3>1. mem'[l] = fifo[c].val
      BY <1>0, <1>3, <2>3 DEF InFifo, MemStep
    <3>2. fifo[c].val = last[l]
      BY <1>0, <1>3 DEF DataInv, FifoRight
    <3>3. last'[l] = last[l]
      BY <1>0, <1>1, <1>3, LastMoves
    <3> QED BY <3>1, <3>2, <3>3
  <2> QED BY <1>0, <2>1, <2>2, <2>3 DEF MemStep
<1>4. CASE ~InFifo(c, l)
  <2>0. mem'[l] = mem[l]
    BY <1>0, <1>4 DEF MemStep
  <2>1. CASE DirtyAt(c, l)
    <3>1. DirtyAt(c, l)' \/ InFifo(c, l)' \/ (Discards(c) /\ l = inv[c].addr)
      BY <1>0, <1>1, <2>1, DirtyMoves
    <3>2. CASE Discards(c) /\ l = inv[c].addr
      <4>1. last'[l] = mem[l]
        <5>1. ~\E k, v : StoreStep(c, moves, k, v)
          BY <1>1, <3>2 DEF StoreStep, Discards, CtlInv
        <5> QED BY <1>0, <3>2, <5>1 DEF DataStep, QuietStep
      <4> QED BY <2>0, <4>1
    <3> QED BY <1>0, <3>1, <3>2
  <2>2. CASE \E b \in CPUs : b # c /\ (DirtyAt(b, l) \/ InFifo(b, l))
    <3>1. PICK b \in CPUs : b # c /\ (DirtyAt(b, l) \/ InFifo(b, l))
      BY <2>2
    <3>2. (DirtyAt(b, l)' <=> DirtyAt(b, l)) /\ (InFifo(b, l)' <=> InFifo(b, l))
      BY <3>1, EdgeSame, SameControl
    <3> QED BY <3>1, <3>2
  <2>3. CASE mem[l] = last[l] /\ ~DirtyAt(c, l)
    <3>1. CASE last'[l] = last[l]
      BY <2>0, <2>3, <3>1
    <3>2. CASE last'[l] # last[l]
      <4>1. last'[l] = mem[l]
        BY <1>0, <1>1, <2>3, <3>2, LastMoves
      <4> QED BY <2>0, <4>1
    <3> QED BY <3>1, <3>2
  <2> QED BY <1>0, <1>4, <2>1, <2>2, <2>3 DEF MemRight
<1> QED BY <1>3, <1>4

LEMMA EdgeFifoRight ==
    ASSUME NEW c, NEW moves, Edged(c, moves)
    PROVE  FifoRight'
<1>0. /\ c \in CPUs /\ DataInv /\ Clocked(c, moves) /\ DataStep(c, moves) /\ Edge(c) /\ Gains(c)
      /\ DataType /\ FifoRight
  BY DEF Edged, DataInv
<1>1. /\ Regs(c) /\ LocalInv(c) /\ CtlInv(c) /\ FifoClean(c) /\ DataRight(c)
      /\ OneWriter
  BY <1>0, Typed DEF DataInv, CPUInv, CohInv
<1>2. \A b \in CPUs : b # c => \A l, n : Sees(b, l, n)' <=> Sees(b, l, n)
  BY <1>0, EdgeOthers
<1>3. ASSUME NEW l \in Lines, InFifo(c, l)'
      PROVE  /\ fifo'[c].val = last'[l]
             /\ \A b \in CPUs : b # c => ~Sees(b, l, T_STATE_SHARED)'
  <2>1. CASE InFifo(c, l) /\ fifo'[c] = fifo[c] /\ last'[l] = last[l]
    BY <1>0, <1>2, <2>1 DEF FifoRight
  <2>2. CASE Flushes(c, moves) /\ l = oldaddr[c] /\ fifo'[c].val = last'[l]
    <3>1. Sees(c, l, T_STATE_EXCLUSIVE)
      BY <1>1, <2>2, FlushSees
    <3> QED BY <1>0, <1>1, <1>2, <2>2, <3>1 DEF OneWriter
  <2> QED BY <1>0, <1>1, <1>3, <2>1, <2>2, FifoMoves
<1>4. ASSUME NEW b \in CPUs, b # c, NEW l \in Lines, InFifo(b, l)'
      PROVE  /\ fifo'[b].val = last'[l]
             /\ \A a \in CPUs : a # b => ~Sees(a, l, T_STATE_SHARED)'
  <2>1. InFifo(b, l) /\ fifo'[b] = fifo[b]
    BY <1>4, EdgeSame, SameControl DEF SameRegs
  <2>2. fifo[b].val = last[l] /\ \A a \in CPUs : a # b => ~Sees(a, l, T_STATE_SHARED)
    BY <1>0, <2>1 DEF FifoRight
  <2>3. ~Sees(c, l, T_STATE_SHARED)
    BY <1>0, <1>4, <2>2
  <2>4. last'[l] = last[l]
    <3>1. ~Sees(c, l, T_STATE_EXCLUSIVE)
      BY <1>1, <2>3, SeesLower
    <3> QED BY <1>0, <1>1, <3>1, LastSeen
  <2>5. ~Sees(c, l, T_STATE_SHARED)'
    <3>1. SUFFICES ASSUME Sees(c, l, T_STATE_SHARED)' PROVE FALSE
      OBVIOUS
    <3>2. Wins(c, l, T_STATE_SHARED)
      BY <1>0, <2>3, <3>1 DEF Gains, Levels
    <3>3. Answered(c) /\ ~bus.wait /\ l = mshr[c].addr /\ Due(c)
      BY <1>0, <3>2, EdgeDue DEF Wins
    <3> QED BY <1>0, <1>4, <2>1, <3>3 DEF DataInv, FifoGranted
  <2> QED BY <1>2, <2>1, <2>2, <2>4, <2>5
<1> QED BY <1>3, <1>4 DEF FifoRight

LEMMA EdgeWaits ==
    ASSUME NEW c, NEW moves, Edged(c, moves)
    PROVE  WaitDriven' /\ FifoGranted'
<1>0. /\ c \in CPUs /\ DataInv /\ Clocked(c, moves) /\ DataStep(c, moves) /\ Edge(c)
      /\ WaitDriven /\ FifoGranted /\ MemStep(c, moves) /\ DataType'
  BY DEF Edged, DataInv, DataStep
<1>1. Regs(c) /\ LocalInv(c) /\ CtlInv(c) /\ Granted
  BY <1>0, Typed DEF CohInv
<1>2. bus' = bus /\ \A a \in CPUs : Due(a)' <=> Due(a) /\ a # c
  BY <1>0, EdgeDue DEF Edge
<1>3. ASSUME NEW a \in CPUs, Due(a)', CCWait(a)' PROVE bus'.wait
  <2>1. Due(a) /\ a # c
    BY <1>2, <1>3
  <2>2. CCWait(a)
    BY <1>3, <2>1, EdgeSame, SameControl
  <2> QED BY <1>0, <1>2, <2>1, <2>2 DEF WaitDriven
<1>4. ASSUME NEW a \in CPUs, NEW b \in CPUs, Answered(a)', Due(a)', ~bus'.wait, a # b,
             InFifo(b, mshr[a].addr)'
      PROVE  FALSE
  <2>1. Due(a) /\ a # c /\ ~bus.wait
    BY <1>2, <1>4
  <2>2. PICK l : l = mshr[a].addr
    OBVIOUS
  <2>3. mshr'[a] = mshr[a] /\ Answered(a)
    BY <1>4, <2>1, EdgeSame DEF Answered, SameRegs
  <2>4. InFifo(b, l)' /\ ~InFifo(b, l)
    BY <1>0, <1>4, <2>1, <2>2, <2>3 DEF FifoGranted, InFifo
  <2>5. b = c
    BY <2>4, EdgeSame, SameControl
  <2>6. Flushes(c, moves) /\ l = oldaddr[c]
    BY <1>0, <2>4, <2>5 DEF InFifo, MemStep
  <2>7. l \in Lines
    BY <1>0, <2>4, <2>5 DEF InFifo, DataType
  <2>8. Sees(c, l, T_STATE_EXCLUSIVE)
    BY <1>1, <2>6, <2>7, FlushSees
  <2> QED BY <1>0, <1>1, <2>1, <2>2, <2>3, <2>8 DEF Granted, Cleared
<1> QED BY <1>3, <1>4 DEF WaitDriven, FifoGranted

LEMMA EdgeKeepsDataInv ==
    ASSUME DataInv, CohInv', NEW c \in CPUs, CPUClock(c), NO_WRITEBACK_SNOOPING \/ OneDirtyWay
    PROVE  DataInv'
<1>1. PICK moves : Edged(c, moves)
  BY ClockIsEdged
<1>2. ScInv'
  <2>1. CohInv /\ \A b \in CPUs : LinkInv(b)
    BY DEF DataInv, ScInv
  <2> QED BY <2>1, EdgeLinks DEF ScInv
<1>3. CPUInv(c)' /\ AddrInv(c)'
  BY <1>1, EdgeOwn
<1>4. \A b \in CPUs : b # c => CPUInv(b)' /\ AddrInv(b)'
  BY <1>1, EdgeRest
<1>5. MemRight' /\ FifoRight' /\ WaitDriven' /\ FifoGranted'
  BY <1>1, EdgeMemRight, EdgeFifoRight, EdgeWaits
<1> QED BY <1>2, <1>3, <1>4, <1>5 DEF DataInv

(* A step between the edges of the processors leaves their registers alone. *)
AllKept ==
    UNCHANGED <<breq, drv, snp, st, inv, run, oldaddr, tag, rtag, xtag, mshr, bitmap,
                dreq, ireq, link, d1, d2, fifo, mdat, mem, last>>

LEMMA StillData ==
    ASSUME DataInv, CohInv', AllKept
    PROVE  ScInv' /\ (\A c \in CPUs : CPUInv(c)' /\ AddrInv(c)') /\ MemRight' /\ FifoRight'
<1>1. ASSUME NEW c \in CPUs PROVE LinkInv(c)'
  <2>1. LinkInv(c)
    BY Typed
  <2>2. UNCHANGED <<tag, rtag, xtag, dreq, ireq, link, mshr, st>>
    BY DEF AllKept
  <2> QED BY <2>1, <2>2 DEF LinkInv, LinkQuiet, LLWaits, LLAt
<1>2. ASSUME NEW c \in CPUs
      PROVE  /\ CPUInv(c)' /\ AddrInv(c)'
             /\ \A l : (DirtyAt(c, l)' <=> DirtyAt(c, l)) /\ (InFifo(c, l)' <=> InFifo(c, l))
  <2>1. Regs(c) /\ LocalInv(c) /\ CPUInv(c) /\ AddrInv(c)
    BY Typed DEF DataInv
  <2> QED BY <2>1, SameData, SameControl DEF AllKept, SameRegs
<1>3. MemRight'
  BY <1>2 DEF DataInv, MemRight, AllKept
<1>4. \A c \in CPUs : \A l, n : Sees(c, l, n)' <=> Sees(c, l, n)
  BY DEF Sees, AllKept
<1>5. FifoRight'
  BY <1>2, <1>4 DEF DataInv, FifoRight, AllKept
<1> QED BY <1>1, <1>2, <1>3, <1>5 DEF ScInv

(* The wires of the next clock: a block on its way to memory makes the *)
(* request for its line wait. *)
LEMMA SettleFifo ==
    ASSUME DataInv, Settle, DMAs = {}, NAGENTS >= 2, NEW a \in CPUs, NEW b \in CPUs, a # b,
           Answered(a), InFifo(b, mshr[a].addr)
    PROVE  CCWait(b)
<1>0. turn = NAGENTS /\ CohInv /\ Regs(a) /\ AddrInv(b)
  BY WiresSettle, Typed DEF DataInv
<1>1. ~Due(a) /\ ~Due(b)
  BY <1>0, ArbitAssumption, L1Assumption DEF Due, Agents
<1>2. snp[b] = Req(a)
  BY <1>0, <1>1 DEF CohInv, Heard
<1>3. Req(a) # None /\ Req(a).addr = mshr[a].addr
  BY <1>0, DriveIsRequest DEF Req
<1>4. Active(b) /\ snp[b].addr = fifo[b].addr /\ fifo[b] # None
  BY <1>2, <1>3 DEF Active, InFifo
<1>5. s_fifowait(b)
  BY <1>0, <1>4 DEF s_fifowait, AddrInv, FifoAddr
<1> QED BY <1>4, <1>5 DEF CCWait

LEMMA SettleKeepsDataInv ==
    ASSUME DataInv, CohInv', Settle, DMAs = {}, NAGENTS >= 2
    PROVE  DataInv'
<1>1. AllKept
  BY DEF Settle, AllKept, busVars, ccVars, l1Vars, ctlVars, dataVars
<1>2. bus'.wait <=> \E c \in CPUs : CCWait(c)
  BY WiresSettle
<1>3. \A c \in CPUs : CCWait(c)' <=> CCWait(c)
  BY <1>1, SameControl DEF AllKept, SameRegs
<1>4. WaitDriven'
  BY <1>2, <1>3 DEF WaitDriven
<1>5. \A c \in CPUs : (Answered(c)' <=> Answered(c)) /\ \A l : InFifo(c, l)' <=> InFifo(c, l)
  BY <1>1 DEF AllKept, Answered, InFifo
<1>6. FifoGranted'
  <2>1. SUFFICES ASSUME NEW a \in CPUs, NEW b \in CPUs, Answered(a), a # b,
                        InFifo(b, mshr[a].addr)
                 PROVE  bus'.wait
    <3>1. mshr' = mshr
      BY <1>1 DEF AllKept
    <3> QED BY <1>5, <2>1, <3>1 DEF FifoGranted
  <2> QED BY <1>2, <2>1, SettleFifo
<1> QED BY <1>1, <1>4, <1>6, StillData DEF DataInv

LEMMA StutterKeepsDataInv ==
    ASSUME DataInv, CohInv', UNCHANGED vars
    PROVE  DataInv'
<1>1. AllKept /\ UNCHANGED <<turn, bus>>
  BY DEF vars, AllKept, busVars, ccVars, l1Vars, ctlVars, dataVars
<1>2. \A c \in CPUs : CCWait(c)' <=> CCWait(c)
  BY <1>1, SameControl DEF AllKept, SameRegs
<1>3. WaitDriven'
  BY <1>1, <1>2 DEF DataInv, WaitDriven, Due
<1>4. FifoGranted'
  BY <1>1 DEF DataInv, FifoGranted, AllKept, Due, Answered, InFifo
<1> QED BY <1>1, <1>3, <1>4, StillData DEF DataInv

LEMMA StartDataInv == Init => DataInv
<1> SUFFICES ASSUME Init PROVE DataInv
  OBVIOUS
<1> USE StateNumbers
<1>1. CohInv /\ ScInv
  BY StartCohInv, StartLinked DEF ScInv
<1> DEFINE AtReset(c) ==
             /\ st[c] = "s_idle" /\ mshr[c] = NoMshr /\ run[c] = "off" /\ ~bitmap[c]
             /\ inv[c] = NoInv /\ fifo[c] = None /\ mdat[c] = None /\ dreq[c] = None
             /\ tag[c] = EmptyTags /\ rtag[c] = EmptyTags /\ xtag[c] = EmptyTags
             /\ snp[c] = None
<1>2. \A c \in CPUs : AtReset(c)
  BY L1Assumption DEF Init, L1Init, CCInit, BusInit
<1>3. mem = last
  BY DEF Init, CCInit
<1>4. /\ \A w \in Ways : EmptyTags.l1[w] = EmptyEntry
      /\ \A q \in L2Sets : EmptyTags.l2[q] = EmptyEntry
  BY DEF EmptyTags
<1>5. \A l : /\ ~Held(EmptyEntry, l, 1) /\ ~Held(EmptyEntry, l, 3)
             /\ ~Open(EmptyEntry, l, 1) /\ ~Open(EmptyEntry, l, 3)
  <2>1. 1 \in 1..3 /\ 3 \in 1..3
    OBVIOUS
  <2> QED BY <2>1, EmptyHeld DEF Open
<1>6. ~NoMshr.valid /\ NoInv.act # "hit_inv" /\ NoInv.act # "idx_wb_inv"
  BY NoneAssumption DEF NoMshr, NoInv, InvActs, CacheOps
<1>7. ASSUME NEW c \in CPUs PROVE CPUInv(c) /\ AddrInv(c)
  <2>0. AtReset(c)
    BY <1>2, <1>7
  <2>1. CtlInv(c)
    <3>1. TagsSettle(st[c], inv[c].act, tag[c], rtag[c], xtag[c]) /\ Filling(c)
      BY <2>0 DEF TagsSettle, Filling, RefillStates, ReturnStates
    <3>2. \A w \in Ways, l \in Lines : PipeDirty(c, w, l)
      BY <1>4, <1>5, <2>0 DEF PipeDirty
    <3>3. OneCopy(EmptyTags)
      BY <1>1, <2>0 DEF CohInv, LocalInv
    <3>4. DirtyWays(c)
      BY <1>4, <1>5, <1>6, <2>0 DEF DirtyWays
    <3>5. st[c] \notin CopyStates /\ st[c] \notin MissStates \union AskStates
      BY <2>0 DEF CopyStates, MissStates, AskStates
    <3> QED BY <1>6, <2>0, <3>1, <3>2, <3>3, <3>4, <3>5 DEF CtlInv
  <2>2. FifoClean(c) /\ OpsAsked(c) /\ AddrInv(c)
    BY <1>6, <2>0 DEF FifoClean, OpsAsked, AddrInv, CopyDone, FifoAddr, CopyStates
  <2>3. DataRight(c)
    <3>1. \A w \in Ways, l \in Lines : ~Claims(c, w, l)
      BY <1>4, <1>5, <2>0 DEF Claims
    <3>2. \A q \in L2Sets, l \in Lines : ~L2Claims(c, q, l)
      BY <1>4, <1>5, <2>0 DEF L2Claims, Evicted, FillStates
    <3> QED BY <2>0, <3>1, <3>2 DEF DataRight, WaysRight, L2Right, PortRight
  <2> QED BY <2>1, <2>2, <2>3 DEF CPUInv
<1>8. \A c \in CPUs : ~CCWait(c) /\ ~Answered(c) /\ \A l : ~InFifo(c, l)
  BY <1>2 DEF CCWait, Active, Answered, InFifo
<1>9. MemRight /\ FifoRight /\ WaitDriven /\ FifoGranted
  BY <1>3, <1>8 DEF MemRight, FifoRight, WaitDriven, FifoGranted
<1> QED BY <1>1, <1>7, <1>9 DEF DataInv

LEMMA HitClaims ==
    ASSUME NEW c, Regs(c), LocalInv(c), NEW ways, ways \subseteq Ways, NEW r, r.addr \in Lines,
           NEW w \in HitWays(c, ways, r), Dropping(c) => w \notin DWays
    PROVE  w \in Ways /\ Claims(c, w, r.addr)
<1> USE StateNumbers
<1>1. PICK l, s : l = r.addr /\ s = MinState(r.op)
  OBVIOUS
<1>2. s \in {1, 3}
  BY <1>1 DEF MinState
<1>3. CASE w \in TagWays(c, ways, l) /\ cache_state_test_access_ok(xtag[c].l1[w].st, s)
  <2>1. PICK x : x = xtag[c].l1[w]
    OBVIOUS
  <2>2. w \in Ways /\ Holds(x, l) /\ x \in L1Entry
    BY <1>3, <2>1, PipeEntries DEF TagWays
  <2>3. Open(x, l, s)
    BY <1>2, <1>3, <2>1, <2>2, AccessOpen
  <2>4. Open(x, l, 1)
    BY <1>2, <2>2, <2>3, HeldChain
  <2> QED BY <1>1, <2>1, <2>2, <2>4 DEF Claims
<1>4. CASE RestartOK(c, ways, r) /\ w = mshr[c].way
  BY <1>4 DEF RestartOK, Claims
<1> QED BY <1>1, <1>3, <1>4 DEF HitWays

LEMMA DataInvSuffices ==
    ASSUME DataInv, DMAs = {}
    PROVE  DataCurrent
<1>1. LoadsSeeLastStore
  <2> SUFFICES ASSUME NEW c \in CPUs
               PROVE  /\ dreq[c] # None /\ dreq[c].op \in {"rd", "ll"} =>
                           \A w \in HitWays(c, DWays, dreq[c]) : d1[c][w] = last[dreq[c].addr]
                      /\ ireq[c] # None =>
                           \A w \in HitWays(c, IWays, ireq[c]) : d1[c][w] = last[ireq[c].addr]
    BY DEF LoadsSeeLastStore
  <2>0. /\ Regs(c) /\ LocalInv(c) /\ CtlInv(c) /\ DataRight(c)
        /\ dreq[c] \in PortReq \union {None} /\ ireq[c] \in PortReq \union {None}
    BY Typed DEF CPUInv, CohInv, TypeInv, PortType
  <2>1. ASSUME dreq[c] # None, dreq[c].op \in {"rd", "ll"}, NEW w \in HitWays(c, DWays, dreq[c])
        PROVE  d1[c][w] = last[dreq[c].addr]
    <3>1. dreq[c].addr \in Lines /\ DWays \subseteq Ways
      BY <2>0, <2>1 DEF PortReq, Ways
    <3>2. ~Dropping(c)
      BY <2>0, <2>1 DEF CtlInv, Dropping, CacheOpPending, CacheOps
    <3>3. w \in Ways /\ Claims(c, w, dreq[c].addr)
      BY <2>0, <2>1, <3>1, <3>2, HitClaims
    <3> QED BY <2>0, <3>1, <3>3 DEF DataRight, WaysRight
  <2>2. ASSUME ireq[c] # None, NEW w \in HitWays(c, IWays, ireq[c])
        PROVE  d1[c][w] = last[ireq[c].addr]
    <3>1. ireq[c].addr \in Lines /\ IWays \subseteq Ways
      BY <2>0, <2>2 DEF PortReq, Ways
    <3>2. w \notin DWays
      BY <2>2, L1Assumption DEF HitWays, TagWays, RestartOK
    <3>3. w \in Ways /\ Claims(c, w, ireq[c].addr)
      BY <2>0, <2>2, <3>1, <3>2, HitClaims
    <3> QED BY <2>0, <3>1, <3>3 DEF DataRight, WaysRight
  <2> QED BY <2>1, <2>2
<1>2. RefillsSeeLastStore
  BY RefillRight DEF RefillsSeeLastStore
<1>3. DMASeesLastStore
  BY DEF DMASeesLastStore
<1>4. NoStoreLost
  <2> SUFFICES ASSUME NEW l \in Lines, mem[l] # last[l], ~\E c \in CPUs : InFifo(c, l)
               PROVE  \E a \in Agents : \E s \in PermStates(a, l) : s >= T_STATE_EXCLUSIVE
    BY DEF NoStoreLost, InFifo
  <2>1. PICK c \in CPUs : DirtyAt(c, l)
    BY DEF DataInv, MemRight
  <2>2. Regs(c) /\ LocalInv(c) /\ CtlInv(c) /\ c \in Agents
    BY Typed, L1Assumption
  <2>3. Sees(c, l, T_STATE_EXCLUSIVE)
    BY <2>1, <2>2, DirtySees
  <2>4. PICK s \in MatchStates(c, l) : cache_state_unlock(s) >= T_STATE_EXCLUSIVE
    BY <2>2, <2>3, MatchSees
  <2>5. cache_state_unlock(s) \in PermStates(c, l)
    BY <2>4 DEF PermStates
  <2> QED BY <2>2, <2>4, <2>5
<1> QED BY <1>1, <1>2, <1>3, <1>4 DEF DataCurrent

(* Processors alone on the snoop bus, two or more of them: a load, a fetch *)
(* or a refill always finds what the last store to the line wrote, and no *)
(* store is lost between l1.vhd, the FIFO of z48cc.vhd and memory. *)
(* s_fifowait of z48cc.vhd compares a snooped address with mshr.oldaddr, so *)
(* what the FIFO holds must be at that address: it is, unless one index *)
(* invalidation writes back a second dirty way. *)
THEOREM DataCurrentSafety ==
    ASSUME DMAs = {}, NAGENTS >= 2, NO_WRITEBACK_SNOOPING \/ OneDirtyWay
    PROVE  Spec => []DataCurrent
<1>1. CohInv /\ [Next]_vars => CohInv'
  BY NextKeepsCohInv
<1>2. DataInv /\ CohInv' /\ [Next]_vars => DataInv'
  BY EdgeKeepsDataInv, SettleKeepsDataInv, StutterKeepsDataInv DEF Next
<1>3. DataInv => DataCurrent /\ CohInv
  BY DataInvSuffices DEF DataInv, ScInv
<1> QED BY <1>1, <1>2, <1>3, StartDataInv, PTL DEF Spec
=============================================================================
