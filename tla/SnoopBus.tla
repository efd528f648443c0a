----------------------------- MODULE SnoopBus -----------------------------
(***************************************************************************)
(* The snoop bus that joins the cache controllers (z48cc.vhd), the DMA     *)
(* bridges (ccdma.vhd) and the arbiter in prj_de2_115_smp.vhd.             *)
(*                                                                         *)
(* All agents share one clock.  A clock cycle is modelled as a round: the  *)
(* wires of the cycle are held in "bus", each agent in turn takes its      *)
(* clock edge, reading its own registers and those wires only, and the     *)
(* last step of the round clocks the arbiter and settles the wires of the  *)
(* next cycle.  As no agent reads another agent's registers, the order of  *)
(* the round is not observable.                                            *)
(***************************************************************************)
EXTENDS SnoopArbit

CONSTANTS
    Lines           \* cache line addresses

ASSUME LinesAssumption == Lines # {} /\ None \notin Lines

\* A snoop request: s_bus_r_addr with s_bus_r_excln or s_bus_r_sharen low.
Request == [addr : Lines, excl : BOOLEAN]

ASSUME RequestAssumption == None \notin Request

VARIABLES
    turn,           \* whose clock edge is next; NAGENTS is the arbiter
    bus,            \* the wires all agents sample in this clock cycle
    breq,           \* s_bus_reqn low, per agent
    drv,            \* the request an agent drives, or None
    snp             \* s_bus_r_*_r: the request an agent is answering, or None

busVars == <<breq, drv, snp>>

Wires == [wait : BOOLEAN, ack : BOOLEAN, share : BOOLEAN, excl : BOOLEAN,
          r : Request \union {None}, gnt : Agents \union {None}]

BusTypeOK ==
    /\ turn \in 0 .. NAGENTS
    /\ bus \in Wires
    /\ breq \in [Agents -> BOOLEAN]
    /\ drv \in [Agents -> Request \union {None}]
    /\ snp \in [Agents -> Request \union {None}]

BusInit ==
    /\ turn = 0
    /\ breq = [a \in Agents |-> FALSE]
    /\ drv = [a \in Agents |-> None]
    /\ snp = [a \in Agents |-> None]

Requesters == {a \in Agents : breq[a]}

Drivers == {a \in Agents : drv[a] # None}

\* The tri-stated request wires.  OneDriver says that there is nothing to
\* choose from.
RequestWire == IF Drivers = {} THEN None ELSE drv[CHOOSE a \in Drivers : TRUE]

\* s_active of the controllers and r_active of the DMA bridges.
Active(a) == snp[a] # None

\* Slip: an agent does not mask its own request.
SnoopPipeUnmasked(a) ==
    snp' = [snp EXCEPT ![a] = IF bus.wait THEN @ ELSE bus.r]

\* The snoop pipeline register: it follows the bus unless the bus waits, and
\* an agent masks its own request.
SnoopPipe(a) ==
    snp' = [snp EXCEPT ![a] = IF bus.wait THEN @
                              ELSE IF drv[a] = None THEN bus.r
                              ELSE None]

\* Slip: the grant is used although the bus waits.
MayDriveInWait(a) == bus.gnt = a

\* An agent may put its request on the bus in the next clock.
MayDrive(a) == bus.gnt = a /\ ~bus.wait
=============================================================================
