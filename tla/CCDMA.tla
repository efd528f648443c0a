------------------------------- MODULE CCDMA -------------------------------
(***************************************************************************)
(* The cache-coherent DMA bridge (ccdma.vhd).  It keeps no data: it holds  *)
(* one line address in a cache state while the master behind it reads or   *)
(* writes memory directly, and gives the state up when it is snooped.      *)
(* Memory takes accesses in order, so a read has its data when it is taken *)
(* (m_halt low) although the answer (m_valid) comes later.                 *)
(***************************************************************************)
EXTENDS Z48CC

CONSTANTS
    DMAs,           \* the agents that are DMA bridges
    MAX_READS       \* reads a bridge may have outstanding at memory

ASSUME DMAAssumption ==
    DMAs \subseteq Agents /\ DMAs \intersect CPUs = {} /\ MAX_READS \in Nat \ {0}

VARIABLES
    dst,            \* the bridge's state
    l_state,        \* the state it holds its line in
    l_addr,         \* the line
    raddr,          \* s_bus_r_addr_out
    sreq,           \* the access the master behind the bridge asks for, or None
    read_count      \* reads memory took and did not answer yet

dmaVars == <<dst, l_state, l_addr, raddr, sreq, read_count>>

DMAStates == {"s_idle", "s_lsnoop1", "s_lsnoop2", "s_lsnoop3", "s_rsnoop1", "s_return1"}

DMATypeOK ==
    /\ dst \in [DMAs -> DMAStates]
    /\ l_state \in [DMAs -> UnlockedStates]
    /\ l_addr \in [DMAs -> Lines \union {None}]
    /\ raddr \in [DMAs -> Lines \union {None}]
    /\ sreq \in [DMAs -> [wr : BOOLEAN, addr : Lines] \union {None}]
    /\ read_count \in [DMAs -> 0 .. MAX_READS]

DMAInit ==
    /\ dst = [d \in DMAs |-> "s_idle"]
    /\ l_state = [d \in DMAs |-> T_STATE_INVALID]
    /\ l_addr = [d \in DMAs |-> None]
    /\ raddr = [d \in DMAs |-> None]
    /\ sreq = [d \in DMAs |-> None]
    /\ read_count = [d \in DMAs |-> 0]

DMAMinState(d) == IF sreq[d].wr THEN T_STATE_EXCLUSIVE ELSE T_STATE_SHARED

\* Slip: only the address of the held line is compared.
l_attnAddress(d) == sreq[d] # None /\ sreq[d].addr # l_addr[d]

\* The held line does not cover the access.
l_attn(d) ==
    /\ sreq[d] # None
    /\ sreq[d].addr # l_addr[d] \/ l_state[d] < DMAMinState(d)

\* Slip: a bridge answers for a line it has given up.
r_matchAddress(d) == snp[d].addr = l_addr[d]

r_match(d) == snp[d].addr = l_addr[d] /\ l_state[d] >= T_STATE_SHARED
r_match_excl(d) == r_match(d) /\ l_state[d] >= T_STATE_EXCLUSIVE
\* Slip: a SHARED line is not given up to an exclusive request.
r_attnExclOnly(d) == Active(d) /\ r_match_excl(d)

r_attn(d) == Active(d) /\ r_match(d) /\ (r_match_excl(d) \/ snp[d].excl)

DMAWait(d) == r_attn(d)
DMAShare(d) == Active(d) /\ r_match(d)
DMAExcl(d) == Active(d) /\ r_match_excl(d)

-----------------------------------------------------------------------------
DMAGoto(d, next) == dst' = [dst EXCEPT ![d] = next]

\* The request wires are driven for one clock only, whatever the bus does.
DMARelease(d) == drv' = [drv EXCEPT ![d] = None]

DMASnooped(d) == r_attn(d) /\ DMAGoto(d, "s_rsnoop1") /\ UNCHANGED breq

DMAIdle(d) ==
    /\ dst[d] = "s_idle"
    /\ \/ DMASnooped(d)
       \/ /\ ~r_attn(d)
          /\ breq' = [breq EXCEPT ![d] = l_attn(d)]
          /\ DMAGoto(d, IF l_attn(d) THEN "s_lsnoop1" ELSE "s_idle")
    /\ DMARelease(d)
    /\ UNCHANGED <<l_state, l_addr, raddr>>

DMALsnoop1(d) ==
    /\ dst[d] = "s_lsnoop1"
    /\ \/ DMASnooped(d) /\ DMARelease(d) /\ UNCHANGED raddr
       \/ /\ ~r_attn(d) /\ MayDrive(d)
          /\ breq' = [breq EXCEPT ![d] = FALSE]
          /\ raddr' = [raddr EXCEPT ![d] = sreq[d].addr]
          /\ drv' = [drv EXCEPT ![d] = [addr |-> sreq[d].addr,
                        excl |-> DMAMinState(d) >= T_STATE_EXCLUSIVE]]
          /\ DMAGoto(d, "s_lsnoop2")
       \/ /\ ~r_attn(d) /\ ~MayDrive(d)
          /\ DMARelease(d)
          /\ UNCHANGED <<dst, breq, raddr>>
    /\ UNCHANGED <<l_state, l_addr>>

DMALsnoop2(d) ==
    /\ dst[d] = "s_lsnoop2"
    /\ \/ DMASnooped(d)
       \/ /\ ~r_attn(d)
          /\ DMAGoto(d, IF bus.wait THEN "s_lsnoop2" ELSE "s_lsnoop3")
          /\ UNCHANGED breq
    /\ DMARelease(d)
    /\ UNCHANGED <<l_state, l_addr, raddr>>

DMALsnoop3(d) ==
    /\ dst[d] = "s_lsnoop3"
    /\ \/ /\ bus.wait
          /\ UNCHANGED <<dst, l_state, l_addr, raddr>>
       \/ /\ ~bus.wait
          /\ l_addr' = [l_addr EXCEPT ![d] = raddr[d]]
          /\ l_state' = [l_state EXCEPT ![d] =
                IF bus.share THEN T_STATE_SHARED ELSE T_STATE_EXCLUSIVE]
          /\ raddr' = [raddr EXCEPT ![d] = None]
          /\ DMAGoto(d, "s_return1")
    /\ DMARelease(d)
    /\ UNCHANGED breq

\* The line is given up once memory has taken the access under way.
DMARsnoop1(d, m_halt) ==
    /\ dst[d] = "s_rsnoop1"
    /\ l_state' = [l_state EXCEPT ![d] =
          IF m_halt THEN @ ELSE IF snp[d].excl THEN T_STATE_INVALID ELSE T_STATE_SHARED]
    /\ DMAGoto(d, IF m_halt THEN "s_rsnoop1" ELSE "s_return1")
    /\ DMARelease(d)
    /\ UNCHANGED <<breq, l_addr, raddr>>

DMAReturn1(d) ==
    /\ dst[d] = "s_return1"
    /\ DMAGoto(d, "s_idle")
    /\ DMARelease(d)
    /\ UNCHANGED <<breq, l_state, l_addr, raddr>>

\* Slip: the limit is noticed one read too late.
read_limitLate(d) == read_count[d] > MAX_READS

\* The register read_limit: the counter is at its end.  It stops writes too.
read_limit(d) == read_count[d] = MAX_READS

\* The master's access goes to memory when the held line covers it.
Taken(d, m_halt) == sreq[d] # None /\ ~l_attn(d) /\ ~read_limit(d) /\ ~m_halt

CountReads(d, m_halt, m_valid) ==
    LET read == Taken(d, m_halt) /\ ~sreq[d].wr IN
    read_count' = [read_count EXCEPT ![d] =
        @ + (IF read THEN 1 ELSE 0) - (IF m_valid THEN 1 ELSE 0)]

DMAAccess(d, m_halt, v) ==
    IF Taken(d, m_halt)
    THEN /\ sreq' = [sreq EXCEPT ![d] = None]
         /\ IF sreq[d].wr
            THEN /\ mem' = [mem EXCEPT ![sreq[d].addr] = v]
                 /\ last' = [last EXCEPT ![sreq[d].addr] = v]
                 /\ link' = MarkLost(d, sreq[d].addr)
            ELSE UNCHANGED <<mem, last, link>>
    ELSE /\ \/ UNCHANGED sreq
            \/ /\ sreq[d] = None
               /\ \E w \in BOOLEAN, l \in Lines :
                    sreq' = [sreq EXCEPT ![d] = [wr |-> w, addr |-> l]]
         /\ UNCHANGED <<mem, last, link>>

\* One clock edge of a bridge.
DMAEdge(d, m_halt, m_valid) ==
    \E v \in IF sreq[d] # None /\ sreq[d].wr THEN Val ELSE {None} :
        /\ \/ DMAIdle(d) \/ DMALsnoop1(d) \/ DMALsnoop2(d) \/ DMALsnoop3(d)
           \/ DMARsnoop1(d, m_halt) \/ DMAReturn1(d)
        /\ DMAAccess(d, m_halt, v)
        /\ CountReads(d, m_halt, m_valid)
        /\ SnoopPipe(d)
=============================================================================
