------------------------------- MODULE Z48CC -------------------------------
(***************************************************************************)
(* The cache controller of a processor (z48cc.vhd): the L1/L2 state        *)
(* machine, the block transfers between L1, the victim cache L2, the       *)
(* writeback FIFO and memory, and the answers to snooped requests.         *)
(* Every operator named after a state of the source is what that state     *)
(* does at one clock edge.  A block moves as a whole: it moves at one edge *)
(* of the transfer ("on" to "moved"), the remaining words take any number  *)
(* of clocks ("moved" to "off").                                           *)
(***************************************************************************)
EXTENDS L1Cache

CONSTANTS
    Val,                    \* contents of a line
    NO_WRITEBACK_SNOOPING

ASSUME CCAssumption ==
    /\ Val # {} /\ None \notin Val
    /\ NO_WRITEBACK_SNOOPING \in BOOLEAN

VARIABLES
    st,             \* the controller's state
    inv,            \* the invalidation under way: invact, its address, ...
    run,            \* transfer.run
    oldaddr,        \* mshr.oldaddr
    d1, d2,         \* data of the L1 ways and of the L2 sets
    fifo,           \* dmfifo: the block on its way to memory, or None
    mdat,           \* the block memory returned, or None
    mem,            \* memory
    last            \* what the last store to each line wrote

ctlVars == <<st, inv, run, oldaddr>>
dataVars == <<d1, d2, fifo, mdat, mem, last>>
ccVars == <<l1Vars, ctlVars, dataVars>>

CCStates == {"s_idle", "s_miss1", "s_miss2", "s_miss3", "s_miss4", "s_miss5",
    "s_lsnoop_promote1", "s_lsnoop_promote2", "s_lsnoop_promote3",
    "s_lsnoop_miss1", "s_lsnoop_miss2", "s_lsnoop_miss3",
    "s_inv0", "s_inv1", "s_inv2", "s_inv3", "s_inv4", "s_inv5", "s_inv6",
    "s_inv7", "s_return1", "s_return2", "s_bug"}

InvActs == CacheOps \union {"hit_wb_shar"}

\* None is no invalidation, and no block in the FIFO.
ASSUME NoneAssumption == None \notin InvActs /\ None \notin [addr : Lines, val : Val]

NoInv == [act |-> None, addr |-> None, expl |-> FALSE, way |-> None]

CCTypeOK ==
    /\ st \in [CPUs -> CCStates]
    /\ inv \in [CPUs -> [act : InvActs \union {None}, addr : Lines \union {None},
                         expl : BOOLEAN, way : Ways \union {None}]]
    /\ run \in [CPUs -> {"off", "on", "moved"}]
    /\ oldaddr \in [CPUs -> Lines \union {None}]
    /\ d1 \in [CPUs -> [Ways -> Val]]
    /\ d2 \in [CPUs -> [L2Sets -> Val]]
    /\ fifo \in [CPUs -> [addr : Lines, val : Val] \union {None}]
    /\ mdat \in [CPUs -> Val \union {None}]
    /\ mem \in [Lines -> Val]
    /\ last \in [Lines -> Val]

CCInit ==
    /\ st = [c \in CPUs |-> "s_idle"]
    /\ inv = [c \in CPUs |-> NoInv]
    /\ run = [c \in CPUs |-> "off"]
    /\ oldaddr = [c \in CPUs |-> None]
    /\ \E v \in Val :
         /\ d1 = [c \in CPUs |-> [w \in Ways |-> v]]
         /\ d2 = [c \in CPUs |-> [s \in L2Sets |-> v]]
         /\ mem = [l \in Lines |-> v]
    /\ fifo = [c \in CPUs |-> None]
    /\ mdat = [c \in CPUs |-> None]
    /\ last = mem

-----------------------------------------------------------------------------
(* The snoop answer, from the tags as the snoop port sees them. *)

HasL2 == L2Sets # {}

\* Slip: the snoop does not look at the miss register.
MatchStatesNoMshr(c, l) ==
    {xtag[c].l1[w].st : w \in TagWays(c, Ways, l)}
      \union (IF HasL2 /\ Holds(xtag[c].l2[L2Set[l]], l)
              THEN {xtag[c].l2[L2Set[l]].st} ELSE {})

\* The states in which the snooped line is found: in an L1 way, in L2, or in
\* the miss register once the bus has answered the miss.
MatchStates(c, l) ==
    {xtag[c].l1[w].st : w \in TagWays(c, Ways, l)}
      \union (IF HasL2 /\ Holds(xtag[c].l2[L2Set[l]], l)
              THEN {xtag[c].l2[L2Set[l]].st} ELSE {})
      \union (IF mshr[c].valid /\ mshr[c].snooped /\ mshr[c].addr = l
              THEN {mshr[c].ins} ELSE {})

s_match(c) == MatchStates(c, snp[c].addr) # {}

s_match_excl(c) ==
    \E s \in MatchStates(c, snp[c].addr) :
        cache_state_test_at_least(s, T_STATE_EXCLUSIVE)

s_attn(c) ==
    /\ Active(c)
    /\ s_match(c)
    /\ s_match_excl(c) \/ snp[c].excl

\* Slip: a snoop does not wait for the writeback FIFO.
s_fifowaitNever(c) == FALSE

s_fifowait(c) ==
    /\ fifo[c] # None
    /\ NO_WRITEBACK_SNOOPING \/ snp[c].addr = oldaddr[c]

\* Slip: a share request waits for an agent that holds the line SHARED.
CCWaitOnMatch(c) == Active(c) /\ (s_match(c) \/ s_fifowait(c))

CCWait(c) == Active(c) /\ (s_attn(c) \/ s_fifowait(c))
CCShare(c) == Active(c) /\ s_match(c)
CCExcl(c) == Active(c) /\ s_match_excl(c)

-----------------------------------------------------------------------------
(* Steps of the state machine. *)

\* A failed PARANOID check stops the controller with a machine check.
Goto(c, next, bug) == st' = [st EXCEPT ![c] = IF bug THEN "s_bug" ELSE next]

\* The default of every clock: a request stays on the bus while it waits.
Release(c) == drv' = [drv EXCEPT ![c] = IF bus.wait THEN @ ELSE None]

WriteL1(c, ways, l, s) ==
    tag' = [tag EXCEPT ![c].l1 = [w \in Ways |->
                IF w \in ways THEN MkEntry(l, s) ELSE tag[c].l1[w]]]

L2Entry(c, l) == IF HasL2 THEN tag[c].l2[L2Set[l]] ELSE EmptyEntry

\* Slip: a line in L2 is not found when its state is too low for the miss.
L2HitEnough(c, l) ==
    Holds(L2Entry(c, l), l) /\ cache_state_test_at_least(L2Entry(c, l).st, mshr[c].min)

L2Hit(c, l) == Holds(L2Entry(c, l), l)

\* Slip: the instruction ways are left out of the lookup.
L1MatchesData(c, l) == {w \in DWays : Holds(tag[c].l1[w], l)}

L1Matches(c, l) == {w \in Ways : Holds(tag[c].l1[w], l)}

Dirty(e) == cache_state_unlock(e.st) = T_STATE_MODIFIED

handle_s_attn(c) ==
    /\ mshr' = [mshr EXCEPT ![c] = NoMshr]
    /\ inv' = [inv EXCEPT ![c] =
         [act |-> IF snp[c].excl THEN "hit_wb_inv" ELSE "hit_wb_shar",
          addr |-> snp[c].addr, expl |-> FALSE, way |-> None]]
    /\ Goto(c, "s_inv0", FALSE)

IdleSnoop(c) ==
    /\ s_attn(c)
    /\ handle_s_attn(c)

IdleInv(c) ==
    /\ ~s_attn(c) /\ CacheOpPending(c) /\ fifo[c] = None
    /\ inv' = [inv EXCEPT ![c] = [act |-> dreq[c].op, addr |-> dreq[c].addr,
                                  expl |-> TRUE, way |-> None]]
    /\ Goto(c, "s_inv1", FALSE)
    /\ UNCHANGED mshr

IdleMiss(c, dkill, ikill) ==
    /\ ~s_attn(c) /\ ~CacheOpPending(c) /\ fifo[c] = None
    /\ \E m \in Misses(c, dkill, ikill) : \E w \in MissWays(c, m.ways, m.req.addr) :
         mshr' = [mshr EXCEPT ![c] = [NoMshr EXCEPT
             !.valid = TRUE, !.share = m.share, !.addr = m.req.addr,
             !.cur = CurState(c, m.ways, m.req.addr),
             !.min = MinState(m.req.op), !.ins = MinState(m.req.op), !.way = w]]
    /\ Goto(c, "s_miss1", FALSE)
    /\ UNCHANGED inv

IdleStay(c, dkill, ikill) ==
    /\ ~s_attn(c)
    /\ fifo[c] # None \/ (~CacheOpPending(c) /\ Misses(c, dkill, ikill) = {})
    /\ UNCHANGED <<st, mshr, inv>>

\* oldaddr is read only while the FIFO holds a block, and forgotten after it.
s_idle(c, dkill, ikill) ==
    /\ st[c] = "s_idle"
    /\ \/ IdleSnoop(c) \/ IdleInv(c)
       \/ IdleMiss(c, dkill, ikill) \/ IdleStay(c, dkill, ikill)
    /\ breq' = [breq EXCEPT ![c] = @ /\ Misses(c, dkill, ikill) # {}]
    /\ oldaddr' = [oldaddr EXCEPT ![c] = IF fifo[c] = None THEN None ELSE @]
    /\ Release(c)
    /\ UNCHANGED <<tag, run, bitmap>>

-----------------------------------------------------------------------------
(* A miss: promotion of a line already held, or refill. *)

\* The entry of the way the miss was sent to.
MissEntry(c) == tag[c].l1[mshr[c].way]

\* Slip: the miss is retried without the invalidation.
Miss1CrossRetry(c) ==
    /\ L1Matches(c, mshr[c].addr) \ {mshr[c].way} # {}
    /\ Goto(c, "s_return1", L2Hit(c, mshr[c].addr))
    /\ breq' = [breq EXCEPT ![c] = FALSE]
    /\ UNCHANGED <<mshr, tag, inv>>

\* The same line in two L1 ways: written back and invalidated, then retried.
Miss1Cross(c) ==
    /\ L1Matches(c, mshr[c].addr) \ {mshr[c].way} # {}
    /\ inv' = [inv EXCEPT ![c] = [act |-> "hit_wb_inv", addr |-> mshr[c].addr,
                                  expl |-> FALSE, way |-> None]]
    /\ Goto(c, "s_inv1", L2Hit(c, mshr[c].addr))
    /\ breq' = [breq EXCEPT ![c] = FALSE]
    /\ UNCHANGED <<mshr, tag>>

\* The line is held in a lower state than the access needs.  A SHARED line
\* has to ask the bus, an EXCLUSIVE one becomes MODIFIED at once.
Miss1Promote(c) ==
    LET m == mshr[c]
        bug == \/ m.cur # cache_state_unlock(MissEntry(c).st)
               \/ m.addr # MissEntry(c).addr
               \/ m.min < T_STATE_EXCLUSIVE
               \/ L2Hit(c, m.addr)
    IN /\ L1Matches(c, m.addr) \ {m.way} = {}
       /\ m.cur # T_STATE_INVALID /\ m.cur < m.min
       /\ \/ /\ m.cur < T_STATE_EXCLUSIVE
             /\ breq' = [breq EXCEPT ![c] = TRUE]
             /\ Goto(c, "s_lsnoop_promote1", bug)
             /\ UNCHANGED tag
          \/ /\ m.cur >= T_STATE_EXCLUSIVE
             /\ breq' = [breq EXCEPT ![c] = FALSE]
             /\ WriteL1(c, {m.way}, m.addr, m.min)
             /\ Goto(c, "s_return1", bug)
       /\ UNCHANGED <<mshr, inv>>

\* The state would do; only the lock of an abandoned refill is in the way.
Miss1Unlock(c) ==
    LET m == mshr[c]
        e == MissEntry(c)
        bug == \/ m.cur # cache_state_unlock(e.st)
               \/ m.addr # e.addr
               \/ ~cache_state_test_locked(e.st)
               \/ L2Hit(c, m.addr)
    IN /\ L1Matches(c, m.addr) \ {m.way} = {}
       /\ m.cur # T_STATE_INVALID /\ m.cur >= m.min
       /\ WriteL1(c, {m.way}, e.addr, cache_state_unlock(e.st))
       /\ Goto(c, "s_return1", bug)
       /\ breq' = [breq EXCEPT ![c] = FALSE]
       /\ UNCHANGED <<mshr, inv>>

Locked(e) == [e EXCEPT !.st = cache_state_lock(@)]

\* Refill: the old line is locked in its way until the new one replaces it.
\* A line found in L2 moves to L1 without asking the bus.
Miss1Refill(c) ==
    LET m == mshr[c]
        hit == L2Hit(c, m.addr)
        l2 == L2Entry(c, m.addr)
        ins == IF m.min = T_STATE_MODIFIED /\ l2.st = T_STATE_EXCLUSIVE
               THEN T_STATE_MODIFIED ELSE l2.st
        old == cache_state_unlock(MissEntry(c).st)
    IN /\ L1Matches(c, m.addr) \ {m.way} = {}
       /\ m.cur = T_STATE_INVALID
       /\ \/ /\ hit
             /\ mshr' = [mshr EXCEPT ![c].old = old, ![c].l2hit = TRUE,
                                     ![c].snooped = TRUE, ![c].ins = ins]
             /\ tag' = [tag EXCEPT ![c].l1[m.way] = Locked(@),
                                   ![c].l2[L2Set[m.addr]] = EmptyEntry]
             /\ breq' = [breq EXCEPT ![c] = FALSE]
             /\ Goto(c, "s_miss2", L1Matches(c, m.addr) # {})
          \/ /\ ~hit
             /\ mshr' = [mshr EXCEPT ![c].old = old]
             /\ tag' = [tag EXCEPT ![c].l1[m.way] = Locked(@)]
             /\ breq' = [breq EXCEPT ![c] = TRUE]
             /\ Goto(c, "s_lsnoop_miss1", FALSE)
       /\ UNCHANGED inv

s_miss1(c) ==
    /\ st[c] = "s_miss1"
    /\ Miss1Cross(c) \/ Miss1Promote(c) \/ Miss1Unlock(c) \/ Miss1Refill(c)
    /\ oldaddr' = [oldaddr EXCEPT ![c] = MissEntry(c).addr]
    /\ Release(c)
    /\ UNCHANGED <<run, bitmap>>

\* Both lines in one L2 set after an L2 hit: the victim takes the freed way.
s_miss2(c) ==
    /\ st[c] = "s_miss2"
    /\ LET alias == /\ mshr[c].l2hit /\ oldaddr[c] # None
                    /\ L2Set[mshr[c].addr] = L2Set[oldaddr[c]]
       IN Goto(c, IF HasL2 /\ ~alias THEN "s_miss3" ELSE "s_miss4", FALSE)
    /\ Release(c)
    /\ UNCHANGED <<mshr, inv, tag, breq, oldaddr, run, bitmap>>

s_miss3(c) ==
    /\ st[c] = "s_miss3"
    /\ Goto(c, "s_miss4", FALSE)
    /\ Release(c)
    /\ UNCHANGED <<mshr, inv, tag, breq, oldaddr, run, bitmap>>

\* A dirty victim shares the memory port: it waits until the read is taken.
s_miss4(c, m_halt) ==
    /\ st[c] = "s_miss4"
    /\ LET go == mshr[c].old # T_STATE_MODIFIED \/ ~m_halt
       IN /\ Goto(c, IF go THEN "s_miss5" ELSE "s_miss4", FALSE)
          /\ run' = [run EXCEPT ![c] = IF go THEN "on" ELSE @]
    /\ Release(c)
    /\ UNCHANGED <<mshr, inv, tag, breq, oldaddr, bitmap>>

\* transfer.run, stepped by the data path; early restart sees data that moved.
TransferClock(c, moves) ==
    /\ run' = [run EXCEPT ![c] = IF ~moves THEN @
                                 ELSE IF @ = "on" THEN "moved" ELSE "off"]
    /\ bitmap' = [bitmap EXCEPT ![c] = @ \/ (moves /\ st[c] = "s_miss5")]

\* A dirty victim is written back, so it enters L2 as EXCLUSIVE.
VictimState(c) ==
    IF mshr[c].old = T_STATE_MODIFIED THEN T_STATE_EXCLUSIVE ELSE mshr[c].old

Miss5Done(c) ==
    /\ run[c] = "off"
    /\ LET m == mshr[c]
       IN tag' = [tag EXCEPT
            ![c].l1[m.way] = MkEntry(m.addr, m.ins),
            ![c].l2 = [s \in L2Sets |->
                 IF m.old # T_STATE_INVALID /\ s = L2Set[oldaddr[c]]
                 THEN MkEntry(oldaddr[c], VictimState(c)) ELSE @[s]]]
    /\ Goto(c, "s_return1", FALSE)
    /\ UNCHANGED <<run, bitmap>>

s_miss5(c, moves) ==
    /\ st[c] = "s_miss5"
    /\ \/ Miss5Done(c)
       \/ run[c] # "off" /\ TransferClock(c, moves) /\ UNCHANGED <<st, tag>>
    /\ Release(c)
    /\ UNCHANGED <<mshr, inv, breq, oldaddr>>

-----------------------------------------------------------------------------
(* Asking the bus.  A snoop that needs attention wins over the own request, *)
(* which is then abandoned, even if it is already on the bus.               *)

LSnoopAbandon(c) ==
    /\ s_attn(c)
    /\ handle_s_attn(c)
    /\ Release(c)
    /\ UNCHANGED breq

\* Waiting for the grant, then driving the request from the next clock on.
LSnoopArbitrate(c, excl, next) ==
    /\ ~s_attn(c)
    /\ IF MayDrive(c)
       THEN /\ breq' = [breq EXCEPT ![c] = FALSE]
            /\ drv' = [drv EXCEPT ![c] = [addr |-> mshr[c].addr, excl |-> excl]]
            /\ Goto(c, next, FALSE)
       ELSE Release(c) /\ UNCHANGED <<breq, st>>
    /\ UNCHANGED <<mshr, inv>>

\* The request is on the bus until the answer to the previous one is complete.
LSnoopRequest(c, next) ==
    /\ ~s_attn(c)
    /\ Goto(c, IF bus.wait THEN st[c] ELSE next, FALSE)
    /\ Release(c)
    /\ UNCHANGED <<mshr, inv, breq>>

LSnoopKeep == UNCHANGED <<tag, oldaddr, run, bitmap>>

s_lsnoop_promote1(c) ==
    /\ st[c] = "s_lsnoop_promote1"
    /\ LSnoopAbandon(c) \/ LSnoopArbitrate(c, TRUE, "s_lsnoop_promote2")
    /\ LSnoopKeep

s_lsnoop_promote2(c) ==
    /\ st[c] = "s_lsnoop_promote2"
    /\ LSnoopAbandon(c) \/ LSnoopRequest(c, "s_lsnoop_promote3")
    /\ LSnoopKeep

s_lsnoop_miss1(c) ==
    /\ st[c] = "s_lsnoop_miss1"
    /\ \/ LSnoopAbandon(c)
       \/ LSnoopArbitrate(c, mshr[c].min >= T_STATE_EXCLUSIVE, "s_lsnoop_miss2")
    /\ LSnoopKeep

s_lsnoop_miss2(c) ==
    /\ st[c] = "s_lsnoop_miss2"
    /\ LSnoopAbandon(c) \/ LSnoopRequest(c, "s_lsnoop_miss3")
    /\ LSnoopKeep

\* What the source asserts while its own request is being answered.
AnswerBug(c) == Active(c) \/ s_attn(c) \/ ~bus.ack

\* The others have given the line up: write the tag in its new state.
s_lsnoop_promote3(c) ==
    LET bug == AnswerBug(c) \/ bus.excl
    IN /\ st[c] = "s_lsnoop_promote3"
       /\ \/ /\ bus.wait
             /\ Goto(c, st[c], bug)
             /\ UNCHANGED <<tag, mshr>>
          \/ /\ ~bus.wait
             /\ Goto(c, "s_return1", bug \/ bus.share)
             /\ WriteL1(c, {mshr[c].way}, mshr[c].addr, mshr[c].min)
             /\ mshr' = [mshr EXCEPT ![c].snooped = TRUE]
       /\ Release(c)
       /\ UNCHANGED <<inv, breq, oldaddr, run, bitmap>>

\* A line no other agent holds is taken EXCLUSIVE even if SHARED would do.
AutoPromote(c) ==
    mshr[c].ins < T_STATE_EXCLUSIVE /\ ~bus.share /\ ~mshr[c].share

\* The bus has answered: the line may now be read from memory.
s_lsnoop_miss3(c) ==
    LET m == mshr[c]
    IN /\ st[c] = "s_lsnoop_miss3"
       /\ \/ /\ bus.wait
             /\ Goto(c, st[c], AnswerBug(c))
             /\ UNCHANGED mshr
          \/ /\ ~bus.wait
             /\ Goto(c, "s_miss2",
                     AnswerBug(c) \/ (m.ins >= T_STATE_EXCLUSIVE /\ bus.share))
             /\ mshr' = [mshr EXCEPT ![c].snooped = TRUE,
                            ![c].ins = IF AutoPromote(c) THEN T_STATE_EXCLUSIVE ELSE @]
       /\ Release(c)
       /\ UNCHANGED <<inv, tag, breq, oldaddr, run, bitmap>>

-----------------------------------------------------------------------------
(* Invalidation: for a snoop, for a cache operation, or across the L1 ways. *)

InvMatches(c) ==
    IF inv[c].act = "idx_wb_inv" THEN Ways ELSE L1Matches(c, inv[c].addr)

\* The dirty ways to be written back before their tags go.
InvDirty(c) ==
    IF inv[c].act = "hit_inv" THEN {}
    ELSE {w \in InvMatches(c) : Dirty(tag[c].l1[w])}

InvFinalState(c) ==
    CASE inv[c].act = "hit_wb_shar" -> T_STATE_SHARED
      [] inv[c].act = "hit_wb" -> T_STATE_EXCLUSIVE
      [] OTHER -> T_STATE_INVALID

\* The L2 tags are written in the first pass already.
InvL2(c) ==
    [s \in L2Sets |->
       IF /\ inv[c].act # "hit_wb" /\ s = L2Set[inv[c].addr]
          /\ inv[c].act = "idx_wb_inv" \/ L2Hit(c, inv[c].addr)
       THEN MkEntry(inv[c].addr, InvFinalState(c))
       ELSE tag[c].l2[s]]

trigger_writeback(c) ==
    /\ InvDirty(c) # {}
    /\ inv' = [inv EXCEPT ![c].way =
                CHOOSE w \in InvDirty(c) : \A x \in InvDirty(c) : w <= x]
    /\ tag' = [tag EXCEPT ![c].l2 = InvL2(c)]
    /\ Goto(c, "s_inv2", FALSE)

Inv1Done(c) ==
    /\ InvDirty(c) = {}
    /\ tag' = [tag EXCEPT
         ![c].l1 = [w \in Ways |->
              IF w \in InvMatches(c) /\ inv[c].act # "hit_wb"
              THEN MkEntry(inv[c].addr, InvFinalState(c)) ELSE @[w]],
         ![c].l2 = InvL2(c)]
    /\ Goto(c, "s_return1", FALSE)
    /\ UNCHANGED inv

InvKeep == UNCHANGED <<mshr, breq, bitmap>>

s_inv0(c) ==
    /\ st[c] = "s_inv0"
    /\ Goto(c, "s_inv1", FALSE)
    /\ Release(c) /\ InvKeep
    /\ UNCHANGED <<inv, tag, oldaddr, run>>

s_inv1(c) ==
    /\ st[c] = "s_inv1"
    /\ trigger_writeback(c) \/ Inv1Done(c)
    /\ Release(c) /\ InvKeep
    /\ UNCHANGED <<oldaddr, run>>

\* The line becomes EXCLUSIVE so that no store hits it while it is copied.
s_inv2(c) ==
    LET e == tag[c].l1[inv[c].way]
    IN /\ st[c] = "s_inv2"
       /\ oldaddr' = [oldaddr EXCEPT ![c] = e.addr]
       /\ WriteL1(c, {inv[c].way}, e.addr, T_STATE_EXCLUSIVE)
       /\ Goto(c, "s_inv3", run[c] # "off")
       /\ Release(c) /\ InvKeep
       /\ UNCHANGED <<inv, run>>

\* Two clocks for the tag write to reach the processor's port.
InvDelay(c, from, to) ==
    /\ st[c] = from
    /\ Goto(c, to, FALSE)
    /\ Release(c) /\ InvKeep
    /\ UNCHANGED <<inv, tag, oldaddr, run>>

s_inv3(c) == InvDelay(c, "s_inv3", "s_inv4")
s_inv4(c) == InvDelay(c, "s_inv4", "s_inv5")
s_inv7(c) == InvDelay(c, "s_inv7", "s_inv1")

s_inv5(c) ==
    /\ st[c] = "s_inv5"
    /\ Goto(c, IF fifo[c] = None THEN "s_inv6" ELSE "s_inv5", FALSE)
    /\ run' = [run EXCEPT ![c] = IF fifo[c] = None THEN "on" ELSE @]
    /\ Release(c) /\ InvKeep
    /\ UNCHANGED <<inv, tag, oldaddr>>

s_inv6(c, moves) ==
    /\ st[c] = "s_inv6"
    /\ \/ /\ run[c] = "off"
          /\ WriteL1(c, {inv[c].way}, tag[c].l1[inv[c].way].addr, InvFinalState(c))
          /\ Goto(c, "s_inv7", FALSE)
          /\ UNCHANGED <<run, bitmap>>
       \/ run[c] # "off" /\ TransferClock(c, moves) /\ UNCHANGED <<st, tag>>
    /\ Release(c)
    /\ UNCHANGED <<mshr, breq, inv, oldaddr>>

\* Two clocks for the tags to reach the other ports; mshr guards until then.
s_return1(c) ==
    /\ st[c] = "s_return1"
    /\ Goto(c, "s_return2", FALSE)
    /\ Release(c) /\ InvKeep
    /\ UNCHANGED <<inv, tag, oldaddr, run>>

s_return2(c) ==
    /\ st[c] = "s_return2"
    /\ mshr' = [mshr EXCEPT ![c] = NoMshr]
    /\ inv' = [inv EXCEPT ![c] = NoInv]
    /\ bitmap' = [bitmap EXCEPT ![c] = FALSE]
    /\ Goto(c, "s_idle", FALSE)
    /\ Release(c)
    /\ UNCHANGED <<breq, tag, oldaddr, run>>

\* One clock of the state machine.
StateMachine(c, dkill, ikill, m_halt, moves) ==
    \/ s_idle(c, dkill, ikill)
    \/ s_miss1(c) \/ s_miss2(c) \/ s_miss3(c) \/ s_miss4(c, m_halt) \/ s_miss5(c, moves)
    \/ s_lsnoop_promote1(c) \/ s_lsnoop_promote2(c) \/ s_lsnoop_promote3(c)
    \/ s_lsnoop_miss1(c) \/ s_lsnoop_miss2(c) \/ s_lsnoop_miss3(c)
    \/ s_inv0(c) \/ s_inv1(c) \/ s_inv2(c) \/ s_inv3(c) \/ s_inv4(c)
    \/ s_inv5(c) \/ s_inv6(c, moves) \/ s_inv7(c)
    \/ s_return1(c) \/ s_return2(c)

-----------------------------------------------------------------------------
(* The data path and the memory port. *)

\* m_rd: from the answer of the bus until memory takes the read.
MemRead(c) ==
    /\ st[c] \in {"s_miss2", "s_miss3", "s_miss4", "s_miss5"}
    /\ ~mshr[c].l2hit /\ ~bitmap[c] /\ mdat[c] = None

\* When m_halt matters, memory is free to raise it.
HaltChoices(c) ==
    IF MemRead(c) \/ fifo[c] # None \/ st[c] = "s_miss4" THEN BOOLEAN ELSE {FALSE}

\* A transfer advances when its source has data, at any later clock.
MoveChoices(c) ==
    IF \/ run[c] = "moved"
       \/ run[c] = "on" /\ (st[c] = "s_inv6" \/ mshr[c].l2hit \/ mdat[c] # None)
    THEN BOOLEAN ELSE {FALSE}

Moving(c, moves) == moves /\ run[c] = "on"

\* The upward bus: the refilled way, from L2 or from memory.
Filled(c, moves) ==
    IF Moving(c, moves) /\ st[c] = "s_miss5"
    THEN [d1[c] EXCEPT ![mshr[c].way] =
            IF mshr[c].l2hit THEN d2[c][L2Set[mshr[c].addr]] ELSE mdat[c]]
    ELSE d1[c]

\* The downward bus: the evicted line goes to L2 and, if dirty, to memory.
Victim(c, moves) ==
    LET evict == Moving(c, moves) /\ st[c] = "s_miss5"
        flush == Moving(c, moves) /\ st[c] = "s_inv6"
        way == IF evict THEN mshr[c].way ELSE inv[c].way
    IN /\ d2' = [d2 EXCEPT ![c] = [s \in L2Sets |->
                   IF /\ evict /\ mshr[c].old # T_STATE_INVALID
                      /\ s = L2Set[oldaddr[c]]
                   THEN d1[c][way] ELSE @[s]]]
       /\ fifo' = IF flush \/ (evict /\ mshr[c].old = T_STATE_MODIFIED)
                  THEN [fifo EXCEPT ![c] = [addr |-> oldaddr[c], val |-> d1[c][way]]]
                  ELSE fifo

\* The memory port takes one block, or one read, when it is not halted.
Memory(c, m_halt, moves) ==
    IF fifo[c] # None /\ ~m_halt
    THEN /\ mem' = [mem EXCEPT ![fifo[c].addr] = fifo[c].val]
         /\ fifo' = [fifo EXCEPT ![c] = None]
         /\ UNCHANGED <<d2, mdat>>
    ELSE /\ Victim(c, moves)
         /\ mdat' = [mdat EXCEPT ![c] =
                IF MemRead(c) /\ ~m_halt THEN mem[mshr[c].addr]
                ELSE IF Moving(c, moves) THEN None ELSE @]
         /\ UNCHANGED mem

\* hit_inv drops a dirty line: memory then holds what the line is worth.
Discards(c) ==
    /\ st[c] = "s_inv1" /\ inv[c].act = "hit_inv"
    /\ \E w \in L1Matches(c, inv[c].addr) : Dirty(tag[c].l1[w])

Store(c, dkill, moves, v) ==
    IF Stores(c, dkill)
    THEN /\ d1' = [d1 EXCEPT ![c] = [w \in Ways |->
                     IF w \in HitWays(c, DWays, dreq[c]) THEN v ELSE Filled(c, moves)[w]]]
         /\ last' = [last EXCEPT ![dreq[c].addr] = v]
    ELSE /\ d1' = [d1 EXCEPT ![c] = Filled(c, moves)]
         /\ last' = IF Discards(c) THEN [last EXCEPT ![inv[c].addr] = mem[inv[c].addr]] ELSE last

-----------------------------------------------------------------------------
(* One clock edge of a processor's caches and their controller. *)

KillChoices(r) == IF MayKill /\ r # None THEN BOOLEAN ELSE {FALSE}

CPUEdge(c, m_halt, moves) ==
    \E dkill \in KillChoices(dreq[c]), ikill \in KillChoices(ireq[c]) :
      \E v \in IF Stores(c, dkill) THEN Val ELSE {None} :
        /\ StateMachine(c, dkill, ikill, m_halt, moves)
        /\ \/ DIssue(c)
           \/ DAccess(c, dkill)
           \/ DCacheOp(c, st[c] = "s_return2" /\ inv[c].expl)
        /\ IIssue(c) \/ IAccess(c, ikill)
        /\ LinkClock(c, dkill)
        /\ TagPipe(c)
        /\ SnoopPipe(c)
        /\ Memory(c, m_halt, moves)
        /\ Store(c, dkill, moves, v)
=============================================================================
