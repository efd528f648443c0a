------------------------------ MODULE L1Cache ------------------------------
(***************************************************************************)
(* The processor side of the caches (l1.vhd, z48cc_restart.vhd and the     *)
(* miss selection of z48cc_glue.vhd): one set of the L1 data and           *)
(* instruction caches of every processor, the request each port holds, the *)
(* hit and miss tests, early restart and LL/SC.                            *)
(*                                                                         *)
(* Tag RAMs.  A tag write that the controller issues at clock t reaches    *)
(* the RAM at t+1 and the outputs of the other ports (the processor's and  *)
(* the snoop port) at t+2.  tag is what has been issued, rtag the RAM and  *)
(* xtag what the other ports see.                                          *)
(***************************************************************************)
EXTENDS SnoopBus, CacheState

CONSTANTS
    CPUs,           \* the agents that are processors
    DWays, IWays,   \* ways of the data and of the instruction cache
    L2Sets,         \* sets of the direct-mapped victim cache, {} for none
    L2Set,          \* the set a line maps to
    DOps,           \* operations the data port may be asked for
    MayKill,        \* whether the pipeline may kill a pending request
    HINT_ICACHE_SHARE

ReadWriteOps == {"rd", "wr", "ll", "sc"}
CacheOps == {"idx_wb_inv", "hit_inv", "hit_wb_inv", "hit_wb"}

ASSUME L1Assumption ==
    /\ CPUs \subseteq Agents
    /\ DWays \subseteq Nat /\ IWays \subseteq Nat /\ DWays \intersect IWays = {}
    /\ DOps \subseteq ReadWriteOps \union CacheOps
    /\ MayKill \in BOOLEAN /\ HINT_ICACHE_SHARE \in BOOLEAN
    /\ L2Sets # {} => L2Set \in [Lines -> L2Sets]

Ways == DWays \union IWays

Entry == [addr : Lines \union {None}, st : cache_state_t]

EmptyEntry == [addr |-> None, st |-> T_STATE_INVALID]

\* The address of an INVALID entry is never looked at and is not kept.
MkEntry(l, s) == IF s = T_STATE_INVALID THEN EmptyEntry ELSE [addr |-> l, st |-> s]

TagState == [l1 : [Ways -> Entry], l2 : [L2Sets -> Entry]]

Port(op, l) == [op |-> op, addr |-> l]

PortReq == [op : ReadWriteOps \union CacheOps, addr : Lines]

VARIABLES
    tag, rtag, xtag,
    dreq,           \* c_req(1) of the data cache, or None
    ireq,           \* c_req(1) of the instruction cache, or None
    link,           \* LLlocal (v) and LLaddr; wait: the ll that set them still
                    \* waits for its line; lost: a foreign store since
    mshr,           \* the controller's miss register, read by early restart
    bitmap          \* the refill has delivered data (z48cc_restart)

l1Vars == <<tag, rtag, xtag, dreq, ireq, link, mshr, bitmap>>

NoLink == [v |-> FALSE, addr |-> None, wait |-> FALSE, lost |-> FALSE]

NoMshr == [valid |-> FALSE, snooped |-> FALSE, share |-> FALSE, addr |-> None,
           cur |-> T_STATE_INVALID, min |-> T_STATE_INVALID,
           ins |-> T_STATE_INVALID, old |-> T_STATE_INVALID,
           l2hit |-> FALSE, way |-> None]

Mshr == [valid : BOOLEAN, snooped : BOOLEAN, share : BOOLEAN,
         addr : Lines \union {None},
         cur : UnlockedStates, min : UnlockedStates,
         ins : UnlockedStates, old : UnlockedStates,
         l2hit : BOOLEAN, way : Ways \union {None}]

L1TypeOK ==
    /\ tag \in [CPUs -> TagState]
    /\ rtag \in [CPUs -> TagState]
    /\ xtag \in [CPUs -> TagState]
    /\ dreq \in [CPUs -> PortReq \union {None}]
    /\ ireq \in [CPUs -> PortReq \union {None}]
    /\ link \in [CPUs -> [v : BOOLEAN, addr : Lines \union {None},
                       wait : BOOLEAN, lost : BOOLEAN]]
    /\ mshr \in [CPUs -> Mshr]
    /\ bitmap \in [CPUs -> BOOLEAN]

EmptyTags == [l1 |-> [w \in Ways |-> EmptyEntry], l2 |-> [s \in L2Sets |-> EmptyEntry]]

\* After the reset sweep of the controller every entry is INVALID.
L1Init ==
    /\ tag = [c \in CPUs |-> EmptyTags]
    /\ rtag = [c \in CPUs |-> EmptyTags]
    /\ xtag = [c \in CPUs |-> EmptyTags]
    /\ dreq = [c \in CPUs |-> None]
    /\ ireq = [c \in CPUs |-> None]
    /\ link = [c \in CPUs |-> NoLink]
    /\ mshr = [c \in CPUs |-> NoMshr]
    /\ bitmap = [c \in CPUs |-> FALSE]

-----------------------------------------------------------------------------
(* Hits and misses, as the processor's ports see the tags. *)

MinState(op) ==
    IF op \in {"wr", "ll", "sc"} THEN T_STATE_MODIFIED ELSE T_STATE_SHARED

Holds(e, l) == e.addr = l /\ cache_state_unlock(e.st) # T_STATE_INVALID

TagWays(c, ways, l) == {w \in ways : Holds(xtag[c].l1[w], l)}

\* Slip: early restart does not look at the bitmap of delivered data.
RestartNoBitmap(c, ways, r) ==
    /\ mshr[c].valid
    /\ mshr[c].addr = r.addr
    /\ cache_state_test_access_ok(mshr[c].ins, MinState(r.op))
    /\ mshr[c].way \in ways

RestartOK(c, ways, r) ==
    /\ mshr[c].valid
    /\ mshr[c].addr = r.addr
    /\ cache_state_test_access_ok(mshr[c].ins, MinState(r.op))
    /\ bitmap[c] /\ mshr[c].way \in ways

HitWays(c, ways, r) ==
    {w \in TagWays(c, ways, r.addr) :
        cache_state_test_access_ok(xtag[c].l1[w].st, MinState(r.op))}
      \union (IF RestartOK(c, ways, r) THEN {mshr[c].way} ELSE {})

DHit(c) == HitWays(c, DWays, dreq[c]) # {}

IHit(c) == HitWays(c, IWays, ireq[c]) # {}

\* A store conditional never waits for a line: without a hit it fails and
\* raises c_kill.
DMiss(c) == dreq[c] # None /\ dreq[c].op \in {"rd", "wr", "ll"} /\ ~DHit(c)

IMiss(c) == ireq[c] # None /\ ~IHit(c)

CacheOpPending(c) == dreq[c] # None /\ dreq[c].op \in CacheOps

CurState(c, ways, l) ==
    IF TagWays(c, ways, l) = {} THEN T_STATE_INVALID
    ELSE cache_state_unlock(xtag[c].l1[CHOOSE w \in TagWays(c, ways, l) : TRUE].st)

EmptyWays(c, ways) ==
    {w \in ways : cache_state_unlock(xtag[c].l1[w].st) = T_STATE_INVALID}

\* The way a miss is sent to: the way that holds the line, else the last
\* empty way, else whatever the replacement algorithm names.
MissWays(c, ways, l) ==
    IF TagWays(c, ways, l) # {} THEN TagWays(c, ways, l)
    ELSE IF EmptyWays(c, ways) # {}
    THEN {w \in EmptyWays(c, ways) : \A x \in EmptyWays(c, ways) : x <= w}
    ELSE ways

\* The misses the glue can select in this clock (rr_prio toggles freely).  A
\* request that the pipeline kills in the clock asks for nothing (req_issue).
Misses(c, dkill, ikill) ==
    (IF DMiss(c) /\ ~dkill
     THEN {[req |-> dreq[c], ways |-> DWays, share |-> FALSE]} ELSE {})
      \union
    (IF IMiss(c) /\ ~ikill
     THEN {[req |-> ireq[c], ways |-> IWays, share |-> ~HINT_ICACHE_SHARE]} ELSE {})

-----------------------------------------------------------------------------
(* The clock edge of the two ports. *)

ScOK(c) ==
    /\ dreq[c] # None /\ dreq[c].op = "sc"
    /\ link[c].v /\ link[c].addr = dreq[c].addr
    /\ DHit(c)

\* The port's request writes the data RAM at this edge.
Stores(c, kill) ==
    /\ dreq[c] # None /\ ~kill
    /\ \/ dreq[c].op = "wr" /\ DHit(c)
       \/ ScOK(c)

\* What an ll leaves in LLlocal and LLaddr, every clock until it completes.
Linked(c) ==
    [v |-> TRUE, addr |-> dreq[c].addr, wait |-> DMiss(c), lost |-> FALSE]

\* The data port's ll has set the link in an earlier clock and still waits.
LLWaits(c) == link[c].v /\ link[c].wait

\* Slip: only a store conditional clears the link.
LinkNextSticky(c, kill) ==
    IF dreq[c] = None \/ kill THEN link[c]
    ELSE CASE dreq[c].op = "ll" -> Linked(c)
           [] ScOK(c) -> NoLink
           [] OTHER -> link[c]

\* LLlocal and LLaddr.  An ll sets them; any other access clears LLlocal, and
\* so does an sc that succeeds.  c_kill keeps them: a store conditional that
\* fails raises it itself, a branch-likely or an exception annuls an access in
\* its first clock.  Later than that only an exception kills, and its eret
\* clears LLbit: an ll that it interrupts does not leave a link behind.
LinkNext(c, kill) ==
    IF dreq[c] = None THEN link[c]
    ELSE IF kill THEN IF LLWaits(c) THEN NoLink ELSE link[c]
    ELSE CASE dreq[c].op = "ll" -> Linked(c)
           [] dreq[c].op \in {"rd", "wr"} \/ ScOK(c) -> NoLink
           [] OTHER -> link[c]

\* What LL/SC has to be protected from: a store by another agent.
MarkLost(a, l) ==
    [k \in CPUs |-> IF k # a /\ link[k].v /\ link[k].addr = l
                    THEN [link[k] EXCEPT !.lost = TRUE] ELSE link[k]]

LinkClock(c, kill) ==
    LET others == IF Stores(c, kill) THEN MarkLost(c, dreq[c].addr) ELSE link
    IN link' = [others EXCEPT ![c] = LinkNext(c, kill)]

DIssue(c) ==
    /\ dreq[c] = None
    /\ \/ UNCHANGED dreq
       \/ \E op \in DOps, l \in Lines : dreq' = [dreq EXCEPT ![c] = Port(op, l)]

DAccess(c, kill) ==
    /\ dreq[c] # None /\ dreq[c].op \in ReadWriteOps
    /\ dreq' = [dreq EXCEPT ![c] = IF kill \/ ~DMiss(c) THEN None ELSE @]

\* The core holds a cache operation until the controller has finished it.
DCacheOp(c, finished) ==
    /\ CacheOpPending(c)
    /\ dreq' = [dreq EXCEPT ![c] = IF finished THEN None ELSE @]

IIssue(c) ==
    /\ ireq[c] = None
    /\ \/ UNCHANGED ireq
       \/ /\ IWays # {}
          /\ \E l \in Lines : ireq' = [ireq EXCEPT ![c] = Port("rd", l)]

IAccess(c, kill) ==
    /\ ireq[c] # None
    /\ ireq' = [ireq EXCEPT ![c] = IF kill \/ IHit(c) THEN None ELSE @]

\* The other ports see a tag write two clocks after it was issued.
TagPipe(c) ==
    /\ rtag' = [rtag EXCEPT ![c] = tag[c]]
    /\ xtag' = [xtag EXCEPT ![c] = rtag[c]]
=============================================================================
