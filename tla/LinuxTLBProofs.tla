--------------------------- MODULE LinuxTLBProofs ---------------------------
(***************************************************************************)
(* What holds of the two levels of TLB and the kernel's handling of them   *)
(* for every number of entries, sets, pages and translations and every     *)
(* latency of the CAM.  The inductive invariant: what the state machines   *)
(* of jtlb.vhd, utlb.vhd and cop0.vhd know of each other, what a probe has *)
(* found, which sets of the micro TLBs wait to be flushed, and what the    *)
(* kernel knows of the entry it is about to write.                         *)
(***************************************************************************)
EXTENDS LinuxTLB, TLAPS

Flushing == {"s_flush1", "s_flush2", "s_flush3", "s_flush4", "s_flush5", "s_flush6"}
Probing == {"s_probe1", "s_probe2", "s_probe3", "s_probe4", "s_probe5", "s_nack"}
JStates == Flushing \cup Probing \cup {"s_idle", "s_return"}

(* The types, by component, with those TypeOK leaves out. *)
RegType ==
  /\ cop0op \in {"nop", "tlbp", "tlbwi", "tlbwr"} /\ Index \in Indexes
  /\ EntryHi \in Vpn2s /\ EntryLo \in Values \cup {None}
  /\ tlbw \in BOOLEAN /\ tlbp \in BOOLEAN /\ jtlb_index \in Indexes

JType ==
  /\ jstate \in JStates
  /\ ents \in [Indexes -> EntType] /\ ent_addr \in Indexes
  /\ ent_d \in EntType /\ ent_q \in EntType
  /\ who \in Ports \cup {"cop0", None} /\ jvaddr \in Pages \cup {None}
  /\ counter \in 0 .. CAM_LATENCY + 1
  /\ uent \in UentType \cup {None} /\ ack \in Ports \cup {"cop0", None}
  /\ inv \in Sets \cup {None} /\ tlbw_done \in BOOLEAN

UType ==
  /\ set \in [Ports -> [Sets -> UentType \cup {None}]]
  /\ ustate \in [Ports -> {"s_idle", "s_probe", "s_return1", "s_return2"}]
  /\ jtlb_probe \in [Ports -> BOOLEAN] /\ we \in [Ports -> BOOLEAN]
  /\ jtlb_vaddr \in [Ports -> Pages \cup {None}]
  /\ d \in [Ports -> UentType \cup {None}]

SwType ==
  /\ pt \in [MappedVpn2s -> Values] /\ unflushed \subseteq MappedVpn2s
  /\ pc \in {"run", "refill", "probe", "probed", "write"}

Types == RegType /\ JType /\ UType /\ SwType

LEMMA TypesSuffice == Types => TypeOK
BY DEF Types, RegType, JType, UType, SwType, TypeOK

(* The joint TLB serves one request at a time: a write that cop0 asks for,   *)
(* or a probe of a port or of tlbp that waits for it.                        *)
JInv ==
  /\ jstate \in Flushing \cup {"s_idle"} => who = None
  /\ jstate \in Probing => who \in Ports \cup {"cop0"}
  /\ jstate = "s_return" => (tlbw_done <=> who = None) /\ ack = who
  /\ jstate # "s_return" => ~tlbw_done /\ ack = None
  /\ inv # None => jstate \in {"s_flush4", "s_flush5", "s_flush6"} \/ tlbw_done
  /\ who \in Ports => jtlb_probe[who] /\ jvaddr = jtlb_vaddr[who]
  /\ who = "cop0" => cop0op = "tlbp" /\ jvaddr = <<EntryHi, 0>>
  /\ jstate \in Flushing \/ tlbw_done =>
       /\ Writing /\ ent_d = [vpn2 |-> EntryHi, value |-> EntryLo]
       /\ cop0op = "tlbwi" => ent_addr = Index

(* cop0's registered requests are those of the instruction. *)
RequestInv ==
  /\ tlbw => Writing /\ (cop0op = "tlbwi" => jtlb_index = Index)
  /\ tlbp => cop0op = "tlbp"

(* A micro TLB that asks has a page to ask for; what it was given it writes  *)
(* while the joint TLB is idle.                                              *)
UInv ==
  \A p \in Ports :
    /\ jtlb_probe[p] <=> ustate[p] = "s_probe"
    /\ we[p] <=> ustate[p] = "s_return1"
    /\ we[p] => jstate = "s_idle" /\ d[p] \in UentType /\ d[p].page = jtlb_vaddr[p]
    /\ jtlb_probe[p] => jtlb_vaddr[p] \in PagesOf(p)

(* An entry of a micro TLB that says what the joint TLB says. *)
Good(u) ==
  IF ~IsMapped(u.page[1]) THEN ~u.m /\ u.value = Kseg
  ELSE IF u.m THEN Matches(u.page[1]) = {}
  ELSE \E i \in Indexes : ents[i] = [vpn2 |-> u.page[1], value |-> u.value]

(* What a probe has found so far. *)
Answered == jstate \in {"s_probe5", "s_nack"} \/ (jstate = "s_return" /\ who # None)

ProbeInv ==
  /\ who = "cop0" => IsMapped(jvaddr[1])
  /\ jstate \in {"s_probe2", "s_probe3"} =>
       IsMapped(jvaddr[1]) /\ Matches(jvaddr[1]) = {ent_addr}
  /\ jstate = "s_probe4" =>
       IF IsMapped(jvaddr[1])
       THEN Matches(jvaddr[1]) = {ent_addr} /\ ent_q = ents[ent_addr]
       ELSE ent_q.value = Kseg
  /\ Answered => /\ uent \in UentType /\ uent.page = jvaddr /\ Good(uent)
                 /\ who = "cop0" => Matches(jvaddr[1]) \subseteq {ent_addr}

(* The sets of the micro TLBs that are still to be flushed. *)
SetsOf(v) == {Offset(<<v, 0>>), Offset(<<v, 1>>)}
Pending ==
  (IF inv = None THEN {} ELSE {inv}) \cup
  CASE jstate = "s_flush3" -> SetsOf(ent_d.vpn2) \cup SetsOf(ent_q.vpn2)
    [] jstate = "s_flush4" -> {Offset(<<ent_d.vpn2, 1>>)} \cup SetsOf(ent_q.vpn2)
    [] jstate = "s_flush5" -> SetsOf(ent_q.vpn2)
    [] jstate = "s_flush6" -> {Offset(<<ent_q.vpn2, 1>>)}
    [] OTHER -> {}

SetInv ==
  /\ jstate = "s_flush4" => inv = Offset(<<ent_d.vpn2, 0>>)
  /\ \A p \in Ports : we[p] => Good(d[p])
  /\ \A p \in Ports, s \in Sets : set[p][s] # None =>
       Offset(set[p][s].page) = s /\ (Good(set[p][s]) \/ s \in Pending)

(* The kernel's step and the instruction it waits for. *)
KernelInv ==
  /\ pc \in {"run", "refill", "probed"} => cop0op = "nop"
  /\ pc = "probe" => cop0op = "tlbp" /\ EntryHi = vpn2
  /\ pc # "run" => vpn2 \in MappedVpn2s
  /\ pc = "refill" => why = "refill"
  /\ pc \in {"probe", "probed"} => why \in {"flush", "update"}
  /\ pc = "write" =>
       \/ why = "refill" /\ cop0op = "tlbwr" /\ EntryHi = vpn2
       \/ why = "update" /\ cop0op = "tlbwi" /\ EntryHi = vpn2
       \/ why = "flush" /\ cop0op = "tlbwi" /\ EntryHi = UNIQUE_ENTRYHI(Index)
  /\ pc = "write" /\ why # "flush" => EntryLo = pt[vpn2] \/ vpn2 \in unflushed

(* The entry has been written and the instruction has not finished. *)
Written ==
  jstate \in {"s_flush3", "s_flush4", "s_flush5", "s_flush6"} \/ tlbw_done

(* What the kernel knows of the entries for its address. *)
TargetInv ==
  /\ pc = "refill" \/ (pc = "write" /\ why = "refill" /\ ~Written) =>
       Matches(vpn2) = {}
  /\ pc = "probed" \/ (pc = "write" /\ why # "refill" /\ ~Written) =>
       Matches(vpn2) \subseteq {Index}
  /\ pc = "write" /\ why = "flush" /\ Written => Matches(vpn2) = {}

Control == JInv /\ RequestInv /\ UInv /\ KernelInv
Content == ProbeInv /\ SetInv /\ TargetInv /\ NoDoubleMatch /\ NoStaleTranslation

-----------------------------------------------------------------------------
(* Pages, sets and entries                                                 *)

LEMMA Sizes ==
  /\ JTLB_SIZE \in Nat /\ VPN2S \in Nat /\ SETS \in Nat \ {0} /\ CAM_LATENCY \in Nat
  /\ 0 \in Indexes /\ VPN2S \in Vpn2s
  /\ \A i \in Indexes : UNIQUE_ENTRYHI(i) \in Vpn2s /\ ~IsMapped(UNIQUE_ENTRYHI(i))
  /\ \A p \in Ports : PagesOf(p) \subseteq Pages
BY TlbParams, TlbPages DEF Indexes, Vpn2s, UNIQUE_ENTRYHI, IsMapped, PagesOf

LEMMA PageParts ==
  ASSUME NEW page \in Pages
  PROVE  /\ page[1] \in Vpn2s /\ Offset(page) \in Sets
         /\ Offset(page) \in SetsOf(page[1])
<1>1. PICK v \in Vpn2s, h \in Halves : page = <<v, h>>
  BY DEF Pages
<1>2. page[1] = v /\ page[2] = h
  BY <1>1
<1>3. v % SETS \in 0 .. SETS - 1
  BY Sizes DEF Vpn2s
<1>4. Offset(page) = <<v % SETS, h>>
  BY <1>2 DEF Offset
<1>5. h = 0 \/ h = 1
  BY DEF Halves
<1>6. Offset(page) \in SetsOf(v)
  BY <1>1, <1>5 DEF SetsOf
<1> QED BY <1>2, <1>3, <1>4, <1>6 DEF Sets

LEMMA VpnPage ==
  ASSUME NEW v \in Vpn2s, NEW h \in Halves
  PROVE  /\ <<v, h>> \in Pages /\ Offset(<<v, h>>) \in Sets
         /\ <<v, h>>[1] = v
<1>1. <<v, h>> \in Pages
  BY DEF Pages
<1> QED BY <1>1, PageParts

(* A mapped address has at most one entry, so that the CAM's choice is that. *)
LEMMA MatchOne ==
  ASSUME JType, NoDoubleMatch, NEW v \in Vpn2s, IsMapped(v), Matches(v) # {}
  PROVE  /\ (CHOOSE i \in Matches(v) : \A j \in Matches(v) : i <= j) \in Indexes
         /\ Matches(v) = {CHOOSE i \in Matches(v) : \A j \in Matches(v) : i <= j}
<1>1. PICK m \in Indexes : ents[m].vpn2 = v
  BY DEF Matches
<1>2. Matches(v) = {m}
  BY <1>1 DEF NoDoubleMatch, Matches
<1>3. m <= m
  BY Sizes DEF Indexes
<1> QED BY <1>2, <1>3

(* The page a probe is about. *)
LEMMA ProbePage ==
  ASSUME RegType, UType, JInv, UInv, who # None, JType
  PROVE  jvaddr \in Pages /\ jvaddr[1] \in Vpn2s
<1>1. CASE who = "cop0"
  BY <1>1, VpnPage DEF RegType, JInv, Halves
<1>2. CASE who \in Ports
  <2>1. jvaddr \in Pages
    BY <1>2, Sizes DEF JInv, UInv
  <2> QED BY <2>1, PageParts
<1> QED BY <1>1, <1>2 DEF JType

-----------------------------------------------------------------------------
(* A clock: the types                                                      *)

LEMMA RegStep ==
  ASSUME RegType, JType, Cop0Clock
  PROVE  RegType'
<1>1. Index' \in Indexes
  BY Sizes DEF Cop0Clock, RegType, JType
<1>2. EntryHi' \in Vpn2s /\ EntryLo' \in Values \cup {None}
  BY Sizes DEF Cop0Clock, RegType
<1>3. jtlb_index' \in Indexes
  BY Sizes DEF Cop0Clock, RegType
<1>4. cop0op' \in {"nop", "tlbp", "tlbwi", "tlbwr"}
  BY DEF Cop0Clock, RegType
<1>5. tlbw' \in BOOLEAN
  BY Zenon DEF Cop0Clock
<1>6. tlbp' \in BOOLEAN
  BY Zenon DEF Cop0Clock
<1> QED BY <1>1, <1>2, <1>3, <1>4, <1>5, <1>6 DEF RegType

LEMMA FlushType ==
  ASSUME JType, NEW v \in Vpn2s, NEW h \in Halves, NEW n \in JStates, Flush(v, h, n),
         tlbw_done' \in BOOLEAN
  PROVE  JType'
<1>1. inv' \in Sets
  BY VpnPage DEF Flush
<1> QED BY <1>1 DEF Flush, Goto, JType

LEMMA JtlbType ==
  ASSUME Types, JInv, UInv, ProbeInv, NoDoubleMatch, JtlbClock
  PROVE  JType'
<1> USE DEF Types
<1>q. ASSUME Quiet PROVE inv' \in Sets \cup {None} /\ tlbw_done' \in BOOLEAN
                         /\ ack' \in Ports \cup {"cop0", None}
  BY <1>q DEF Quiet
<1>c. CAM_LATENCY + 1 \in 0 .. CAM_LATENCY + 1 /\ 0 \in 0 .. CAM_LATENCY + 1
  BY Sizes
<1>i. Invalid \in EntType
  BY Sizes DEF Invalid, EntType
<1>1. CASE JIdle
  <2>1. ent_addr' \in Indexes
    BY <1>1 DEF JIdle, StartProbe, RegType, JType
  <2>2. ent_d' \in EntType
    BY <1>1 DEF JIdle, StartProbe, RegType, JType, EntType
  <2>3. who' \in Ports \cup {"cop0", None}
    BY <1>1 DEF JIdle, StartProbe, JType, Ports
  <2>4. jvaddr' \in Pages \cup {None}
    <3>1. <<EntryHi, 0>> \in Pages
      BY VpnPage DEF RegType, Halves
    <3> QED BY <1>1, <3>1 DEF JIdle, StartProbe, JType, UType, Ports
  <2>5. jstate' \in JStates
    BY <1>1 DEF JIdle, StartProbe, Goto, JType, JStates, Flushing, Probing
  <2>6. counter' \in 0 .. CAM_LATENCY + 1
    BY <1>1, <1>c DEF JIdle
  <2>7. UNCHANGED <<ents, ent_q, uent>> /\ Quiet
    BY <1>1 DEF JIdle
  <2> QED BY <1>q, <2>1, <2>2, <2>3, <2>4, <2>5, <2>6, <2>7 DEF JType
<1>2. CASE JWait
  BY <1>2, <1>q DEF JWait, Goto, JType, JStates, Flushing, Probing
<1>3. CASE JReturn
  BY <1>3, <1>q, <1>c, <1>i DEF JReturn, Goto, JType, JStates
<1>4. CASE JFlush2
  BY <1>4, <1>q DEF JFlush2, Goto, JType, JStates, Flushing
<1>5. CASE JFlush
  <2>1. ent_d.vpn2 \in Vpn2s /\ ent_q.vpn2 \in Vpn2s
    BY DEF JType, EntType
  <2>2. 0 \in Halves /\ 1 \in Halves
    BY DEF Halves
  <2>3. {"s_flush4", "s_flush5", "s_flush6", "s_return"} \subseteq JStates
    BY DEF JStates, Flushing
  <2>4. tlbw_done' \in BOOLEAN
    BY Zenon, <1>5 DEF JFlush
  <2>5. \E v \in {ent_d.vpn2, ent_q.vpn2}, h \in Halves,
           n \in {"s_flush4", "s_flush5", "s_flush6", "s_return"} : Flush(v, h, n)
    BY <1>5, <2>2 DEF JFlush
  <2> QED BY <2>1, <2>2, <2>3, <2>4, <2>5, FlushType
<1>6. CASE JProbe1
  <2>1. jvaddr \in Pages /\ jvaddr[1] \in Vpn2s
    BY <1>6, ProbePage, NoneParam DEF JProbe1, JInv, Probing
  <2>2. who = "cop0" => IsMapped(jvaddr[1])
    BY DEF ProbeInv
  <2>3. ent_addr' \in Indexes
    BY <1>6, <2>1, <2>2, MatchOne DEF JProbe1, JType
  <2>4. ent_q' \in EntType
    BY <1>6, <2>1 DEF JProbe1, JType, EntType
  <2>5. uent' \in UentType \cup {None}
    <3>1. MissUent(jvaddr) \in UentType
      BY <2>1 DEF UentType, MissUent
    <3> QED BY <1>6, <3>1 DEF JProbe1, JType
  <2>6. jstate' \in JStates
    BY <1>6 DEF JProbe1, Goto, JType, JStates, Probing
  <2>7. counter' \in 0 .. CAM_LATENCY + 1
    BY <1>6, Sizes DEF JProbe1, JType
  <2>8. UNCHANGED <<ents, who, jvaddr, ent_d>> /\ Quiet
    BY <1>6 DEF JProbe1
  <2> QED BY <1>q, <2>3, <2>4, <2>5, <2>6, <2>7, <2>8 DEF JType
<1>7. CASE JProbe3
  BY <1>7, <1>q DEF JProbe3, Goto, JType, JStates, Probing
<1>8. CASE JProbe4
  <2>1. jvaddr \in Pages
    BY <1>8, ProbePage, NoneParam DEF JProbe4, JInv, Probing
  <2>2. uent' \in UentType
    BY <1>8, <2>1 DEF JProbe4, Uent, UentType, EntType, JType
  <2> QED BY <1>8, <1>q, <2>2 DEF JProbe4, Goto, JType, JStates, Probing
<1>9. CASE JAnswer
  BY <1>9 DEF JAnswer, Goto, JType, JStates
<1> QED BY <1>1, <1>2, <1>3, <1>4, <1>5, <1>6, <1>7, <1>8, <1>9 DEF JtlbClock

(* What a micro TLB may stall for. *)
LEMMA AccessPage ==
  ASSUME NEW p \in Ports, NEW x \in Stalls(p)
  PROVE  x = None \/ (x \in PagesOf(p) /\ x \in Pages /\ ustate[p] = "s_idle")
BY Sizes DEF Stalls

(* The access of a clock: of each port a page it may stall for. *)
Access(a) ==
  /\ a \in [Ports -> Pages \cup {None}]
  /\ \A p \in Ports : a[p] # None => a[p] \in PagesOf(p) /\ ustate[p] = "s_idle"

LEMMA ClockAccess ==
  ASSUME TlbClock
  PROVE  \E a : Access(a) /\ UtlbClock(a)
<1>1. PICK i \in Stalls("itlb"), dt \in Stalls("dtlb") :
         UtlbClock([p \in Ports |-> IF p = "itlb" THEN i ELSE dt])
  BY DEF TlbClock
<1>2. \A p \in Ports : p = "itlb" \/ p = "dtlb"
  BY DEF Ports
<1>3. "itlb" \in Ports /\ "dtlb" \in Ports
  BY DEF Ports
<1>4. i = None \/ (i \in PagesOf("itlb") /\ i \in Pages /\ ustate["itlb"] = "s_idle")
  BY <1>3, AccessPage
<1>5. dt = None \/ (dt \in PagesOf("dtlb") /\ dt \in Pages /\ ustate["dtlb"] = "s_idle")
  BY <1>3, AccessPage
<1>6. Access([p \in Ports |-> IF p = "itlb" THEN i ELSE dt])
  BY <1>2, <1>4, <1>5 DEF Access
<1> QED BY <1>1, <1>6

LEMMA UtlbType ==
  ASSUME Types, NEW a, Access(a), UtlbClock(a), UInv
  PROVE  UType'
<1> USE DEF Types
<1>0. \A page \in Pages : Offset(page) \in Sets
  BY PageParts
<1>1. set' \in [Ports -> [Sets -> UentType \cup {None}]]
  <2>1. ASSUME NEW p \in Ports
        PROVE  /\ [set[p] EXCEPT ![inv] = None] \in [Sets -> UentType \cup {None}]
               /\ we[p] => [set[p] EXCEPT ![Offset(jtlb_vaddr[p])] = d[p]]
                             \in [Sets -> UentType \cup {None}]
               /\ set[p] \in [Sets -> UentType \cup {None}]
    <3>1. set[p] \in [Sets -> UentType \cup {None}] /\ d[p] \in UentType \cup {None}
      BY <2>1 DEF UType
    <3> QED BY <3>1
  <2> QED BY <2>1 DEF UtlbClock
<1>2. we' \in [Ports -> BOOLEAN]
  <2> DEFINE taken == {p \in Ports : ustate[p] = "s_probe" /\ ack = p}
  <2>1. we' = [p \in Ports |-> p \in taken]
    BY DEF UtlbClock
  <2>2. \A p \in Ports : (p \in taken) \in BOOLEAN
    OBVIOUS
  <2> HIDE DEF taken
  <2> QED BY <2>1, <2>2
<1>3. d' \in [Ports -> UentType \cup {None}]
  <2>1. ASSUME NEW p \in Ports PROVE ustate[p] = "s_probe" /\ ack = p => uent \in UentType \cup {None}
    BY DEF JType
  <2> QED BY <2>1 DEF UtlbClock
<1>4. jtlb_vaddr' \in [Ports -> Pages \cup {None}]
  BY DEF UtlbClock, Access, UType
<1>5. jtlb_probe' \in [Ports -> BOOLEAN]
  BY Zenon DEF UtlbClock
<1>6. ustate' \in [Ports -> {"s_idle", "s_probe", "s_return1", "s_return2"}]
  <2> DEFINE N(p) == CASE ustate[p] = "s_idle" /\ a[p] # None -> "s_probe"
                       [] ustate[p] = "s_probe" /\ ack = p -> "s_return1"
                       [] ustate[p] = "s_return1" -> "s_return2"
                       [] ustate[p] = "s_return2" -> "s_idle"
                       [] OTHER -> ustate[p]
  <2>1. \A p \in Ports : N(p) \in {"s_idle", "s_probe", "s_return1", "s_return2"}
    BY DEF UType
  <2>2. ustate' = [p \in Ports |-> N(p)]
    BY DEF UtlbClock
  <2> HIDE DEF N
  <2> QED BY <2>1, <2>2
<1> QED BY <1>1, <1>2, <1>3, <1>4, <1>5, <1>6 DEF UType

-----------------------------------------------------------------------------
(* A clock: who waits for whom                                             *)

(* A port starts to ask for a page, is answered, still waits, writes what it *)
(* was given, or does nothing.                                               *)
PortStep(p, a) ==
  \/ /\ ustate[p] = "s_idle" /\ a[p] # None /\ ustate'[p] = "s_probe"
     /\ jtlb_probe'[p] /\ ~we'[p] /\ jtlb_vaddr'[p] = a[p]
  \/ /\ ustate[p] = "s_probe" /\ ack = p /\ ustate'[p] = "s_return1"
     /\ ~jtlb_probe'[p] /\ we'[p] /\ d'[p] = uent /\ jtlb_vaddr'[p] = jtlb_vaddr[p]
  \/ /\ ustate[p] = "s_probe" /\ ack # p /\ ustate'[p] = "s_probe"
     /\ jtlb_probe'[p] /\ ~we'[p] /\ jtlb_vaddr'[p] = jtlb_vaddr[p]
  \/ /\ ustate[p] = "s_return1" /\ ustate'[p] = "s_return2" /\ ~jtlb_probe'[p] /\ ~we'[p]
  \/ /\ ustate[p] \in {"s_idle", "s_return2"} /\ ustate'[p] = "s_idle"
     /\ ~jtlb_probe'[p] /\ ~we'[p]

LEMMA PortSteps ==
  ASSUME UType, UInv, NEW a, Access(a), UtlbClock(a), NEW p \in Ports
  PROVE  PortStep(p, a)
<1>0. /\ jtlb_probe[p] <=> ustate[p] = "s_probe"
      /\ we[p] <=> ustate[p] = "s_return1"
  BY DEF UInv
<1> DEFINE start == ustate[p] = "s_idle" /\ a[p] # None
           taken == ustate[p] = "s_probe" /\ ack = p
<1>1. we'[p] <=> taken
  BY DEF UtlbClock
<1>2. d'[p] = IF taken THEN uent ELSE None
  BY DEF UtlbClock
<1>3. jtlb_vaddr'[p] = IF start THEN a[p] ELSE IF we[p] THEN None ELSE jtlb_vaddr[p]
  BY DEF UtlbClock
<1>4. jtlb_probe'[p] <=> (jtlb_probe[p] \/ start) /\ ~taken
  BY DEF UtlbClock
<1>5. ustate'[p] = CASE start -> "s_probe"
                     [] taken -> "s_return1"
                     [] ustate[p] = "s_return1" -> "s_return2"
                     [] ustate[p] = "s_return2" -> "s_idle"
                     [] OTHER -> ustate[p]
  BY DEF UtlbClock
<1>6. ustate[p] \in {"s_idle", "s_probe", "s_return1", "s_return2"}
  BY DEF UType
<1>7. CASE start
  BY <1>0, <1>1, <1>3, <1>4, <1>5, <1>7 DEF PortStep
<1>8. CASE taken
  BY <1>0, <1>1, <1>2, <1>3, <1>4, <1>5, <1>8 DEF PortStep
<1>9. CASE ~start /\ ~taken
  <2>1. CASE ustate[p] = "s_probe"
    BY <1>0, <1>1, <1>3, <1>4, <1>5, <1>9, <2>1 DEF PortStep
  <2>2. CASE ustate[p] = "s_return1"
    BY <1>0, <1>1, <1>4, <1>5, <1>9, <2>2 DEF PortStep
  <2>3. CASE ustate[p] \in {"s_idle", "s_return2"}
    BY <1>0, <1>1, <1>4, <1>5, <1>9, <2>3 DEF PortStep
  <2> QED BY <1>6, <2>1, <2>2, <2>3
<1> QED BY <1>7, <1>8, <1>9

(* The clock after an answer the joint TLB is idle. *)
LEMMA AckStep ==
  ASSUME JInv, JtlbClock, jstate = "s_return"
  PROVE  jstate' = "s_idle" /\ who' = None
<1>1. JReturn
  BY DEF JtlbClock, JIdle, JWait, JFlush2, JFlush, JProbe1, JProbe3, JProbe4, JAnswer
<1> QED BY <1>1 DEF JReturn, Goto

LEMMA PortInv ==
  ASSUME Types, JInv, UInv, ProbeInv, NEW a, Access(a), UtlbClock(a), JtlbClock
  PROVE  UInv'
<1> SUFFICES ASSUME NEW p \in Ports
             PROVE  /\ jtlb_probe'[p] <=> ustate'[p] = "s_probe"
                    /\ we'[p] <=> ustate'[p] = "s_return1"
                    /\ we'[p] => jstate' = "s_idle" /\ d'[p] \in UentType
                                 /\ d'[p].page = jtlb_vaddr'[p]
                    /\ jtlb_probe'[p] => jtlb_vaddr'[p] \in PagesOf(p)
  BY DEF UInv, PagesOf
<1>1. PortStep(p, a)
  BY PortSteps DEF Types
<1>2. p # None /\ (jtlb_probe[p] <=> ustate[p] = "s_probe")
      /\ (jtlb_probe[p] => jtlb_vaddr[p] \in PagesOf(p))
  BY NoneParam DEF UInv
<1>3. ASSUME ustate[p] = "s_probe", ack = p
      PROVE  jstate' = "s_idle" /\ uent \in UentType /\ uent.page = jtlb_vaddr[p]
  <2>1. jstate = "s_return" /\ who = p
    BY <1>2, <1>3 DEF JInv
  <2>2. Answered
    BY <1>2, <2>1 DEF Answered
  <2>3. uent \in UentType /\ uent.page = jvaddr
    BY <2>2 DEF ProbeInv
  <2>4. jvaddr = jtlb_vaddr[p]
    BY <2>1 DEF JInv
  <2> QED BY <2>1, <2>3, <2>4, AckStep
<1>4. a[p] # None => a[p] \in PagesOf(p)
  BY DEF Access
<1> QED BY <1>1, <1>2, <1>3, <1>4 DEF PortStep

LEMMA RequestStep ==
  ASSUME RequestInv, Cop0Clock
  PROVE  RequestInv'
BY DEF RequestInv, Cop0Clock, Finishes, Writing, cop_ack

LEMMA KernelClock ==
  ASSUME KernelInv, SwType, Clock
  PROVE  KernelInv' /\ SwType'
<1>1. CASE Finishes
  <2>1. cop0op # "nop" /\ cop0op' = "nop"
    BY <1>1 DEF Clock, TlbClock, Cop0Clock, Finishes, Writing
  <2>2. pc \in {"probe", "write"}
    BY <2>1 DEF KernelInv, SwType
  <2>3. pt' = pt /\ unflushed' \subseteq unflushed
    BY DEF Clock
  <2>4. CASE pc = "probe"
    <3>1. pc' = "probed" /\ vpn2' = vpn2 /\ why' = why
      BY <1>1, <2>4 DEF Clock
    <3> QED BY <2>1, <2>3, <2>4, <3>1 DEF KernelInv, SwType, MappedVpn2s
  <2>5. CASE pc = "write"
    <3>1. pc' = "run"
      BY <1>1, <2>5 DEF Clock
    <3> QED BY <2>1, <2>3, <3>1 DEF KernelInv, SwType, MappedVpn2s
  <2> QED BY <2>2, <2>4, <2>5
<1>2. CASE ~Finishes
  <2>1. /\ cop0op' = cop0op /\ Index' = Index /\ EntryHi' = EntryHi /\ EntryLo' = EntryLo
        /\ pc' = pc /\ pt' = pt /\ unflushed' = unflushed
        /\ pc # "run" => vpn2' = vpn2 /\ why' = why
    BY <1>2 DEF Clock, TlbClock, Cop0Clock, Finishes
  <2>2. CASE pc = "run"
    BY <2>1, <2>2 DEF KernelInv, SwType, MappedVpn2s
  <2>3. CASE pc # "run"
    BY <2>1, <2>3 DEF KernelInv, SwType, MappedVpn2s, UNIQUE_ENTRYHI
  <2> QED BY <2>2, <2>3
<1> QED BY <1>1, <1>2

(* Who asks keeps asking until the clock after the answer. *)
Waits ==
  /\ cop0op' = cop0op /\ Index' = Index /\ EntryHi' = EntryHi /\ EntryLo' = EntryLo
  /\ \A p \in Ports : jtlb_probe[p] => jtlb_probe'[p] /\ jtlb_vaddr'[p] = jtlb_vaddr[p]

LEMMA RequestsWait ==
  ASSUME Types, JInv, UInv, Cop0Clock, NEW a, Access(a), UtlbClock(a), jstate # "s_return"
  PROVE  Waits
<1>1. ~tlbw_done /\ ack = None
  BY DEF JInv
<1>2. ~Finishes
  BY <1>1, NoneParam DEF Finishes, cop_ack
<1>3. cop0op' = cop0op /\ Index' = Index /\ EntryHi' = EntryHi /\ EntryLo' = EntryLo
  BY <1>2 DEF Cop0Clock, Finishes
<1>4. ASSUME NEW p \in Ports, jtlb_probe[p]
      PROVE  jtlb_probe'[p] /\ jtlb_vaddr'[p] = jtlb_vaddr[p]
  <2>1. PortStep(p, a)
    BY PortSteps DEF Types
  <2>2. ustate[p] = "s_probe" /\ ack # p
    BY <1>1, <1>4, NoneParam DEF UInv
  <2> QED BY <2>1, <2>2 DEF PortStep
<1> QED BY <1>3, <1>4 DEF Waits

LEMMA JInvStep ==
  ASSUME Types, JInv, RequestInv, UInv, Cop0Clock, JtlbClock, NEW a, Access(a), UtlbClock(a)
  PROVE  JInv'
<1>n. None \notin Ports /\ None # "cop0" /\ "cop0" \notin Ports
  BY NoneParam DEF Ports
<1>w. jstate # "s_return" => Waits
  BY RequestsWait
<1>1. CASE JIdle
  <2>0. Waits /\ who = None /\ ~tlbw_done /\ ack = None
    BY <1>1, <1>w DEF JIdle, JInv
  <2>1. CASE tlbw /\ jstate' = "s_flush1"
    <3>1. /\ who' = None /\ Quiet
          /\ ent_addr' = jtlb_index /\ ent_d' = [vpn2 |-> EntryHi, value |-> EntryLo]
      BY <1>1, <2>0, <2>1 DEF JIdle
    <3>2. Writing /\ (cop0op = "tlbwi" => jtlb_index = Index)
      BY <2>1 DEF RequestInv
    <3> QED BY <1>n, <2>0, <2>1, <3>1, <3>2
            DEF JInv, Waits, Writing, Quiet, Flushing, Probing
  <2>2. CASE jstate' = "s_idle" /\ UNCHANGED who
    BY <1>1, <1>n, <2>0, <2>2 DEF JInv, JIdle, Quiet, Flushing, Probing
  <2>3. CASE ~tlbw /\ tlbp /\ StartProbe("cop0", <<EntryHi, 0>>)
    <3>1. cop0op = "tlbp"
      BY <2>3 DEF RequestInv
    <3> QED BY <1>1, <1>n, <2>0, <2>3, <3>1
            DEF JInv, JIdle, Waits, Quiet, StartProbe, Goto, Flushing, Probing
  <2>4. ASSUME NEW p \in Ports, jtlb_probe[p], StartProbe(p, jtlb_vaddr[p])
        PROVE  JInv'
    BY <1>1, <1>n, <2>0, <2>4
       DEF JInv, JIdle, Waits, Quiet, StartProbe, Goto, Flushing, Probing
  <2>5. "dtlb" \in Ports /\ "itlb" \in Ports
    BY DEF Ports
  <2> QED BY <1>1, <2>1, <2>2, <2>3, <2>4, <2>5 DEF JIdle, Goto
<1>2. CASE JWait
  <2>1. Waits
    BY <1>2, <1>w DEF JWait
  <2> QED BY <1>2, <1>n, <2>1 DEF JWait, JInv, Waits, Quiet, Goto, Flushing, Probing, Writing
<1>3. CASE JReturn
  BY <1>3, <1>n DEF JReturn, JInv, Quiet, Goto, Flushing, Probing
<1>4. CASE JFlush2
  <2>1. Waits
    BY <1>4, <1>w DEF JFlush2
  <2> QED BY <1>4, <1>n, <2>1 DEF JFlush2, JInv, Waits, Quiet, Goto, Flushing, Probing, Writing
<1>5. CASE JFlush
  <2>1. jstate \in {"s_flush3", "s_flush4", "s_flush5", "s_flush6"}
    BY <1>5 DEF JFlush
  <2>2. Waits /\ who = None
    BY <1>w, <2>1 DEF JInv, Flushing
  <2>3. UNCHANGED <<who, jvaddr, ent_addr, ent_d>> /\ ack' = None
    BY <1>5 DEF JFlush, Flush
  <2>4. \/ jstate' \in {"s_flush4", "s_flush5", "s_flush6"} /\ ~tlbw_done'
        \/ jstate' = "s_return" /\ tlbw_done'
    BY <1>5 DEF JFlush, Flush, Goto
  <2> QED BY <1>n, <2>1, <2>2, <2>3, <2>4 DEF JInv, Waits, Flushing, Probing, Writing
<1>6. CASE JProbe1
  <2>1. Waits /\ who # None
    BY <1>6, <1>n, <1>w DEF JProbe1, JInv, Probing
  <2>2. jstate' \in {"s_probe1", "s_probe2", "s_probe4", "s_nack"}
        /\ UNCHANGED <<who, jvaddr>> /\ Quiet /\ jstate = "s_probe1"
    BY <1>6 DEF JProbe1, Goto
  <2> QED BY <1>n, <2>1, <2>2 DEF JInv, Waits, Quiet, Flushing, Probing
<1>7. CASE JProbe3 \/ JProbe4
  <2>1. jstate \in {"s_probe3", "s_probe4"} /\ Quiet /\ UNCHANGED <<who, jvaddr>>
        /\ jstate' \in {"s_probe4", "s_probe5"}
    BY <1>7 DEF JProbe3, JProbe4, Goto
  <2>2. Waits
    BY <1>w, <2>1
  <2> QED BY <1>n, <2>1, <2>2 DEF JInv, Waits, Quiet, Flushing, Probing
<1>8. CASE JAnswer
  <2>1. Waits
    BY <1>8, <1>w DEF JAnswer
  <2> QED BY <1>8, <1>n, <2>1 DEF JAnswer, JInv, Waits, Goto, Flushing, Probing
<1> QED BY <1>1, <1>2, <1>3, <1>4, <1>5, <1>6, <1>7, <1>8 DEF JtlbClock

-----------------------------------------------------------------------------
(* A clock: what a probe finds                                             *)

LEMMA ClockEnts ==
  ASSUME JtlbClock
  PROVE  JFlush2 \/ (jstate # "s_flush2" /\ ents' = ents)
BY DEF JtlbClock, JIdle, JWait, JReturn, JFlush, Flush, JProbe1, JProbe3, JProbe4, JAnswer

LEMMA SameEnts ==
  ASSUME ents' = ents
  PROVE  /\ \A v : Matches(v)' = Matches(v)
         /\ \A u : Good(u)' <=> Good(u)
BY DEF Matches, Good

(* Only a write of the page's own entry changes what the joint TLB says. *)
LEMMA OtherEnts ==
  ASSUME JType, JFlush2, NEW u \in UentType, Good(u),
         u.page[1] # ent_d.vpn2, u.page[1] # ents[ent_addr].vpn2
  PROVE  Good(u)'
<1> DEFINE v == u.page[1]
<1>1. ents' = [ents EXCEPT ![ent_addr] = ent_d]
  BY DEF JFlush2
<1>2. \A i \in Indexes : ents'[i].vpn2 = v <=> ents[i].vpn2 = v
  BY <1>1 DEF JType
<1>3. Matches(v)' = Matches(v)
  BY <1>2 DEF Matches
<1>4. ASSUME NEW i \in Indexes, ents[i] = [vpn2 |-> v, value |-> u.value]
      PROVE  ents'[i] = ents[i]
  <2>1. ents[i].vpn2 = v
    BY <1>4
  <2> QED BY <1>1, <2>1 DEF JType
<1> QED BY <1>3, <1>4 DEF Good

LEMMA ProbeStep ==
  ASSUME Types, Control, ProbeInv, NoDoubleMatch, JtlbClock
  PROVE  ProbeInv'
<1> USE DEF Types, Control
<1>n. None \notin Ports /\ None # "cop0" /\ "cop0" \notin Ports
  BY NoneParam DEF Ports
<1>e. ents' = ents => (\A v : Matches(v)' = Matches(v)) /\ \A u : Good(u)' <=> Good(u)
  BY SameEnts
<1>1. CASE JIdle
  <2>1. tlbp => IsMapped(EntryHi)
    <3>1. tlbp => pc = "probe"
      BY DEF RequestInv, KernelInv, SwType
    <3> QED BY <3>1 DEF KernelInv, MappedVpn2s
  <2>2. jstate' \in {"s_idle", "s_flush1", "s_probe1"}
    BY <1>1 DEF JIdle, StartProbe, Goto
  <2>3. who' = "cop0" => tlbp /\ jvaddr' = <<EntryHi, 0>>
    BY <1>1, <1>n DEF JIdle, StartProbe, JInv
  <2>4. who' = "cop0" => IsMapped(jvaddr'[1])
    BY <2>1, <2>3
  <2> QED BY <2>2, <2>4 DEF ProbeInv, Answered, IsMapped
<1>2. CASE JWait
  <2>1. UNCHANGED <<ents, who, jvaddr, ent_addr>> /\ jstate' \in {"s_flush2", "s_probe3"}
        /\ (jstate' = "s_probe3" => jstate = "s_probe2")
    BY <1>2 DEF JWait, Goto
  <2> QED BY <1>e, <2>1 DEF ProbeInv, Answered, IsMapped
<1>3. CASE JReturn \/ JFlush2 \/ JFlush
  <2>1. who' = None /\ jstate' \in Flushing \cup {"s_idle", "s_return"}
    BY <1>3 DEF JReturn, JFlush2, JFlush, Flush, Goto, JInv, Flushing
  <2> QED BY <1>n, <2>1 DEF ProbeInv, Answered, Flushing
<1>4. CASE JProbe1
  <2>0. jstate = "s_probe1" /\ UNCHANGED <<ents, who, jvaddr, ent_d>>
    BY <1>4 DEF JProbe1
  <2>1. who # None /\ jvaddr \in Pages /\ jvaddr[1] \in Vpn2s
    BY <1>n, <2>0, ProbePage DEF JInv, Probing
  <2>2. who = "cop0" => IsMapped(jvaddr[1])
    BY DEF ProbeInv
  <2>3. CASE /\ who # "cop0" /\ ~IsMapped(jvaddr[1])
             /\ ent_q' = [vpn2 |-> jvaddr[1], value |-> Kseg] /\ Goto("s_probe4")
    <3>1. ent_q'.value = Kseg
      BY <2>3
    <3> QED BY <2>0, <2>3, <3>1 DEF ProbeInv, Answered, Goto, IsMapped
  <2>4. CASE UNCHANGED jstate
    BY <2>0, <2>2, <2>4 DEF ProbeInv, Answered, IsMapped
  <2>5. CASE /\ IsMapped(jvaddr[1]) /\ Matches(jvaddr[1]) # {}
             /\ ent_addr' = CHOOSE i \in Matches(jvaddr[1]) :
                              \A j \in Matches(jvaddr[1]) : i <= j
             /\ Goto("s_probe2")
    <3>1. Matches(jvaddr[1]) = {ent_addr'}
      BY <2>1, <2>5, MatchOne
    <3> QED BY <1>e, <2>0, <2>5, <3>1 DEF ProbeInv, Answered, Goto, IsMapped
  <2>6. CASE /\ IsMapped(jvaddr[1]) /\ Matches(jvaddr[1]) = {}
             /\ uent' = MissUent(jvaddr) /\ Goto("s_nack")
    <3>1. /\ MissUent(jvaddr) \in UentType /\ MissUent(jvaddr).page = jvaddr
          /\ MissUent(jvaddr).m
      BY <2>1 DEF MissUent, UentType
    <3>2. Good(MissUent(jvaddr))
      BY <2>6, <3>1 DEF Good
    <3>3. Good(uent)'
      BY <1>e, <2>0, <2>6, <3>2 DEF Good
    <3>4. Matches(jvaddr[1])' = {}
      BY <1>e, <2>0, <2>6
    <3> QED BY <2>0, <2>6, <3>1, <3>3, <3>4 DEF ProbeInv, Answered, Goto, IsMapped
  <2> QED BY <1>4, <2>2, <2>3, <2>4, <2>5, <2>6 DEF JProbe1
<1>5. CASE JProbe3
  <2>1. /\ jstate = "s_probe3" /\ UNCHANGED <<ents, who, jvaddr, ent_addr>>
        /\ ent_q' = ents[ent_addr] /\ jstate' = "s_probe4"
    BY <1>5 DEF JProbe3, Goto
  <2> QED BY <1>e, <2>1 DEF ProbeInv, Answered, IsMapped
<1>6. CASE JProbe4
  <2>0. /\ jstate = "s_probe4" /\ UNCHANGED <<ents, who, jvaddr, ent_addr>>
        /\ uent' = Uent(jvaddr, ent_q.value) /\ jstate' = "s_probe5"
    BY <1>6 DEF JProbe4, Goto
  <2>1. jvaddr \in Pages /\ jvaddr[1] \in Vpn2s
    BY <1>n, <2>0, ProbePage DEF JInv, Probing
  <2>2. /\ Uent(jvaddr, ent_q.value) \in UentType /\ Uent(jvaddr, ent_q.value).page = jvaddr
        /\ ~Uent(jvaddr, ent_q.value).m /\ Uent(jvaddr, ent_q.value).value = ent_q.value
    BY <2>1 DEF Uent, UentType, JType, EntType
  <2>3. Good(Uent(jvaddr, ent_q.value))
    <3>1. CASE IsMapped(jvaddr[1])
      <4>1. ent_q = ents[ent_addr] /\ ent_addr \in Matches(jvaddr[1])
        BY <2>0, <3>1 DEF ProbeInv
      <4>2. ents[ent_addr] \in EntType /\ ents[ent_addr].vpn2 = jvaddr[1]
        BY <4>1 DEF JType, Matches
      <4>3. ents[ent_addr] = [vpn2 |-> jvaddr[1], value |-> ent_q.value]
        BY <4>1, <4>2 DEF EntType
      <4> QED BY <2>2, <3>1, <4>3 DEF Good, JType
    <3>2. CASE ~IsMapped(jvaddr[1])
      BY <2>0, <2>2, <3>2 DEF ProbeInv, Good
    <3> QED BY <3>1, <3>2
  <2>4. Good(uent)'
    BY <1>e, <2>0, <2>3 DEF Good
  <2>5. who = "cop0" => Matches(jvaddr[1])' \subseteq {ent_addr}
    BY <1>e, <2>0 DEF ProbeInv
  <2> QED BY <2>0, <2>2, <2>4, <2>5 DEF ProbeInv, Answered, IsMapped
<1>7. CASE JAnswer
  <2>1. /\ Answered /\ UNCHANGED <<ents, who, jvaddr, ent_addr, uent>> /\ jstate' = "s_return"
    BY <1>7 DEF JAnswer, Goto, Answered
  <2>2. Good(uent)'
    BY <1>e, <2>1 DEF ProbeInv, Good
  <2> QED BY <1>e, <2>1, <2>2 DEF ProbeInv, IsMapped
<1> QED BY <1>1, <1>2, <1>3, <1>4, <1>5, <1>6, <1>7 DEF JtlbClock

-----------------------------------------------------------------------------
(* A clock: the sets of the micro TLBs                                     *)

(* What a set holds after a clock it held before and it was not flushed, or  *)
(* it was filled with what the joint TLB says.                               *)
LEMMA SetSource ==
  ASSUME Types, UInv, SetInv, NEW a, UtlbClock(a), NEW p \in Ports, NEW s \in Sets,
         set'[p][s] # None
  PROVE  \/ set'[p][s] = set[p][s] /\ s # inv
         \/ /\ we[p] /\ jstate = "s_idle" /\ set'[p][s] = d[p] /\ Good(d[p])
            /\ d[p] \in UentType /\ Offset(d[p].page) = s
<1>0. s # None /\ set[p] \in [Sets -> UentType \cup {None}]
  BY NoneParam DEF Types, UType
<1>1. set'[p] = IF inv # None THEN [set[p] EXCEPT ![inv] = None]
                ELSE IF we[p] THEN [set[p] EXCEPT ![Offset(jtlb_vaddr[p])] = d[p]]
                ELSE set[p]
  BY DEF UtlbClock
<1>2. CASE inv # None
  BY <1>0, <1>1, <1>2
<1>3. CASE inv = None /\ ~we[p]
  BY <1>0, <1>1, <1>3
<1>4. CASE inv = None /\ we[p]
  <2>1. jstate = "s_idle" /\ d[p] \in UentType /\ d[p].page = jtlb_vaddr[p] /\ Good(d[p])
    BY <1>4 DEF UInv, SetInv
  <2>2. s = Offset(jtlb_vaddr[p]) => set'[p][s] = d[p]
    BY <1>0, <1>1, <1>4
  <2>3. s # Offset(jtlb_vaddr[p]) => set'[p][s] = set[p][s]
    BY <1>0, <1>1, <1>4
  <2> QED BY <1>0, <1>4, <2>1, <2>2, <2>3
<1> QED BY <1>2, <1>3, <1>4

(* A set that waits is flushed with this clock or goes on waiting: the sets  *)
(* of the old entry are left out only where they are those of the new one.   *)
LEMMA PendingStep ==
  ASSUME Types, SetInv, JtlbClock, NEW s \in Pending, s # inv
  PROVE  s \in Pending'
<1>1. PICK dv : dv = ent_d.vpn2
  OBVIOUS
<1>2. PICK qv : qv = ent_q.vpn2
  OBVIOUS
<1>3. jstate \in {"s_flush3", "s_flush4", "s_flush5", "s_flush6"}
  BY DEF Pending
<1>4. JFlush
  BY <1>3 DEF JtlbClock, JIdle, JWait, JReturn, JFlush2, JProbe1, JProbe3, JProbe4, JAnswer
<1>5. dv' = dv /\ qv' = qv /\ ent_d'.vpn2 = dv /\ ent_q'.vpn2 = qv
  BY <1>1, <1>2, <1>4 DEF JFlush, Flush
<1>6. inv' # None
  <2>1. inv' \in Sets
    <3>1. ent_d.vpn2 \in Vpn2s /\ ent_q.vpn2 \in Vpn2s
      BY DEF Types, JType, EntType
    <3>2. 0 \in Halves /\ 1 \in Halves
      BY DEF Halves
    <3> QED BY <1>4, <3>1, <3>2, VpnPage DEF JFlush, Flush
  <2> QED BY <2>1, NoneParam
<1>7. inv' \in Pending'
  BY <1>6 DEF Pending
<1>8. CASE jstate = "s_flush3"
  <2>1. jstate' = "s_flush4" /\ inv' = Offset(<<dv, 0>>)
    BY <1>1, <1>4, <1>8 DEF JFlush, Flush, Goto
  <2>2. s \in {Offset(<<dv, 0>>), Offset(<<dv, 1>>)} \cup SetsOf(qv)
    BY <1>1, <1>2, <1>8 DEF Pending, SetsOf
  <2>3. {Offset(<<dv, 1>>)} \cup SetsOf(qv) \subseteq Pending'
    BY <1>5, <2>1 DEF Pending, SetsOf, Offset
  <2> QED BY <1>7, <2>1, <2>2, <2>3
<1>9. CASE jstate = "s_flush4"
  <2>1. inv' = Offset(<<dv, 1>>)
    BY <1>1, <1>4, <1>9 DEF JFlush, Flush
  <2>2. s \in {Offset(<<dv, 1>>)} \cup SetsOf(qv)
    BY <1>1, <1>2, <1>9 DEF Pending
  <2>3. CASE NeedsFlush
    <3>1. jstate' = "s_flush5"
      BY <1>4, <1>9, <2>3 DEF JFlush, Flush, Goto
    <3>2. SetsOf(qv) \subseteq Pending'
      BY <1>5, <3>1 DEF Pending, SetsOf, Offset
    <3> QED BY <1>7, <2>1, <2>2, <3>2
  <2>4. CASE ~NeedsFlush
    <3>1. Offset(<<qv, 0>>) = Offset(<<dv, 0>>)
      BY <1>1, <1>2, <2>4 DEF NeedsFlush
    <3>2. qv % SETS = dv % SETS
      BY <3>1 DEF Offset
    <3>3. Offset(<<qv, 1>>) = Offset(<<dv, 1>>)
      BY <3>2 DEF Offset
    <3>4. inv = Offset(<<dv, 0>>)
      BY <1>1, <1>9 DEF SetInv
    <3> QED BY <1>7, <2>1, <2>2, <3>1, <3>3, <3>4 DEF SetsOf
  <2> QED BY <2>3, <2>4
<1>10. CASE jstate = "s_flush5"
  <2>1. jstate' = "s_flush6" /\ inv' = Offset(<<qv, 0>>)
    BY <1>2, <1>4, <1>10 DEF JFlush, Flush, Goto
  <2>2. s \in {Offset(<<qv, 0>>), Offset(<<qv, 1>>)}
    BY <1>2, <1>10 DEF Pending, SetsOf
  <2>3. Offset(<<qv, 1>>) \in Pending'
    BY <1>5, <2>1 DEF Pending, Offset
  <2> QED BY <1>7, <2>1, <2>2, <2>3
<1>11. CASE jstate = "s_flush6"
  <2>1. inv' = Offset(<<qv, 1>>)
    BY <1>2, <1>4, <1>11 DEF JFlush, Flush
  <2>2. s = Offset(<<qv, 1>>)
    BY <1>2, <1>11 DEF Pending
  <2> QED BY <1>7, <2>1, <2>2
<1> QED BY <1>3, <1>8, <1>9, <1>10, <1>11

LEMMA SetStep ==
  ASSUME Types, Control, ProbeInv, SetInv, NEW a, Access(a), UtlbClock(a), JtlbClock
  PROVE  SetInv'
<1> USE DEF Control
<1>n. None \notin Ports
  BY NoneParam
<1>1. jstate' = "s_flush4" => inv' = Offset(<<ent_d.vpn2, 0>>)' 
  <2>1. jstate' = "s_flush4" => JFlush /\ jstate = "s_flush3"
    BY DEF JtlbClock, JIdle, StartProbe, JWait, JReturn, JFlush2, JFlush, Flush, JProbe1,
           JProbe3, JProbe4, JAnswer, Goto
  <2>2. JFlush /\ jstate = "s_flush3" => inv' = Offset(<<ent_d.vpn2, 0>>) /\ ent_d' = ent_d
    BY DEF JFlush, Flush
  <2> QED BY <2>1, <2>2 DEF Offset
<1>2. ASSUME NEW p \in Ports, we'[p] PROVE Good(d[p])'
  <2>1. PortStep(p, a)
    BY PortSteps DEF Types
  <2>2. ack = p /\ d'[p] = uent
    BY <1>2, <2>1 DEF PortStep
  <2>3. jstate = "s_return" /\ who = p
    BY <1>2, <1>n, <2>2 DEF JInv
  <2>4. Answered
    BY <1>2, <1>n, <2>3 DEF Answered
  <2>5. Good(uent)
    BY <2>4 DEF ProbeInv
  <2>6. ents' = ents
    BY <2>3, ClockEnts DEF JFlush2
  <2> QED BY <2>2, <2>5, <2>6 DEF Good, Matches
<1>3. ASSUME NEW p \in Ports, NEW s \in Sets, set'[p][s] # None
      PROVE  Offset(set'[p][s].page) = s /\ (Good(set[p][s])' \/ s \in Pending')
  <2> DEFINE u == set'[p][s]
  <2>1. PICK e : e = u
    OBVIOUS
  <2>2. \/ e = set[p][s] /\ s # inv
        \/ we[p] /\ jstate = "s_idle" /\ Good(e) /\ Offset(e.page) = s
    BY <1>3, <2>1, SetSource
  <2>3. Offset(e.page) = s /\ (Good(e) \/ s \in Pending)
    BY <1>3, <2>1, <2>2 DEF SetInv
  <2>4. CASE ents' = ents
    <3>1. Good(e) => Good(e)'
      BY <2>4, SameEnts
    <3>2. Good(e)' => Good(set[p][s])'
      BY <2>1 DEF Good, Matches
    <3>3. ~Good(e) => s \in Pending'
      BY <2>2, <2>3, PendingStep DEF Types
    <3> QED BY <2>1, <2>3, <3>1, <3>2, <3>3
  <2>5. CASE JFlush2
    <3>0. jstate = "s_flush2" /\ jstate' = "s_flush3" /\ ent_d' = ent_d /\ ent_q' = ents[ent_addr]
      BY <2>5 DEF JFlush2, Goto
    <3>1. inv = None /\ Pending = {}
      BY <3>0 DEF JInv, Pending
    <3>2. e = set[p][s] /\ Good(e)
      BY <2>2, <2>3, <3>0, <3>1
    <3>3. e \in UentType
      BY <1>3, <2>1, <3>2 DEF Types, UType
    <3>4. e.page \in Pages /\ s \in SetsOf(e.page[1])
      BY <2>3, <3>3, PageParts DEF UentType
    <3>5. CASE e.page[1] = ent_d.vpn2 \/ e.page[1] = ents[ent_addr].vpn2
      <4>1. PICK dv : dv = ent_d.vpn2
        OBVIOUS
      <4>2. PICK qv : qv = ents[ent_addr].vpn2
        OBVIOUS
      <4>3. SetsOf(dv) \cup SetsOf(qv) \subseteq Pending'
        BY <3>0, <4>1, <4>2 DEF Pending, SetsOf, Offset
      <4> QED BY <2>1, <2>3, <3>4, <3>5, <4>1, <4>2, <4>3
    <3>6. CASE e.page[1] # ent_d.vpn2 /\ e.page[1] # ents[ent_addr].vpn2
      <4>1. Good(e)'
        BY <2>5, <3>2, <3>3, <3>6, OtherEnts DEF Types
      <4>2. Good(set[p][s])'
        BY <2>1, <4>1 DEF Good, Matches
      <4> QED BY <2>1, <2>3, <4>2
    <3> QED BY <3>5, <3>6
  <2> QED BY <2>4, <2>5, ClockEnts
<1> QED BY <1>1, <1>2, <1>3 DEF SetInv, Offset, Sets

-----------------------------------------------------------------------------
(* A clock: the entries                                                    *)

(* A write is over when its instruction finishes, and not before. *)
LEMMA WrittenStep ==
  ASSUME JInv, JtlbClock
  PROVE  /\ Written' => Written \/ JFlush2
         /\ Written => tlbw_done \/ Written'
         /\ JFlush2 => Written'
         /\ Written => jstate # "s_flush2"
         /\ tlbw_done => Writing /\ jstate = "s_return"
         /\ JFlush2 => /\ Writing /\ ~tlbw_done /\ ack = None /\ inv = None
                       /\ ent_d = [vpn2 |-> EntryHi, value |-> EntryLo]
                       /\ cop0op = "tlbwi" => ent_addr = Index
<1>1. tlbw_done => Writing /\ jstate = "s_return"
  BY DEF JInv
<1>2. Written => jstate # "s_flush2"
  BY <1>1 DEF Written
<1>3. JFlush2 => /\ Writing /\ ~tlbw_done /\ ack = None /\ inv = None
                 /\ ent_d = [vpn2 |-> EntryHi, value |-> EntryLo]
                 /\ cop0op = "tlbwi" => ent_addr = Index
  BY DEF JFlush2, JInv, Flushing
<1>4. JFlush2 => Written'
  BY DEF JFlush2, Written, Goto
<1>5. JFlush => Written /\ Written'
  BY DEF JFlush, Flush, Goto, Written
<1>6. ~JFlush /\ ~JFlush2 => ~Written'
  BY DEF JtlbClock, JIdle, StartProbe, JWait, JReturn, JProbe1, JProbe3, JProbe4, JAnswer,
         Quiet, Goto, Written
<1>7. ~JFlush /\ Written => tlbw_done
  BY DEF JtlbClock, JIdle, StartProbe, JWait, JReturn, JFlush2, JProbe1, JProbe3, JProbe4,
         JAnswer, Written
<1> QED BY <1>1, <1>2, <1>3, <1>4, <1>5, <1>6, <1>7

(* What the kernel writes: no address, or the one no other entry has. *)
LEMMA WriteTarget ==
  ASSUME Types, Control, TargetInv, JtlbClock, JFlush2
  PROVE  /\ pc = "write" /\ vpn2 \in MappedVpn2s
         /\ \/ ~IsMapped(ent_d.vpn2) /\ why = "flush" /\ ent_addr = Index
            \/ /\ why # "flush" /\ ent_d.vpn2 = vpn2 /\ Matches(vpn2) \subseteq {ent_addr}
               /\ ent_d.value = pt[vpn2] \/ vpn2 \in unflushed
<1> USE DEF Control, Types
<1>1. /\ Writing /\ ~tlbw_done /\ jstate = "s_flush2"
      /\ ent_d = [vpn2 |-> EntryHi, value |-> EntryLo]
      /\ cop0op = "tlbwi" => ent_addr = Index
  BY WrittenStep DEF JFlush2
<1>2. ent_d.vpn2 = EntryHi /\ ent_d.value = EntryLo
  BY <1>1
<1>3. pc = "write"
  BY <1>1 DEF KernelInv, SwType, Writing
<1>4. vpn2 \in MappedVpn2s
  BY <1>3 DEF KernelInv
<1>5. ~Written
  BY <1>1 DEF Written
<1>6. CASE why = "flush"
  BY <1>1, <1>2, <1>3, <1>4, <1>6, Sizes DEF KernelInv, RegType
<1>7. CASE why = "refill"
  BY <1>2, <1>3, <1>4, <1>5, <1>7 DEF KernelInv, TargetInv
<1>8. CASE why = "update"
  BY <1>1, <1>2, <1>3, <1>4, <1>5, <1>8 DEF KernelInv, TargetInv
<1> QED BY <1>3, <1>6, <1>7, <1>8 DEF KernelInv

LEMMA DoubleStep ==
  ASSUME Types, Control, TargetInv, NoDoubleMatch, JtlbClock
  PROVE  NoDoubleMatch'
<1>1. CASE ents' = ents
  BY <1>1 DEF NoDoubleMatch, IsMapped
<1>2. CASE JFlush2
  <2>1. ents' = [ents EXCEPT ![ent_addr] = ent_d] /\ ent_addr \in Indexes
    BY <1>2 DEF JFlush2, Types, JType
  <2>2. ~IsMapped(ent_d.vpn2) \/ Matches(ent_d.vpn2) \subseteq {ent_addr}
    BY <1>2, WriteTarget
  <2>3. ASSUME NEW i \in Indexes, i # ent_addr, ents[i].vpn2 = ent_d.vpn2
        PROVE  ~IsMapped(ent_d.vpn2)
    BY <2>2, <2>3 DEF Matches
  <2>4. ents'[ent_addr] = ent_d /\ \A i \in Indexes : i # ent_addr => ents'[i] = ents[i]
    BY <2>1 DEF Types, JType
  <2>5. \A i, j \in Indexes : i # j /\ ents'[i].vpn2 = ents'[j].vpn2 => ~IsMapped(ents'[i].vpn2)
    BY <2>3, <2>4 DEF NoDoubleMatch
  <2> QED BY <2>5 DEF NoDoubleMatch, IsMapped
<1> QED BY <1>1, <1>2, ClockEnts

LEMMA TargetClock ==
  ASSUME Types, Control, ProbeInv, TargetInv, Clock
  PROVE  TargetInv'
<1> USE DEF Control
<1>0. Cop0Clock /\ JtlbClock
  BY DEF Clock, TlbClock
<1>1. CASE Finishes
  <2>1. cop0op # "nop" /\ jstate = "s_return"
    BY <1>1, NoneParam DEF Finishes, Writing, cop_ack, JInv
  <2>2. pc \in {"probe", "write"}
    BY <2>1 DEF KernelInv, Types, SwType
  <2>3. CASE pc = "probe"
    <3>1. cop0op = "tlbp" /\ EntryHi = vpn2 /\ ack = "cop0"
      BY <1>1, <2>3 DEF KernelInv, Finishes, Writing, cop_ack
    <3>2. who = "cop0" /\ jvaddr = <<vpn2, 0>>
      BY <2>1, <3>1 DEF JInv
    <3>3. Answered
      BY <2>1, <3>2, NoneParam DEF Answered
    <3>4. Matches(vpn2) \subseteq {ent_addr}
      BY <3>2, <3>3 DEF ProbeInv
    <3>5. pc' = "probed" /\ vpn2' = vpn2 /\ Index' = ent_addr
      BY <1>0, <1>1, <2>3, <3>1 DEF Clock, Cop0Clock, cop_ack
    <3>6. ents' = ents
      BY <1>0, <2>1, ClockEnts DEF JFlush2
    <3> QED BY <3>4, <3>5, <3>6, SameEnts DEF TargetInv
  <2>4. CASE pc = "write"
    <3>1. pc' = "run"
      BY <1>1, <2>4 DEF Clock
    <3> QED BY <3>1 DEF TargetInv
  <2> QED BY <2>2, <2>3, <2>4
<1>2. CASE ~Finishes
  <2>1. /\ Index' = Index /\ pc' = pc
        /\ pc # "run" => vpn2' = vpn2 /\ why' = why
    BY <1>0, <1>2 DEF Clock, Cop0Clock, Finishes
  <2>2. CASE ~JFlush2
    <3>1. ents' = ents /\ \A v : Matches(v)' = Matches(v)
      BY <1>0, <2>2, ClockEnts, SameEnts
    <3>2. pc = "write" => (Written <=> Written')
      <4>1. tlbw_done => Finishes
        BY <1>0, WrittenStep DEF Finishes
      <4> QED BY <1>0, <1>2, <2>2, <4>1, WrittenStep
    <3>3. CASE pc \in {"run", "probe"}
      BY <2>1, <3>3 DEF TargetInv
    <3>4. CASE pc \in {"refill", "probed"}
      BY <2>1, <3>1, <3>4 DEF TargetInv
    <3>5. CASE pc = "write"
      BY <2>1, <3>1, <3>2, <3>5 DEF TargetInv
    <3> QED BY <3>3, <3>4, <3>5 DEF Types, SwType
  <2>3. CASE JFlush2
    <3>1. /\ pc = "write" /\ vpn2 \in MappedVpn2s
          /\ (~IsMapped(ent_d.vpn2) /\ ent_addr = Index) \/ why # "flush"
      BY <1>0, <2>3, WriteTarget
    <3>2. Written'
      BY <1>0, <2>3, WrittenStep
    <3>3. CASE why # "flush"
      BY <2>1, <3>1, <3>2, <3>3 DEF TargetInv
    <3>4. CASE why = "flush"
      <4>1. ~Written
        BY <1>0, <2>3, WrittenStep DEF JFlush2
      <4>2. Matches(vpn2) \subseteq {ent_addr}
        BY <3>1, <3>4, <4>1 DEF TargetInv
      <4>3. IsMapped(vpn2) /\ ent_d.vpn2 # vpn2
        BY <3>1, <3>4 DEF MappedVpn2s
      <4>4. ents' = [ents EXCEPT ![ent_addr] = ent_d] /\ ent_addr \in Indexes
        BY <2>3 DEF JFlush2, Types, JType
      <4>5. \A i \in Indexes : ents'[i].vpn2 # vpn2
        BY <4>2, <4>3, <4>4 DEF Matches, Types, JType
      <4>6. vpn2' = vpn2 /\ pc' = "write" /\ why' = "flush"
        BY <2>1, <3>1, <3>4
      <4>7. Matches(vpn2)' = {}
        BY <4>5, <4>6 DEF Matches
      <4> QED BY <3>2, <4>6, <4>7 DEF TargetInv
    <3> QED BY <3>3, <3>4
  <2> QED BY <2>2, <2>3
<1> QED BY <1>1, <1>2

(* What a flush leaves behind. *)
LEMMA FlushEnd ==
  ASSUME Types, Control, SetInv, TargetInv, Finishes, pc = "write", why = "flush"
  PROVE  /\ Matches(vpn2) = {} /\ jstate = "s_return"
         /\ \A p \in Ports, s \in Sets : set[p][s] # None /\ s # inv => Good(set[p][s])
<1> USE DEF Control
<1>1. tlbw_done
  BY DEF KernelInv, Finishes, Writing
<1>2. jstate = "s_return" /\ Written
  BY <1>1 DEF JInv, Written
<1>3. Matches(vpn2) = {}
  BY <1>2 DEF TargetInv
<1>4. Pending \subseteq {inv}
  BY <1>2 DEF Pending
<1> QED BY <1>2, <1>3, <1>4 DEF SetInv

LEMMA StaleClock ==
  ASSUME Types, Control, SetInv, TargetInv, NoStaleTranslation, Clock
  PROVE  NoStaleTranslation'
<1> USE DEF Control
<1>0. JtlbClock /\ pt' = pt
  BY DEF Clock, TlbClock
<1>1. PICK a : Access(a) /\ UtlbClock(a)
  BY ClockAccess DEF Clock
<1> SUFFICES ASSUME NEW v \in MappedVpn2s, v \notin unflushed'
             PROVE  /\ \A i \in Indexes : ents'[i].vpn2 = v => ents'[i].value = pt[v]
                    /\ \A p \in Ports, s \in Sets :
                         set'[p][s] # None /\ set'[p][s].page[1] = v /\ ~set'[p][s].m
                           => set'[p][s].value = pt[v]
  BY <1>0 DEF NoStaleTranslation, MappedVpn2s, IsMapped
<1>2. IsMapped(v)
  BY DEF MappedVpn2s
<1>3. ASSUME NEW u, IsMapped(u.page[1]), Good(u), ~u.m, u.page[1] = v
      PROVE  \E i \in Indexes : ents[i].vpn2 = v /\ ents[i].value = u.value
  BY <1>3 DEF Good
<1>4. CASE v \notin unflushed
  <2>1. \A i \in Indexes : ents[i].vpn2 = v => ents[i].value = pt[v]
    BY <1>4 DEF NoStaleTranslation
  <2>2. ASSUME NEW i \in Indexes, ents'[i].vpn2 = v PROVE ents'[i].value = pt[v]
    <3>1. CASE ents' = ents
      BY <2>1, <2>2, <3>1
    <3>2. CASE JFlush2
      <4>1. ents' = [ents EXCEPT ![ent_addr] = ent_d] /\ ent_addr \in Indexes
        BY <3>2 DEF JFlush2, Types, JType
      <4>2. ent_d.vpn2 = v => ent_d.value = pt[v]
        BY <1>0, <1>2, <1>4, <3>2, WriteTarget
      <4> QED BY <2>1, <2>2, <4>1, <4>2 DEF Types, JType
    <3> QED BY <1>0, <3>1, <3>2, ClockEnts
  <2>3. ASSUME NEW p \in Ports, NEW s \in Sets, set'[p][s] # None,
               set'[p][s].page[1] = v, ~set'[p][s].m
        PROVE  set'[p][s].value = pt[v]
    <3>1. CASE set'[p][s] = set[p][s]
      BY <1>4, <2>3, <3>1 DEF NoStaleTranslation
    <3>2. CASE set'[p][s] = d[p] /\ Good(d[p])
      BY <1>2, <1>3, <2>1, <2>3, <3>2
    <3> QED BY <1>1, <2>3, <3>1, <3>2, SetSource
  <2> QED BY <2>2, <2>3
<1>5. CASE v \in unflushed
  <2>1. Finishes /\ pc = "write" /\ why = "flush" /\ v = vpn2
    BY <1>5 DEF Clock
  <2>2. /\ Matches(v) = {} /\ jstate = "s_return"
        /\ \A p \in Ports, s \in Sets : set[p][s] # None /\ s # inv => Good(set[p][s])
    BY <2>1, FlushEnd
  <2>3. ents' = ents
    BY <1>0, <2>2, ClockEnts DEF JFlush2
  <2>4. \A i \in Indexes : ents[i].vpn2 # v
    BY <2>2 DEF Matches
  <2>5. ASSUME NEW p \in Ports, NEW s \in Sets, set'[p][s] # None,
               set'[p][s].page[1] = v, ~set'[p][s].m
        PROVE  FALSE
    <3>1. set'[p][s] = set[p][s] /\ s # inv
      BY <1>1, <2>2, <2>5, SetSource
    <3>2. Good(set[p][s])
      BY <2>2, <2>5, <3>1
    <3> QED BY <1>2, <1>3, <2>4, <2>5, <3>1, <3>2
  <2> QED BY <2>3, <2>4, <2>5
<1> QED BY <1>4, <1>5

-----------------------------------------------------------------------------
(* The steps of the kernel                                                 *)

LEMMA NoInstruction ==
  ASSUME JInv, RequestInv, cop0op = "nop"
  PROVE  /\ jstate \notin Flushing /\ ~tlbw_done /\ ~Written /\ inv = None /\ Pending = {}
         /\ who # "cop0" /\ ~tlbw /\ ~tlbp
<1>1. jstate \notin Flushing /\ ~tlbw_done /\ who # "cop0" /\ ~tlbw /\ ~tlbp
  BY DEF JInv, RequestInv, Writing
<1>2. inv = None
  BY <1>1 DEF JInv, Flushing
<1> QED BY <1>1, <1>2 DEF Written, Pending, Flushing

(* The kernel leaves the hardware alone but for the instruction it issues. *)
LEMMA SameHardware ==
  ASSUME UNCHANGED <<jtlbvars, utlbvars>>
  PROVE  /\ (JType => JType') /\ (UType => UType') /\ (UInv => UInv')
         /\ (ProbeInv => ProbeInv') /\ (SetInv => SetInv')
         /\ (NoDoubleMatch => NoDoubleMatch')
         /\ Written' = Written /\ \A v : Matches(v)' = Matches(v)
<1> USE DEF jtlbvars, utlbvars
<1>1. (JType => JType') /\ (UType => UType')
  BY DEF JType, UType, EntType, UentType
<1>2. UInv => UInv'
  BY DEF UInv, UentType, PagesOf
<1>4. \A v : Matches(v)' = Matches(v)
  BY SameEnts
<1>5. Written' = Written
  BY DEF Written
<1>6. Pending' = Pending
  BY DEF Pending, SetsOf, Offset
<1>8. (Good(uent)' <=> Good(uent)) /\ (Answered' <=> Answered)
      /\ \A p \in Ports : /\ Good(d[p])' <=> Good(d[p])
                          /\ \A s \in Sets : Good(set[p][s])' <=> Good(set[p][s])
  BY DEF Good, Matches, Answered
<1>9. ProbeInv => ProbeInv'
  BY <1>4, <1>8 DEF ProbeInv, IsMapped, UentType
<1>10. SetInv => SetInv'
  BY <1>6, <1>8 DEF SetInv, Offset, Sets
<1>11. NoDoubleMatch => NoDoubleMatch'
  BY DEF NoDoubleMatch, IsMapped
<1> QED BY <1>1, <1>2, <1>4, <1>5, <1>9, <1>10, <1>11

(* An instruction is issued when none is under way, so that nothing the      *)
(* hardware is doing is about it.                                            *)
LEMMA IssueStep ==
  ASSUME Types, Control, ProbeInv, SetInv, NoDoubleMatch, NoStaleTranslation,
         NEW op \in {"tlbp", "tlbwi", "tlbwr"}, NEW hi \in Vpn2s, NEW lo \in Values \cup {None},
         NEW next \in {"probe", "write"}, Issue(op, hi, lo, next), cop0op = "nop",
         UNCHANGED <<pt, unflushed>>
  PROVE  /\ Types' /\ JInv' /\ RequestInv' /\ UInv' /\ ProbeInv' /\ SetInv'
         /\ NoDoubleMatch' /\ NoStaleTranslation' /\ ~Written'
         /\ Index' = Index /\ \A v : Matches(v)' = Matches(v)
<1> USE DEF Types, Control
<1>1. /\ jstate \notin Flushing /\ ~tlbw_done /\ ~Written /\ who # "cop0" /\ ~tlbw /\ ~tlbp
  BY NoInstruction
<1>2. UNCHANGED <<Index, cop0vars, jtlbvars, utlbvars>>
  BY DEF Issue
<1>3. RegType'
  BY <1>2 DEF Issue, RegType, cop0vars
<1>4. SwType'
  BY DEF Issue, SwType, MappedVpn2s
<1>5. RequestInv'
  BY <1>1, <1>2 DEF RequestInv, cop0vars
<1>6. JInv'
  BY <1>1, <1>2 DEF JInv, jtlbvars, utlbvars
<1>7. NoStaleTranslation'
  BY <1>2 DEF NoStaleTranslation, MappedVpn2s, IsMapped, jtlbvars, utlbvars
<1> QED BY <1>1, <1>2, <1>3, <1>4, <1>5, <1>6, <1>7, SameHardware

Inv == Types /\ Control /\ Content

LEMMA RefillWriteStep ==
  ASSUME Inv, RefillWrite
  PROVE  Inv'
<1> USE DEF Inv, Control, Content
<1>1. cop0op = "nop" /\ why = "refill" /\ vpn2 \in MappedVpn2s
  BY DEF RefillWrite, KernelInv
<1>2. vpn2 \in Vpn2s /\ pt[vpn2] \in Values
  BY <1>1 DEF MappedVpn2s, Types, SwType
<1>3. /\ Issue("tlbwr", vpn2, pt[vpn2], "write") /\ UNCHANGED <<pt, unflushed, vpn2, why>>
      /\ pc = "refill"
  BY DEF RefillWrite
<1>4. /\ Types' /\ JInv' /\ RequestInv' /\ UInv' /\ ProbeInv' /\ SetInv'
      /\ NoDoubleMatch' /\ NoStaleTranslation'
      /\ Matches(vpn2)' = Matches(vpn2)
  BY <1>1, <1>2, <1>3, IssueStep
<1>5. /\ pc' = "write" /\ why' = "refill" /\ cop0op' = "tlbwr" /\ EntryHi' = vpn2'
      /\ EntryLo' = pt'[vpn2']
  BY <1>1, <1>3 DEF Issue
<1>6. KernelInv'
  BY <1>1, <1>3, <1>5 DEF KernelInv, MappedVpn2s
<1>7. Matches(vpn2) = {}
  BY <1>3 DEF TargetInv
<1>8. TargetInv'
  BY <1>4, <1>5, <1>7 DEF TargetInv
<1> QED BY <1>4, <1>6, <1>8

LEMMA ProbeIssue ==
  ASSUME Inv, NEW v \in Changing, NEW w \in {"flush", "update"}, Probe(v, w)
  PROVE  Inv'
<1> USE DEF Inv, Control, Content
<1>1. cop0op = "nop" /\ v \in MappedVpn2s /\ v \in Vpn2s
  BY LinuxTLBParams DEF Probe, KernelInv, MappedVpn2s
<1>2. /\ Issue("tlbp", v, None, "probe") /\ UNCHANGED <<pt, unflushed>>
      /\ vpn2' = v /\ why' = w
  BY DEF Probe
<1>3. /\ Types' /\ JInv' /\ RequestInv' /\ UInv' /\ ProbeInv' /\ SetInv'
      /\ NoDoubleMatch' /\ NoStaleTranslation'
  BY <1>1, <1>2, IssueStep
<1>4. pc' = "probe" /\ cop0op' = "tlbp" /\ EntryHi' = v
  BY <1>2 DEF Issue
<1>5. KernelInv'
  BY <1>1, <1>2, <1>4 DEF KernelInv, MappedVpn2s
<1>6. TargetInv'
  BY <1>4 DEF TargetInv
<1> QED BY <1>3, <1>5, <1>6

LEMMA WriteIssue ==
  ASSUME Inv, Write
  PROVE  Inv'
<1> USE DEF Inv, Control, Content
<1>1. /\ cop0op = "nop" /\ why \in {"flush", "update"} /\ vpn2 \in MappedVpn2s
      /\ pc = "probed"
  BY DEF Write, KernelInv
<1>2. /\ vpn2 \in Vpn2s /\ pt[vpn2] \in Values /\ Index \in Indexes
      /\ UNIQUE_ENTRYHI(Index) \in Vpn2s
  BY <1>1, Sizes DEF MappedVpn2s, Types, SwType, RegType
<1>3. UNCHANGED <<pt, unflushed, vpn2, why>>
  BY DEF Write
<1>4. PICK hi \in Vpn2s, lo \in Values \cup {None} :
        /\ Issue("tlbwi", hi, lo, "write")
        /\ \/ why = "flush" /\ hi = UNIQUE_ENTRYHI(Index)
           \/ why = "update" /\ hi = vpn2 /\ lo = pt[vpn2]
  BY <1>2 DEF Write
<1>5. /\ Types' /\ JInv' /\ RequestInv' /\ UInv' /\ ProbeInv' /\ SetInv'
      /\ NoDoubleMatch' /\ NoStaleTranslation' /\ ~Written' /\ Index' = Index
      /\ Matches(vpn2)' = Matches(vpn2)
  BY <1>1, <1>3, <1>4, IssueStep
<1>6. pc' = "write" /\ cop0op' = "tlbwi" /\ EntryHi' = hi /\ EntryLo' = lo
  BY <1>4 DEF Issue
<1>7. KernelInv'
  BY <1>1, <1>3, <1>4, <1>5, <1>6 DEF KernelInv, MappedVpn2s, UNIQUE_ENTRYHI
<1>8. Matches(vpn2) \subseteq {Index}
  BY <1>1 DEF TargetInv
<1>9. TargetInv'
  BY <1>1, <1>3, <1>5, <1>6, <1>8 DEF TargetInv
<1> QED BY <1>5, <1>7, <1>9

(* A page table entry that changes waits for its flush. *)
LEMMA SetPteStep ==
  ASSUME Inv, NEW v \in Changing, SetPte(v)
  PROVE  Inv'
<1> USE DEF Inv, Control, Content
<1>1. v \in MappedVpn2s
  BY LinuxTLBParams DEF MappedVpn2s
<1>2. /\ UNCHANGED <<hwvars, pc, vpn2, why>> /\ unflushed' = unflushed \cup {v}
      /\ \E x \in Values : pt' = [pt EXCEPT ![v] = x]
  BY DEF SetPte
<1>3. SwType' /\ \A u \in MappedVpn2s : u # v => pt'[u] = pt[u]
  BY <1>1, <1>2 DEF Types, SwType, MappedVpn2s
<1>4. UNCHANGED <<regvars, cop0vars, jtlbvars, utlbvars>>
  BY <1>2 DEF hwvars
<1>5. RegType' /\ RequestInv'
  BY <1>4 DEF Types, RegType, RequestInv, Writing, regvars, cop0vars
<1>6. JInv'
  BY <1>4 DEF JInv, Writing, regvars, jtlbvars, utlbvars
<1>7. /\ JType' /\ UType' /\ UInv' /\ ProbeInv' /\ SetInv' /\ NoDoubleMatch'
      /\ Written' = Written /\ \A u : Matches(u)' = Matches(u)
  BY <1>4, SameHardware DEF Types
<1>8. KernelInv'
  BY <1>2, <1>3, <1>4 DEF KernelInv, MappedVpn2s, UNIQUE_ENTRYHI, regvars
<1>9. TargetInv'
  BY <1>2, <1>4, <1>7 DEF TargetInv, regvars
<1>10. NoStaleTranslation'
  BY <1>2, <1>3, <1>4 DEF NoStaleTranslation, MappedVpn2s, IsMapped, jtlbvars, utlbvars
<1> QED BY <1>3, <1>5, <1>6, <1>7, <1>8, <1>9, <1>10 DEF Types

(* A miss entry that raises the exception tells the truth: its address has   *)
(* no entry, so that the handler may write one without a probe.              *)
LEMMA RefillStep ==
  ASSUME Inv, NEW p \in Ports, NEW page \in PagesOf(p), Refill(p, page)
  PROVE  Inv'
<1> USE DEF Inv, Control, Content
<1>0. UNCHANGED <<hwvars, pt, unflushed>> /\ pc' = "refill" /\ vpn2' = page[1] /\ why' = "refill"
  BY DEF Refill
<1>1. cop0op = "nop" /\ Pending = {}
  BY NoInstruction DEF Refill, KernelInv
<1>2. page \in Pages /\ Offset(page) \in Sets /\ page[1] \in Vpn2s
  BY Sizes, PageParts
<1>3. PICK u : u = set[p][Offset(page)]
  OBVIOUS
<1>4. u # None /\ u.page = page /\ u.m
  BY <1>3 DEF Refill, Present
<1>5. Good(u)
  BY <1>1, <1>2, <1>3, <1>4 DEF SetInv
<1>6. IsMapped(page[1]) /\ Matches(page[1]) = {}
  BY <1>4, <1>5 DEF Good
<1>7. UNCHANGED <<regvars, cop0vars, jtlbvars, utlbvars>>
  BY <1>0 DEF hwvars
<1>8. RegType' /\ RequestInv' /\ SwType'
  BY <1>0, <1>7 DEF Types, RegType, RequestInv, Writing, SwType, MappedVpn2s, regvars, cop0vars
<1>9. JInv'
  BY <1>7 DEF JInv, Writing, regvars, jtlbvars, utlbvars
<1>10. /\ JType' /\ UType' /\ UInv' /\ ProbeInv' /\ SetInv' /\ NoDoubleMatch'
       /\ \A v : Matches(v)' = Matches(v)
  BY <1>7, SameHardware DEF Types
<1>11. KernelInv'
  BY <1>0, <1>1, <1>2, <1>6, <1>7 DEF KernelInv, MappedVpn2s, IsMapped, regvars
<1>12. TargetInv'
  <2>1. Matches(vpn2)' = Matches(page[1])
    BY <1>0, <1>7 DEF Matches, jtlbvars
  <2> QED BY <1>0, <1>6, <2>1 DEF TargetInv
<1>13. NoStaleTranslation'
  BY <1>0, <1>7 DEF NoStaleTranslation, MappedVpn2s, IsMapped, jtlbvars, utlbvars
<1> QED BY <1>8, <1>9, <1>10, <1>11, <1>12, <1>13 DEF Types

LEMMA ClockStep ==
  ASSUME Inv, Clock
  PROVE  Inv'
<1> USE DEF Inv, Control, Content
<1>1. Cop0Clock /\ JtlbClock
  BY DEF Clock, TlbClock
<1>2. PICK a : Access(a) /\ UtlbClock(a)
  BY ClockAccess DEF Clock
<1>3. RegType' /\ JType'
  BY <1>1, RegStep, JtlbType DEF Types
<1>4. UType' /\ SwType' /\ KernelInv'
  BY <1>2, UtlbType, KernelClock DEF Types
<1>5. UInv'
  BY <1>1, <1>2, PortInv
<1>6. JInv' /\ RequestInv'
  BY <1>1, <1>2, JInvStep, RequestStep
<1>7. ProbeInv' /\ NoDoubleMatch'
  BY <1>1, ProbeStep, DoubleStep
<1>8. SetInv'
  BY <1>1, <1>2, SetStep
<1>9. TargetInv' /\ NoStaleTranslation'
  BY TargetClock, StaleClock
<1> QED BY <1>3, <1>4, <1>5, <1>6, <1>7, <1>8, <1>9 DEF Types

-----------------------------------------------------------------------------
(* The theorems                                                            *)

LEMMA InitInv ==
  ASSUME Init
  PROVE  Inv
<1> USE Sizes, NoneParam DEF Init, TlbInit
<1>0. Invalid \in EntType
  BY DEF Invalid, EntType
<1>1. RegType
  BY DEF RegType
<1>2. JType
  <2>1. 0 \in 0 .. CAM_LATENCY + 1
    OBVIOUS
  <2> QED BY <1>0, <2>1 DEF JType, JStates
<1>3. UType /\ SwType
  BY DEF UType, SwType
<1>4. JInv /\ RequestInv /\ UInv /\ KernelInv
  BY DEF JInv, RequestInv, UInv, KernelInv, Flushing, Probing, Ports
<1>5. ProbeInv /\ SetInv
  BY DEF ProbeInv, Answered, SetInv
<1>6. TargetInv
  BY DEF TargetInv
<1>7. \A i \in Indexes : ents[i].vpn2 = VPN2S
  BY DEF Invalid
<1>8. ~IsMapped(VPN2S)
  BY DEF IsMapped
<1>9. NoDoubleMatch
  BY <1>7, <1>8 DEF NoDoubleMatch
<1>10. NoStaleTranslation
  BY <1>7, <1>8 DEF NoStaleTranslation, MappedVpn2s
<1> QED BY <1>1, <1>2, <1>3, <1>4, <1>5, <1>6, <1>9, <1>10 DEF Inv, Types, Control, Content

LEMMA StutterInv ==
  ASSUME Inv, UNCHANGED vars
  PROVE  Inv'
<1> USE DEF Inv, Control, Content
<1>1. UNCHANGED <<regvars, cop0vars, jtlbvars, utlbvars, pt, unflushed, pc, vpn2, why>>
  BY DEF vars, swvars, hwvars
<1>2. RegType' /\ RequestInv' /\ SwType'
  BY <1>1 DEF Types, RegType, RequestInv, Writing, SwType, MappedVpn2s, regvars, cop0vars
<1>3. JInv'
  BY <1>1 DEF JInv, Writing, regvars, jtlbvars, utlbvars
<1>4. /\ JType' /\ UType' /\ UInv' /\ ProbeInv' /\ SetInv' /\ NoDoubleMatch'
      /\ Written' = Written /\ \A v : Matches(v)' = Matches(v)
  BY <1>1, SameHardware DEF Types
<1>5. KernelInv'
  BY <1>1 DEF KernelInv, MappedVpn2s, UNIQUE_ENTRYHI, regvars
<1>6. TargetInv'
  BY <1>1, <1>4 DEF TargetInv, regvars
<1>7. NoStaleTranslation'
  BY <1>1 DEF NoStaleTranslation, MappedVpn2s, IsMapped, jtlbvars, utlbvars
<1> QED BY <1>2, <1>3, <1>4, <1>5, <1>6, <1>7 DEF Types

LEMMA StepInv == Inv /\ [Next]_vars => Inv'
<1> SUFFICES ASSUME Inv, [Next]_vars PROVE Inv'
  OBVIOUS
<1>1. CASE Clock
  BY <1>1, ClockStep
<1>2. CASE Kernel
  BY <1>2, RefillWriteStep, WriteIssue DEF Kernel
<1>3. CASE \E p \in Ports : \E page \in PagesOf(p) : Refill(p, page)
  BY <1>3, RefillStep
<1>4. CASE \E v \in Changing : SetPte(v)
  BY <1>4, SetPteStep
<1>5. CASE \E v \in Changing : \E w \in {"flush", "update"} : Probe(v, w)
  BY <1>5, ProbeIssue
<1>6. CASE UNCHANGED vars
  BY <1>6, StutterInv
<1> QED BY <1>1, <1>2, <1>3, <1>4, <1>5, <1>6 DEF Next

LEMMA AlwaysInv == Spec => []Inv
<1>1. Init => Inv
  BY InitInv
<1> QED BY <1>1, StepInv, PTL DEF Spec

(* Every register of cop0, the joint TLB and the micro TLBs and every        *)
(* variable of the kernel keeps its type (jtlb.vhd, utlb.vhd, cop0.vhd).     *)
THEOREM TlbTypeSafety == Spec => []TypeOK
<1>1. Inv => TypeOK
  BY TypesSuffice DEF Inv
<1> QED BY <1>1, AlwaysInv, PTL

(* The two levels of the TLB tell one story: no mapped address has two       *)
(* entries of the joint TLB, although the refill handler (tlbex.c) writes    *)
(* without a probe, and when no write is under way a micro TLB says what a   *)
(* probe would bring, misses included: the flush of s_flush3 .. s_flush6     *)
(* (jtlb.vhd) leaves out no set that needs it.                               *)
THEOREM TlbCoherence == Spec => []TlbCoherent
<1>1. Inv => TlbCoherent
  <2> SUFFICES ASSUME Inv PROVE TlbCoherent
    OBVIOUS
  <2>1. NoDoubleMatch
    BY DEF Inv, Content
  <2>2. ASSUME jstate \notin {"s_flush3", "s_flush4", "s_flush5", "s_flush6"}, inv = None,
               NEW p \in Ports, NEW s \in Sets, set[p][s] # None
        PROVE  Good(set[p][s])
    <3>1. Pending = {}
      BY <2>2 DEF Pending
    <3> QED BY <2>2, <3>1 DEF Inv, Content, SetInv
  <2>3. UtlbCoherent
    BY <2>2 DEF UtlbCoherent, Good
  <2> QED BY <2>1, <2>3 DEF TlbCoherent
<1> QED BY <1>1, AlwaysInv, PTL

(* After local_flush_tlb_page (tlb-r4k.c) returned for a page no level of    *)
(* the TLB holds a translation from before the change of its page table      *)
(* entry, whatever refills and updates came between.                         *)
THEOREM StaleSafety == Spec => []NoStaleTranslation
<1>1. Inv => NoStaleTranslation
  BY DEF Inv, Content
<1> QED BY <1>1, AlwaysInv, PTL
=============================================================================
