------------------------------ MODULE LinuxTLB ------------------------------
(***************************************************************************)
(* The kernel's handling of the TLB of one processor, over JTLB: the       *)
(* refill handler (tlbex.c), __update_tlb and local_flush_tlb_page         *)
(* (tlb-r4k.c).  Page table entries change at any time, on any processor;  *)
(* whoever changes one has it flushed here afterwards, in an interrupt or  *)
(* a call (flush_tlb_page).  All three run with interrupts off.            *)
(***************************************************************************)
EXTENDS JTLB

CONSTANT Changing   \* vpn2s whose page table entries change

ASSUME LinuxTLBParams == Changing \subseteq {v \in Vpn2s : IsMapped(v)}

VARIABLES
  pt,        \* page table: per mapped vpn2 its translation
  unflushed, \* vpn2s changed and not yet flushed on this processor
  pc,        \* step of the kernel; "run" outside of the three
  vpn2,      \* what the step is about
  why        \* "flush" or "update", for the steps they share

swvars == <<pt, unflushed, pc, vpn2, why>>
vars == <<hwvars, swvars>>

MappedVpn2s == {v \in Vpn2s : IsMapped(v)}

\* Slip: off by one.
UNIQUE_ENTRYHINext(i) == VPN2S + i + 1

\* UNIQUE_ENTRYHI: an address of kseg0 for every index.
UNIQUE_ENTRYHI(i) == VPN2S + i

Init ==
  /\ TlbInit
  /\ pt \in [MappedVpn2s -> Values]
  /\ unflushed = {} /\ pc = "run" /\ vpn2 = None /\ why = None

\* Starts a TLB instruction with what the registers hold then.
Issue(op, hi, lo, next) ==
  /\ cop0op' = op /\ EntryHi' = hi /\ EntryLo' = lo
  /\ pc' = next
  /\ UNCHANGED <<Index, cop0vars, jtlbvars, utlbvars>>

\* set_pte on some processor, also while a flush is under way here.
SetPte(v) ==
  /\ \E x \in Values \ {pt[v]} : pt' = [pt EXCEPT ![v] = x]
  /\ unflushed' = unflushed \cup {v}
  /\ UNCHANGED <<hwvars, pc, vpn2, why>>

\* An access or fetch finds a miss entry: the refill exception.
Refill(p, page) ==
  /\ pc = "run" /\ Present(p, page) /\ set[p][Offset(page)].m
  /\ pc' = "refill" /\ vpn2' = page[1] /\ why' = "refill"
  /\ UNCHANGED <<hwvars, pt, unflushed>>

\* The refill handler loads the entry and writes it at a random index.
RefillWrite ==
  /\ pc = "refill"
  /\ Issue("tlbwr", vpn2, pt[vpn2], "write")
  /\ UNCHANGED <<pt, unflushed, vpn2, why>>

\* __update_tlb and local_flush_tlb_page probe for the address; a flush when
\* nothing has changed since the last one is left out.
Probe(v, w) ==
  /\ pc = "run" /\ (w = "flush" => v \in unflushed)
  /\ Issue("tlbp", v, None, "probe")
  /\ vpn2' = v /\ why' = w
  /\ UNCHANGED <<pt, unflushed>>

\* A match is overwritten, by a unique address or by the entry of the page
\* table.  Index is never negative (see cop_ack).
Write ==
  /\ pc = "probed"
  /\ \/ why = "flush" /\ Issue("tlbwi", UNIQUE_ENTRYHI(Index), None, "write")
     \/ why = "update" /\ Issue("tlbwi", vpn2, pt[vpn2], "write")
  /\ UNCHANGED <<pt, unflushed, vpn2, why>>

\* A clock of the hardware; the instruction in S_M1 may finish with it.
Clock ==
  /\ TlbClock
  /\ pc' = IF ~Finishes THEN pc ELSE IF pc = "probe" THEN "probed" ELSE "run"
  /\ unflushed' = IF Finishes /\ pc = "write" /\ why = "flush"
                  THEN unflushed \ {vpn2} ELSE unflushed
  /\ vpn2' = IF pc' = "run" THEN None ELSE vpn2
  /\ why' = IF pc' = "run" THEN None ELSE why
  /\ UNCHANGED pt

Kernel == RefillWrite \/ Write

Next ==
  \/ Clock \/ Kernel
  \/ \E p \in Ports : \E page \in PagesOf(p) : Refill(p, page)
  \/ \E v \in Changing : SetPte(v) \/ \E w \in {"flush", "update"} : Probe(v, w)

Spec == Init /\ [][Next]_vars

\* The clock runs, and the kernel goes on with what it began.
FairSpec == Spec /\ WF_vars(Clock) /\ WF_vars(Kernel)

-----------------------------------------------------------------------------
(* Properties                                                              *)

UentType == [page : Pages, m : BOOLEAN, value : Values \cup {Kseg, None}]
EntType == [vpn2 : Vpn2s, value : Values \cup {Kseg, None}]

\* Every register of the TLB and variable of the kernel has its type.
TypeOK ==
  /\ cop0op \in {"nop", "tlbp", "tlbwi", "tlbwr"} /\ Index \in Indexes
  /\ EntryHi \in Vpn2s /\ EntryLo \in Values \cup {None}
  /\ tlbw \in BOOLEAN /\ tlbp \in BOOLEAN /\ jtlb_index \in Indexes
  /\ ents \in [Indexes -> EntType] /\ ent_addr \in Indexes
  /\ ent_d \in EntType /\ ent_q \in EntType
  /\ who \in Ports \cup {"cop0", None} /\ jvaddr \in Pages \cup {None}
  /\ counter \in 0 .. CAM_LATENCY + 1
  /\ uent \in UentType \cup {None} /\ ack \in Ports \cup {"cop0", None}
  /\ inv \in Sets \cup {None} /\ tlbw_done \in BOOLEAN
  /\ set \in [Ports -> [Sets -> UentType \cup {None}]]
  /\ ustate \in [Ports -> {"s_idle", "s_probe", "s_return1", "s_return2"}]
  /\ pt \in [MappedVpn2s -> Values] /\ unflushed \subseteq MappedVpn2s
  /\ pc \in {"run", "refill", "probe", "probed", "write"}

\* No two JTLB entries match one address, although the refill handler writes
\* without a probe: when it runs, its address really has no entry.
NoDoubleMatch ==
  \A i, j \in Indexes :
    i # j /\ ents[i].vpn2 = ents[j].vpn2 => ~IsMapped(ents[i].vpn2)

\* When no write is under way, a micro TLB holds what a probe of the JTLB
\* would bring: the same translation, and a miss entry only for an address
\* that has none.
UtlbCoherent ==
  jstate \notin {"s_flush3", "s_flush4", "s_flush5", "s_flush6"} /\ inv = None =>
    \A p \in Ports, s \in Sets : set[p][s] # None =>
      LET u == set[p][s] IN
      IF ~IsMapped(u.page[1]) THEN ~u.m /\ u.value = Kseg
      ELSE IF u.m THEN Matches(u.page[1]) = {}
      ELSE \E i \in Indexes : ents[i] = [vpn2 |-> u.page[1], value |-> u.value]

\* The two levels of the TLB (jtlb.vhd, utlb.vhd) tell one story.
TlbCoherent == NoDoubleMatch /\ UtlbCoherent

\* Once a changed page table entry was flushed, no translation made from the
\* old one is left, neither in the JTLB nor in a micro TLB.
NoStaleTranslation ==
  \A v \in MappedVpn2s \ unflushed :
    /\ \A i \in Indexes : ents[i].vpn2 = v => ents[i].value = pt[v]
    /\ \A p \in Ports, s \in Sets :
         LET u == set[p][s] IN
         u # None /\ u.page[1] = v /\ ~u.m => u.value = pt[v]

\* A data access that asks is answered, also while TLB instructions keep
\* coming, which go first.
DataAnswered == jtlb_probe["dtlb"] ~> ~jtlb_probe["dtlb"]

\* So is a fetch while data accesses keep coming, unless TLB instructions do
\* (which would have to be fetched).
FetchAnswered ==
  []<>~jtlb_probe["itlb"] \/ []<>(cop0op # "nop")

\* Both micro TLBs are answered (the priorities of jtlb.vhd).
PortsAnswered == DataAnswered /\ FetchAnswered

\* A TLB instruction finishes: cop0 and the JTLB do not lose each other.
InstructionFinishes == cop0op # "nop" ~> cop0op = "nop"
=============================================================================
