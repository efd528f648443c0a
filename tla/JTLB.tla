-------------------------------- MODULE JTLB --------------------------------
(***************************************************************************)
(* The two levels of TLB of one processor, clock by clock: the joint TLB   *)
(* (jtlb.vhd with its CAM), the instruction and the data micro TLB         *)
(* (utlb.vhd) that it fills and whose sets it flushes when an entry is     *)
(* written, and the TLB instructions of cop0.vhd.                          *)
(*                                                                         *)
(* Configuration of the board: precise flush, 4K pages only, one way and   *)
(* the same number of sets in both micro TLBs.  A page is a pair of a vpn2 *)
(* and a half; the two translations of a JTLB entry are one value.  One    *)
(* address space: address space identifiers are left out.  The CAM holds   *)
(* what the entry RAM holds, the two are written by one state machine.     *)
(* Registers are reset when nothing reads them any more.                   *)
(***************************************************************************)
EXTENDS Naturals

CONSTANTS
  JTLB_SIZE,     \* entries of the joint TLB
  CAM_LATENCY,   \* clocks the CAM needs
  VPN2S,         \* number of mapped vpn2s; kseg0 follows them
  SETS,          \* vpn2s a micro TLB can hold: 2^(OFFSET_BITS - 1)
  Values,        \* translations
  ItlbPages, DtlbPages,   \* pages the two ports look up
  None           \* no page, no entry

ASSUME TlbParams ==
  /\ JTLB_SIZE \in Nat \ {0} /\ VPN2S \in Nat \ {0} /\ SETS \in Nat \ {0}
  /\ CAM_LATENCY \in Nat \ {0}

Indexes == 0 .. JTLB_SIZE - 1
Ports == {"itlb", "dtlb"}
PagesOf(p) == IF p = "itlb" THEN ItlbPages ELSE DtlbPages
Vpn2s == 0 .. VPN2S + JTLB_SIZE - 1
Halves == {0, 1}
Pages == Vpn2s \X Halves

IsMapped(vpn2) == vpn2 < VPN2S
\* The set of a micro TLB a page goes to.
Offset(page) == <<page[1] % SETS, page[2]>>
Sets == (0 .. SETS - 1) \X Halves

ASSUME TlbPages == ItlbPages \subseteq Pages /\ DtlbPages \subseteq Pages
ASSUME NoneParam ==
  None \notin Ports \cup {"cop0"} /\ None \notin Pages /\ None \notin Sets

\* What translates kseg0, whatever the JTLB holds.
Kseg == "kseg"

\* An entry of a micro TLB: a translation, or a dummy that says "miss" (m).
Uent(page, value) == [page |-> page, m |-> FALSE, value |-> value]
MissUent(page) == [page |-> page, m |-> TRUE, value |-> None]

VARIABLES
  \* software's side: the instruction in S_M1 and the registers it uses
  cop0op, Index, EntryHi, EntryLo,
  \* cop0's registered requests
  tlbw, tlbp, jtlb_index,
  \* joint TLB: entries, state, request served, entry read or written
  ents, jstate, who, jvaddr, counter, ent_addr, ent_d, ent_q, uent,
  \* joint TLB: registered outputs
  ack, inv, tlbw_done,
  \* micro TLBs, per port: RAM, state, probe and its page, entry to write
  set, ustate, jtlb_probe, jtlb_vaddr, we, d

regvars == <<cop0op, Index, EntryHi, EntryLo>>
cop0vars == <<tlbw, tlbp, jtlb_index>>
jtlbvars == <<ents, jstate, who, jvaddr, counter, ent_addr, ent_d, ent_q, uent,
              ack, inv, tlbw_done>>
utlbvars == <<set, ustate, jtlb_probe, jtlb_vaddr, we, d>>
hwvars == <<regvars, cop0vars, jtlbvars, utlbvars>>

Invalid == [vpn2 |-> VPN2S, value |-> None]

\* After reset: every JTLB entry has an address of kseg0, which never matches.
TlbInit ==
  /\ cop0op = "nop" /\ Index = 0 /\ EntryHi = VPN2S /\ EntryLo = None
  /\ tlbw = FALSE /\ tlbp = FALSE /\ jtlb_index = 0
  /\ ents = [i \in Indexes |-> Invalid]
  /\ jstate = "s_idle" /\ who = None /\ jvaddr = None /\ counter = 0
  /\ ent_addr = 0 /\ ent_d = Invalid /\ ent_q = Invalid /\ uent = None
  /\ ack = None /\ inv = None /\ tlbw_done = FALSE
  /\ set = [p \in Ports |-> [s \in Sets |-> None]]
  /\ ustate = [p \in Ports |-> "s_idle"]
  /\ jtlb_probe = [p \in Ports |-> FALSE]
  /\ jtlb_vaddr = [p \in Ports |-> None]
  /\ we = [p \in Ports |-> FALSE] /\ d = [p \in Ports |-> None]

-----------------------------------------------------------------------------
(* cop0.vhd: TLB instructions                                              *)

Writing == cop0op \in {"tlbwi", "tlbwr"}

\* Slip: tlbp waits for a match.
cop_ackOfMatch == ack = "cop0" /\ ~uent.m

\* jtlb.vhd raises cop_ack whether the probe of an instruction matched or not
\* (do_nack), so cop_nack is never seen and bit 31 of Index stays clear.
cop_ack == ack = "cop0"

\* The instruction in S_M1 waits for the JTLB.
Finishes == (Writing /\ tlbw_done) \/ (cop0op = "tlbp" /\ cop_ack)

\* Random runs with the clock: any index.
Cop0Clock ==
  /\ tlbw' = (Writing /\ ~tlbw_done)
  /\ tlbp' = (cop0op = "tlbp" /\ ~cop_ack)
  /\ \/ cop0op = "tlbwi" /\ jtlb_index' = Index
     \/ cop0op = "tlbwr" /\ jtlb_index' \in Indexes
     \/ ~Writing /\ jtlb_index' = 0
  /\ Index' = IF cop0op = "tlbp" /\ cop_ack THEN ent_addr
              ELSE IF Finishes THEN 0 ELSE Index
  /\ cop0op' = IF Finishes THEN "nop" ELSE cop0op
  /\ EntryHi' = IF Finishes THEN VPN2S ELSE EntryHi
  /\ EntryLo' = IF Finishes THEN None ELSE EntryLo

-----------------------------------------------------------------------------
(* jtlb.vhd                                                                *)

\* Outputs that last one clock unless set again.
Quiet == ack' = None /\ inv' = None /\ tlbw_done' = FALSE

Goto(s) == jstate' = s

\* A probe for a port, or for tlbp.
StartProbe(w, page) ==
  /\ who' = w /\ jvaddr' = page /\ Goto("s_probe1")
  /\ UNCHANGED <<ent_addr, ent_d>>

\* Priority: write, tlbp, data, instruction.
JIdle ==
  /\ jstate = "s_idle" /\ Quiet
  /\ \/ /\ tlbw
        /\ ent_addr' = jtlb_index
        /\ ent_d' = [vpn2 |-> EntryHi, value |-> EntryLo]
        /\ Goto("s_flush1") /\ UNCHANGED <<who, jvaddr>>
     \/ ~tlbw /\ tlbp /\ StartProbe("cop0", <<EntryHi, 0>>)
     \/ /\ ~tlbw /\ ~tlbp /\ jtlb_probe["dtlb"]
        /\ StartProbe("dtlb", jtlb_vaddr["dtlb"])
     \/ /\ ~tlbw /\ ~tlbp /\ ~jtlb_probe["dtlb"] /\ jtlb_probe["itlb"]
        /\ StartProbe("itlb", jtlb_vaddr["itlb"])
     \/ /\ ~tlbw /\ ~tlbp /\ \A p \in Ports : ~jtlb_probe[p]
        /\ UNCHANGED <<jstate, who, jvaddr, ent_addr, ent_d>>
  /\ counter' = IF jstate' = "s_probe1" THEN CAM_LATENCY + 1 ELSE 0
  /\ UNCHANGED <<ents, ent_q, uent>>

\* Clocks that only wait for a RAM.
JWait ==
  /\ jstate \in {"s_flush1", "s_probe2"} /\ Quiet
  /\ Goto(IF jstate = "s_flush1" THEN "s_flush2" ELSE "s_probe3")
  /\ UNCHANGED <<ents, who, jvaddr, counter, ent_addr, ent_d, ent_q, uent>>

\* A clock for the one who asked to take its request back.
JReturn ==
  /\ jstate = "s_return" /\ Quiet /\ Goto("s_idle")
  /\ who' = None /\ jvaddr' = None /\ counter' = 0 /\ uent' = None
  /\ ent_d' = Invalid /\ ent_q' = Invalid
  /\ UNCHANGED <<ents, ent_addr>>

\* The old entry is read before the new one is written.
JFlush2 ==
  /\ jstate = "s_flush2" /\ Quiet
  /\ ent_q' = ents[ent_addr]
  /\ ents' = [ents EXCEPT ![ent_addr] = ent_d]
  /\ Goto("s_flush3")
  /\ UNCHANGED <<who, jvaddr, counter, ent_addr, ent_d, uent>>

\* One set of both micro TLBs is flushed.
Flush(vpn2, half, next) ==
  /\ inv' = Offset(<<vpn2, half>>) /\ ack' = None
  /\ Goto(next)
  /\ UNCHANGED <<ents, who, jvaddr, counter, ent_addr, ent_d, ent_q, uent>>

\* Slip: the sets of the old entry are not flushed.
NeedsFlushNever == FALSE

NeedsFlush == Offset(<<ent_q.vpn2, 0>>) # Offset(<<ent_d.vpn2, 0>>)

\* Slip: only the even half of the new entry is flushed.
JFlushEven ==
  \/ jstate = "s_flush3" /\ Flush(ent_d.vpn2, 0, "s_flush4") /\ tlbw_done' = FALSE
  \/ /\ jstate = "s_flush4"
     /\ Flush(ent_d.vpn2, 0, IF NeedsFlush THEN "s_flush5" ELSE "s_return")
     /\ tlbw_done' = ~NeedsFlush
  \/ jstate = "s_flush5" /\ Flush(ent_q.vpn2, 0, "s_flush6") /\ tlbw_done' = FALSE
  \/ jstate = "s_flush6" /\ Flush(ent_q.vpn2, 1, "s_return") /\ tlbw_done' = TRUE

\* Both halves of the new entry, then of the old one unless it has the same
\* sets.
JFlush ==
  \/ jstate = "s_flush3" /\ Flush(ent_d.vpn2, 0, "s_flush4") /\ tlbw_done' = FALSE
  \/ /\ jstate = "s_flush4"
     /\ Flush(ent_d.vpn2, 1, IF NeedsFlush THEN "s_flush5" ELSE "s_return")
     /\ tlbw_done' = ~NeedsFlush
  \/ jstate = "s_flush5" /\ Flush(ent_q.vpn2, 0, "s_flush6") /\ tlbw_done' = FALSE
  \/ jstate = "s_flush6" /\ Flush(ent_q.vpn2, 1, "s_return") /\ tlbw_done' = TRUE

Matches(vpn2) == {i \in Indexes : ents[i].vpn2 = vpn2}

\* kseg0 is built in for the two ports; the CAM answers after its latency, the
\* lowest index first.
JProbe1 ==
  /\ jstate = "s_probe1" /\ Quiet
  /\ counter' = IF counter = 0 THEN 0 ELSE counter - 1
  /\ \/ /\ who # "cop0" /\ ~IsMapped(jvaddr[1])
        /\ ent_q' = [vpn2 |-> jvaddr[1], value |-> Kseg]
        /\ Goto("s_probe4") /\ UNCHANGED <<ent_addr, uent>>
     \/ /\ who = "cop0" \/ IsMapped(jvaddr[1])
        /\ counter # 0
        /\ UNCHANGED <<jstate, ent_q, ent_addr, uent>>
     \/ /\ who = "cop0" \/ IsMapped(jvaddr[1])
        /\ counter = 0 /\ Matches(jvaddr[1]) # {}
        /\ ent_addr' = CHOOSE i \in Matches(jvaddr[1]) :
                         \A j \in Matches(jvaddr[1]) : i <= j
        /\ Goto("s_probe2") /\ UNCHANGED <<ent_q, uent>>
     \/ /\ who = "cop0" \/ IsMapped(jvaddr[1])
        /\ counter = 0 /\ Matches(jvaddr[1]) = {}
        /\ uent' = MissUent(jvaddr)
        /\ Goto("s_nack") /\ UNCHANGED <<ent_q, ent_addr>>
  /\ UNCHANGED <<ents, who, jvaddr, ent_d>>

JProbe3 ==
  /\ jstate = "s_probe3" /\ Quiet
  /\ ent_q' = ents[ent_addr] /\ Goto("s_probe4")
  /\ UNCHANGED <<ents, who, jvaddr, counter, ent_addr, ent_d, uent>>

JProbe4 ==
  /\ jstate = "s_probe4" /\ Quiet
  /\ uent' = Uent(jvaddr, ent_q.value) /\ Goto("s_probe5")
  /\ UNCHANGED <<ents, who, jvaddr, counter, ent_addr, ent_d, ent_q>>

\* Slip: a miss is not answered.
JAnswerNoNack ==
  /\ jstate \in {"s_probe5", "s_nack"}
  /\ ack' = (IF jstate = "s_nack" THEN None ELSE who)
  /\ inv' = None /\ tlbw_done' = FALSE
  /\ Goto("s_return")
  /\ UNCHANGED <<ents, who, jvaddr, counter, ent_addr, ent_d, ent_q, uent>>

\* do_ack and do_nack: uent goes out to the one who asked.
JAnswer ==
  /\ jstate \in {"s_probe5", "s_nack"}
  /\ ack' = who /\ inv' = None /\ tlbw_done' = FALSE
  /\ Goto("s_return")
  /\ UNCHANGED <<ents, who, jvaddr, counter, ent_addr, ent_d, ent_q, uent>>

JtlbClock ==
  \/ JIdle \/ JWait \/ JReturn \/ JFlush2 \/ JFlush
  \/ JProbe1 \/ JProbe3 \/ JProbe4 \/ JAnswer

-----------------------------------------------------------------------------
(* utlb.vhd                                                                *)

\* A port finds its page, a translation or a miss entry.
Present(p, page) ==
  set[p][Offset(page)] # None /\ set[p][Offset(page)].page = page

\* One clock of both; access: the page a port stalls for, if any (an access
\* that finds its page, or is killed, changes nothing).  A flush takes the
\* write port from a fill.
UtlbClock(access) ==
  LET start == {p \in Ports : ustate[p] = "s_idle" /\ access[p] # None}
      taken == {p \in Ports : ustate[p] = "s_probe" /\ ack = p} IN
  /\ set' = [p \in Ports |->
       IF inv # None THEN [set[p] EXCEPT ![inv] = None]
       ELSE IF we[p] THEN [set[p] EXCEPT ![Offset(jtlb_vaddr[p])] = d[p]]
       ELSE set[p]]
  /\ we' = [p \in Ports |-> p \in taken]
  /\ d' = [p \in Ports |-> IF p \in taken THEN uent ELSE None]
  /\ jtlb_vaddr' = [p \in Ports |->
       IF p \in start THEN access[p] ELSE IF we[p] THEN None ELSE jtlb_vaddr[p]]
  /\ jtlb_probe' = [p \in Ports |->
       (jtlb_probe[p] \/ p \in start) /\ p \notin taken]
  /\ ustate' = [p \in Ports |->
       CASE p \in start -> "s_probe"
         [] p \in taken -> "s_return1"
         [] ustate[p] = "s_return1" -> "s_return2"
         [] ustate[p] = "s_return2" -> "s_idle"
         [] OTHER -> ustate[p]]

\* Pages an idle port may stall for.
Stalls(p) ==
  {None} \cup {page \in PagesOf(p) :
                ustate[p] = "s_idle" /\ ~Present(p, page)}

TlbClock ==
  /\ Cop0Clock /\ JtlbClock
  /\ \E i \in Stalls("itlb"), dt \in Stalls("dtlb") :
       UtlbClock([p \in Ports |-> IF p = "itlb" THEN i ELSE dt])
=============================================================================
