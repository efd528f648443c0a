---------------------------- MODULE YatseRxProofs ----------------------------
(***************************************************************************)
(* What holds of the receive side of the Ethernet DMA engine and its       *)
(* driver for every ring, bus width, set of frames and set of buffers, and *)
(* every NAPI weight.  The inductive invariant comes in four layers: types *)
(* and control state, the walk around the ring, who owns a buffer, what is *)
(* in it.                                                                  *)
(***************************************************************************)
EXTENDS YatseRx, NumberLemmas, FiniteSetTheorems, TLAPS

N == 2^RX_RING_BITS

(* NAPI: a poll looks at the ring only while it is scheduled, and it is      *)
(* scheduled only between napi_enable and the return of napi_disable.  After *)
(* __napi_complete it holds rx_lock, which yatse_dma_stop waits for.         *)
NapiInv ==
  /\ poll \notin {"idle", "ie_on", "unlock"} => poll_list
  /\ poll \in {"ie_on", "unlock"} => ~poll_list
  /\ poll_list => napi_sched
  /\ dev \notin {"up", "disabling"} => napi_sched /\ ~poll_list
  /\ poll # "idle" => dev \in {"up", "disabling", "quiet"}

(* yatse_stop: disable_irq leaves no handler, yatse_dma_stop no RXIE. *)
StopInv ==
  /\ ~irq_enabled => ~isr
  /\ dev \in {"halted", "disabling_again"} => ~irq_enabled /\ ~rcontrol.ie

(* yatse_rx_poll: what it has found out and what it holds in old_skb. *)
PollInv ==
  /\ poll \in {"complete", "ack", "take", "give", "deliver"} => budget > 0
  /\ poll \in {"ack", "take", "give"} => ~rx_desc[rx_pos].hw
  /\ poll = "give" => rx_desc[rx_pos].len = RXLEN
  /\ poll = "deliver" => old # NoFrameUp
  /\ poll \notin {"give", "deliver"} => old = NoFrameUp

(* The engine inside a frame: the MAC presents the beat that goes to         *)
(* rx_offset, and the descriptor is its own.                                 *)
FrameInv ==
  /\ rx_running => /\ mac # NoFrame /\ mac.pos = rx_offset
                   /\ rx_desc[rx_desc_curaddr].hw /\ ~rx_done
  /\ ~rx_running => rx_offset = 0
  /\ mac # NoFrame => mac.pos < mac.len /\ mac.pos % BUS_BYTES = 0

(* Before yatse_open: nothing moves. *)
ClosedInv ==
  dev = "closed" => /\ mac = NoFrame /\ ~rx_running
                    /\ free = SKBs /\ stack = {} /\ old = NoFrameUp

(* Who has a buffer: the ring, the allocator, the protocol stack or the      *)
(* poll.                                                                     *)
OwnerInv ==
  dev # "closed" =>
    /\ \A i \in Ring :
         /\ rx_desc[i].skb = rx_skbs[i] /\ rx_skbs[i] \in SKBs
         /\ rx_skbs[i] \notin free \cup stack \cup {old.skb}
         /\ rx_desc[i].hw => rx_desc[i].len = RXLEN
         /\ \A j \in Ring : rx_skbs[i] = rx_skbs[j] => i = j
    /\ \A s \in free : s \notin stack
    /\ old.skb \notin free \cup stack
    /\ old = NoFrameUp \/ old.skb \in SKBs

(* A buffer with a whole frame in it. *)
Whole(m) == m.got = Beats(m.len)

(* The engine has written the beats before rx_offset of the frame it is in,  *)
(* and all beats of the frames it has completed.                             *)
ContentInv ==
  /\ rx_running =>
       LET m == mem[rx_skbs[rx_desc_curaddr]]
       IN  m.len = mac.len /\ m.got = {o \in Beats(mac.len) : o < rx_offset}
  /\ dev # "closed" =>
       \A i \in Completed : (poll = "give" => i # rx_pos) =>
         /\ Whole(mem[rx_skbs[i]])
         /\ rx_desc[i].len = mem[rx_skbs[i]].len
  /\ DeliveredIntact

-----------------------------------------------------------------------------
(* Arithmetic of rings and beats                                           *)

LEMMA Size == N \in Nat /\ N >= 2 /\ Ring = 0 .. N - 1
BY RxRingSize DEF N, Ring

-----------------------------------------------------------------------------
(* Layer 1: types and control state                                        *)

HwType ==
  /\ rx_desc \in [Ring -> Descs]
  /\ rx_desc_curaddr \in Ring /\ rx_offset \in Nat
  /\ rx_running \in BOOLEAN /\ rx_done \in BOOLEAN
  /\ rx_irq_count \in 0 .. 2 * N - 1
  /\ rx_irq_done \in BOOLEAN
  /\ rcontrol \in [ena : BOOLEAN, ie : BOOLEAN, is : BOOLEAN]
  /\ mac \in Frames \cup {NoFrame}
  /\ mem \in [SKBs -> [len : Nat, got : SUBSET Nat]]

DrvType ==
  /\ dev \in {"closed", "dma", "mac", "up", "disabling", "quiet", "halted",
              "disabling_again", "stopped"}
  /\ rx_pos \in Ring /\ rx_skbs \in [Ring -> SKBs \cup {NoSkb}]
  /\ isr \in BOOLEAN /\ irq_enabled \in BOOLEAN
  /\ napi_sched \in BOOLEAN /\ napi_disable \in BOOLEAN
  /\ poll_list \in BOOLEAN
  /\ poll \in {"idle", "check", "complete", "ie_on", "unlock", "ack", "take",
               "give", "deliver", "return"}
  /\ budget \in 0 .. Weight
  /\ old \in [skb : SKBs \cup {NoSkb}, len : Nat]
  /\ free \subseteq SKBs /\ stack \subseteq SKBs

LEMMA TypeSplit == TypeOK <=> HwType /\ DrvType
BY RxRingSize DEF TypeOK, HwType, DrvType, N

Types == HwType /\ DrvType
Control == NapiInv /\ StopInv /\ PollInv /\ FrameInv /\ ClosedInv /\ OwnerInv

(***************************************************************************)
(* What a clock edge does to the descriptor the engine works on and to the *)
(* engine, in the three cases: a frame ends, a frame goes on, there is     *)
(* none.                                                                   *)
(***************************************************************************)
DescKept == /\ rx_desc' = [rx_desc EXCEPT ![rx_desc_curaddr] = rx_desc'[rx_desc_curaddr]]
            /\ rx_desc'[rx_desc_curaddr].skb = rx_desc[rx_desc_curaddr].skb
            /\ rx_desc'[rx_desc_curaddr] \in Descs

EdgeEnds ==
  /\ rx_desc[rx_desc_curaddr].hw /\ ~rx_done /\ mac # NoFrame
  /\ DescKept /\ ~rx_desc'[rx_desc_curaddr].hw
  /\ ~rx_running' /\ rx_done' /\ rx_offset' = 0
  /\ rx_desc_curaddr' = rx_desc_curaddr

EdgeRuns ==
  /\ rx_desc[rx_desc_curaddr].hw /\ ~rx_done /\ mac # NoFrame
  /\ DescKept /\ rx_desc'[rx_desc_curaddr].hw
  /\ rx_desc'[rx_desc_curaddr].len = rx_desc[rx_desc_curaddr].len
  /\ rx_running' /\ ~rx_done'
  /\ rx_desc_curaddr' = rx_desc_curaddr

EdgeIdles ==
  /\ DescKept /\ rx_desc'[rx_desc_curaddr].hw = rx_desc[rx_desc_curaddr].hw
  /\ rx_desc'[rx_desc_curaddr].len = rx_desc[rx_desc_curaddr].len
  /\ ~rx_running /\ ~rx_running' /\ ~rx_done' /\ rx_offset' = 0
  /\ rx_desc_curaddr' = IF rx_done THEN RingNext(rx_desc_curaddr)
                        ELSE rx_desc_curaddr

(* A frame that starts or goes on: its next beat goes to rx_offset. *)
LEMMA RunFacts ==
  ASSUME HwType, FrameInv, NEW halt \in BOOLEAN, rx_run(halt)
  PROVE  /\ mac # NoFrame /\ mac \in Frames /\ mac.pos = rx_offset
         /\ rx_desc[rx_desc_curaddr].hw /\ ~rx_done
         /\ Taken(halt) <=> ~halt
<1>1. CASE rx_running
  BY <1>1 DEF FrameInv, HwType, Taken, rxs_ready, rxs_valid, rx_desc_q
<1>2. CASE ~rx_running
  BY <1>2 DEF rx_run, rx_start, FrameInv, HwType, Taken, rxs_ready, rxs_valid,
              rxs_sop, rx_desc_q
<1> QED BY <1>1, <1>2

(* The length the engine reports fits the descriptor. *)
LEMMA LengthNat ==
  ASSUME HwType, FrameInv, NEW halt \in BOOLEAN, rx_run(halt)
  PROVE  /\ rx_offset + BUS_BYTES - rxs_empty \in Nat
         /\ rxs_eop => rx_offset + BUS_BYTES - rxs_empty = mac.len
<1>1. mac # NoFrame /\ mac.pos = rx_offset
  BY RunFacts
<1>2. mac.len \in Nat /\ mac.pos \in Nat /\ BUS_BYTES \in Nat \ {0}
  BY <1>1, RxParams DEF HwType, Frames
<1>3. CASE rxs_eop
  BY <1>1, <1>2, <1>3 DEF rxs_empty, rxs_eop
<1>4. CASE ~rxs_eop
  BY <1>1, <1>2, <1>4 DEF rxs_empty
<1> QED BY <1>3, <1>4

(* A descriptor with three of its fields changed. *)
LEMMA DescUpdate ==
  \A d \in Descs : \A a, b, l :
    [d EXCEPT !.error = a, !.hw = b, !.len = l]
      = [hw |-> b, error |-> a, len |-> l, skb |-> d.skb]
<1> SUFFICES ASSUME NEW d \in Descs, NEW a, NEW b, NEW l
             PROVE  [d EXCEPT !.error = a, !.hw = b, !.len = l]
                      = [hw |-> b, error |-> a, len |-> l, skb |-> d.skb]
  OBVIOUS
<1>1. PICK x, y, z, t : d = [hw |-> x, error |-> y, len |-> z, skb |-> t]
  BY DEF Descs
<1>2. [d EXCEPT !.error = a] = [hw |-> x, error |-> a, len |-> z, skb |-> t]
  BY <1>1
<1>3. [[hw |-> x, error |-> a, len |-> z, skb |-> t] EXCEPT !.hw = b]
        = [hw |-> b, error |-> a, len |-> z, skb |-> t]
  OBVIOUS
<1>4. [[hw |-> b, error |-> a, len |-> z, skb |-> t] EXCEPT !.len = l]
        = [hw |-> b, error |-> a, len |-> l, skb |-> t]
  OBVIOUS
<1>5. d.skb = t
  BY <1>1
<1> QED BY <1>2, <1>3, <1>4, <1>5

LEMMA EdgeCases ==
  ASSUME HwType, FrameInv, NEW csr, NEW halt \in BOOLEAN, RxEdge(csr, halt)
  PROVE  \/ rx_end(halt) /\ EdgeEnds
         \/ rx_run(halt) /\ ~rx_end(halt) /\ EdgeRuns
         \/ ~rx_run(halt) /\ EdgeIdles
<1> DEFINE d == rx_desc[rx_desc_curaddr]
           e == UpdateDesc(halt)
<1>1. d \in Descs /\ rx_desc_curaddr \in Ring
  BY DEF HwType
<1>2. /\ e.skb = d.skb /\ (e.hw <=> d.hw /\ ~rx_end(halt))
      /\ e.hw \in BOOLEAN /\ e.error \in BOOLEAN
      /\ e.len = IF rx_end(halt) THEN rx_offset + BUS_BYTES - rxs_empty
                 ELSE d.len
      /\ e = [hw |-> e.hw, error |-> e.error, len |-> e.len, skb |-> e.skb]
  <2> DEFINE a == d.error \/ (Taken(halt) /\ rxs_error)
             b == d.hw /\ ~rx_end(halt)
             l == IF rx_end(halt) THEN rx_offset + BUS_BYTES - rxs_empty
                  ELSE d.len
  <2>1. e = [d EXCEPT !.error = a, !.hw = b, !.len = l]
    BY DEF UpdateDesc, rx_desc_q
  <2>2. a \in BOOLEAN /\ b \in BOOLEAN
    OBVIOUS
  <2> HIDE DEF a, b, l, e, d
  <2>3. e = [hw |-> b, error |-> a, len |-> l, skb |-> d.skb]
    BY <1>1, <2>1, DescUpdate, Zenon
  <2>4. e.skb = d.skb /\ e.hw = b /\ e.error = a /\ e.len = l
    BY <2>3
  <2> QED BY <2>2, <2>3, <2>4 DEF b, l
<1>3. rx_end(halt) => rx_run(halt)
  BY DEF rx_end
<1>4. e.len \in Nat
  BY <1>1, <1>2, <1>3, LengthNat DEF Descs
<1>5. e \in Descs
  BY <1>1, <1>2, <1>4 DEF Descs
<1>6. rx_desc' = [rx_desc EXCEPT ![rx_desc_curaddr] = e]
  BY DEF RxEdge
<1> HIDE DEF d, e
<1>7. rx_desc'[rx_desc_curaddr] = e
  BY <1>1, <1>6 DEF HwType
<1>8. DescKept
  BY <1>2, <1>5, <1>6, <1>7 DEF DescKept, d
<1>9. CASE rx_end(halt)
  <2>1. mac # NoFrame /\ d.hw /\ ~rx_done
    BY <1>3, <1>9, RunFacts DEF d
  <2> QED BY <1>2, <1>7, <1>8, <1>9, <2>1 DEF EdgeEnds, RxEdge, d
<1>10. CASE rx_run(halt) /\ ~rx_end(halt)
  <2>1. mac # NoFrame /\ d.hw /\ ~rx_done
    BY <1>10, RunFacts DEF d
  <2> QED BY <1>2, <1>7, <1>8, <1>10, <2>1 DEF EdgeRuns, RxEdge, d
<1>11. CASE ~rx_run(halt)
  <2>1. ~rx_running /\ ~rx_end(halt) /\ rx_offset = 0
    BY <1>3, <1>11 DEF rx_run, FrameInv, HwType
  <2>2. e.hw = d.hw
    BY <1>1, <1>2, <2>1 DEF Descs
  <2> QED BY <1>2, <1>7, <1>8, <1>11, <2>1, <2>2 DEF EdgeIdles, RxEdge, d
<1> QED BY <1>9, <1>10, <1>11

(* What the MAC presents after a clock edge. *)
LEMMA EdgeMac ==
  ASSUME HwType, FrameInv, NEW csr, NEW halt \in BOOLEAN, RxEdge(csr, halt)
  PROVE  /\ \/ ~Taken(halt) /\ mac' = mac
            \/ Taken(halt) /\ rxs_eop /\ mac' = NoFrame
            \/ /\ Taken(halt) /\ ~rxs_eop /\ mac # NoFrame
               /\ mac' \in Frames /\ mac' # NoFrame
               /\ mac'.pos = mac.pos + BUS_BYTES /\ mac'.len = mac.len
         /\ mac' \in Frames \cup {NoFrame}
         /\ mac' # NoFrame => mac'.pos < mac'.len /\ mac'.pos % BUS_BYTES = 0
<1>1. CASE ~Taken(halt)
  BY <1>1 DEF HwType, FrameInv, RxEdge
<1>2. CASE Taken(halt) /\ rxs_eop
  BY <1>2 DEF RxEdge
<1>3. CASE Taken(halt) /\ ~rxs_eop
  <2>1. mac # NoFrame /\ mac \in Frames
    BY <1>3 DEF Taken, rxs_valid, HwType
  <2>2. mac' = [mac EXCEPT !.pos = mac.pos + BUS_BYTES]
    BY <1>3 DEF RxEdge
  <2>3. mac.pos \in Nat /\ mac.len \in Nat /\ BUS_BYTES \in Nat \ {0}
    BY <2>1, RxParams DEF Frames
  <2>4. mac' \in Frames /\ mac'.pos = mac.pos + BUS_BYTES /\ mac'.len = mac.len
    BY <2>1, <2>2, <2>3 DEF Frames
  <2>5. mac' # NoFrame
    BY <2>4, NoFrameParam
  <2>6. mac.pos + BUS_BYTES < mac.len
    BY <1>3, <2>1, <2>3 DEF rxs_eop, rxs_valid
  <2>7. (mac.pos + BUS_BYTES) % BUS_BYTES = 0
    BY <2>1, <2>3, ModStep DEF FrameInv
  <2> QED BY <1>3, <2>1, <2>4, <2>5, <2>6, <2>7
<1> QED BY <1>1, <1>2, <1>3

LEMMA EdgeMem ==
  ASSUME HwType, FrameInv, NEW csr, NEW halt \in BOOLEAN, RxEdge(csr, halt)
  PROVE  mem' \in [SKBs -> [len : Nat, got : SUBSET Nat]]
<1> DEFINE M == [len : Nat, got : SUBSET Nat]
<1>1. CASE ~Taken(halt)
  BY <1>1 DEF HwType, RxEdge
<1>2. CASE Taken(halt)
  <2>1. mac \in Frames
    BY <1>2 DEF HwType, Taken, rxs_valid
  <2>2. mac.len \in Nat /\ rx_offset \in Nat
    BY <2>1 DEF Frames, HwType
  <2>3. \A m \in M : WriteBeat(m) \in M
    <3> SUFFICES ASSUME NEW m \in M PROVE WriteBeat(m) \in M
      OBVIOUS
    <3>1. [len |-> mac.len, got |-> {0}] \in M
      BY <2>2
    <3>2. [m EXCEPT !.got = m.got \cup {rx_offset}] \in M
      BY <2>2
    <3>3. [m EXCEPT !.got = m.got \ {rx_offset}] \in M
      BY <2>2
    <3> QED BY <3>1, <3>2, <3>3 DEF WriteBeat
  <2>4. mem' = [mem EXCEPT ![rx_desc_q.skb] = WriteBeat(mem[rx_desc_q.skb])]
    BY <1>2 DEF RxEdge
  <2>5. mem \in [SKBs -> M]
    BY DEF HwType
  <2> HIDE DEF M
  <2>6. mem' \in [SKBs -> M]
    BY <2>3, <2>4, <2>5
  <2> QED BY <2>6 DEF M
<1> QED BY <1>1, <1>2

LEMMA RingNextType == \A i \in Ring : RingNext(i) \in Ring
BY Size DEF RingNext, N

(* The counter of completions, RX_RING_BITS + 1 wide. *)
LEMMA IrqCountValue ==
  ASSUME HwType
  PROVE  /\ IrqCount(TRUE, FALSE) = IF rx_irq_count + 1 < 2 * N
                                    THEN rx_irq_count + 1 ELSE 0
         /\ IrqCount(FALSE, TRUE) = IF rx_irq_count = 0 THEN 2 * N - 1
                                    ELSE rx_irq_count - 1
         /\ IrqCount(TRUE, TRUE) = rx_irq_count
         /\ IrqCount(FALSE, FALSE) = rx_irq_count
<1>1. PICK w \in Nat \ {0} : w = 2 * N /\ w = 2^(RX_RING_BITS + 1)
  BY RxRingSize DEF N
<1>2. PICK k \in 0 .. w - 1 : k = rx_irq_count
  BY <1>1 DEF HwType
<1>3. (k + 1) % w = IF k + 1 < w THEN k + 1 ELSE 0
  <2>1. PICK y \in 0 .. 2 * w - 1 : y = k + 1
    OBVIOUS
  <2>2. y % w = IF y < w THEN y ELSE y - w
    BY ModTurn
  <2> QED BY <2>1, <2>2
<1>4. (k + w - 1) % w = IF k = 0 THEN w - 1 ELSE k - 1
  <2>1. PICK y \in 0 .. 2 * w - 1 : y = k + w - 1
    OBVIOUS
  <2>2. y % w = IF y < w THEN y ELSE y - w
    BY ModTurn
  <2> QED BY <2>1, <2>2
<1>5. IrqCount(TRUE, FALSE) = (k + 1) % w
  BY <1>1, <1>2 DEF IrqCount
<1>6. IrqCount(FALSE, TRUE) = (k + w - 1) % w
  BY <1>1, <1>2 DEF IrqCount
<1>7. IrqCount(TRUE, TRUE) = k /\ IrqCount(FALSE, FALSE) = k
  BY <1>2 DEF IrqCount
<1> QED BY <1>1, <1>2, <1>3, <1>4, <1>5, <1>6, <1>7

LEMMA EdgeHwType ==
  ASSUME HwType, FrameInv, NEW csr, NEW halt \in BOOLEAN, RxEdge(csr, halt)
  PROVE  HwType'
<1>1. rx_desc' \in [Ring -> Descs]
  <2>1. DescKept
    BY EdgeCases DEF EdgeEnds, EdgeRuns, EdgeIdles
  <2> QED BY <2>1 DEF DescKept, HwType
<1>2. rx_desc_curaddr' \in Ring
  BY RingNextType DEF HwType, RxEdge
<1>3. rx_offset' \in Nat
  BY RxParams DEF HwType, RxEdge
<1>4. rx_end(halt) \in BOOLEAN /\ rx_irq_done \in BOOLEAN
  BY DEF rx_end, HwType
<1>5. rx_running' \in BOOLEAN /\ rx_done' \in BOOLEAN /\ rx_irq_done' \in BOOLEAN
  BY <1>4 DEF RxEdge
<1>6. rx_irq_count' \in 0 .. 2 * N - 1
  <2>1. rx_irq_count \in 0 .. 2 * N - 1
    BY DEF HwType
  <2>2. N \in Nat /\ N >= 2
    BY Size
  <2>3. rx_irq_count + 1 < 2 * N => rx_irq_count + 1 \in 0 .. 2 * N - 1
    BY <2>1, <2>2
  <2>4. /\ 0 \in 0 .. 2 * N - 1 /\ 2 * N - 1 \in 0 .. 2 * N - 1
        /\ rx_irq_count # 0 => rx_irq_count - 1 \in 0 .. 2 * N - 1
    BY <2>1, <2>2
  <2>5. IrqCount(TRUE, FALSE) \in 0 .. 2 * N - 1
    BY <2>3, <2>4, IrqCountValue, Zenon
  <2>6. IrqCount(FALSE, TRUE) \in 0 .. 2 * N - 1
    BY <2>4, IrqCountValue, Zenon
  <2>7. \A b, c \in BOOLEAN : IrqCount(b, c) \in 0 .. 2 * N - 1
    BY <2>1, <2>5, <2>6, IrqCountValue, Zenon
  <2> QED BY <1>4, <2>7 DEF RxEdge
<1>7. rcontrol' \in [ena : BOOLEAN, ie : BOOLEAN, is : BOOLEAN]
  BY DEF HwType, RxEdge
<1>8. mac' \in Frames \cup {NoFrame}
  BY EdgeMac
<1>9. mem' \in [SKBs -> [len : Nat, got : SUBSET Nat]]
  BY EdgeMem
<1> QED BY <1>1, <1>2, <1>3, <1>5, <1>6, <1>7, <1>8, <1>9 DEF HwType

LEMMA EdgeFrame ==
  ASSUME HwType, FrameInv, NEW csr, NEW halt \in BOOLEAN, RxEdge(csr, halt)
  PROVE  FrameInv'
<1>1. mac' # NoFrame => mac'.pos < mac'.len /\ mac'.pos % BUS_BYTES = 0
  BY EdgeMac
<1>2. CASE rx_end(halt) /\ EdgeEnds
  BY <1>1, <1>2 DEF EdgeEnds, FrameInv
<1>3. CASE ~rx_run(halt) /\ EdgeIdles
  BY <1>1, <1>3 DEF EdgeIdles, FrameInv
<1>4. CASE rx_run(halt) /\ ~rx_end(halt) /\ EdgeRuns
  <2>1. mac # NoFrame /\ mac.pos = rx_offset /\ (Taken(halt) <=> ~halt)
    BY <1>4, RunFacts
  <2>2. Taken(halt) => ~rxs_eop
    BY <1>4 DEF rx_end
  <2>3. CASE halt
    <3>1. mac' = mac /\ rx_offset' = rx_offset
      BY <1>4, <2>1, <2>3 DEF RxEdge
    <3> QED BY <1>1, <1>4, <2>1, <3>1 DEF EdgeRuns, FrameInv
  <2>4. CASE ~halt
    <3>1. rx_offset' = rx_offset + BUS_BYTES
      BY <1>4, <2>4 DEF RxEdge
    <3>2. mac' # NoFrame /\ mac'.pos = mac.pos + BUS_BYTES
      BY <2>1, <2>2, <2>4, EdgeMac
    <3> QED BY <1>1, <1>4, <2>1, <3>1, <3>2 DEF EdgeRuns, FrameInv
  <2> QED BY <2>3, <2>4
<1> QED BY <1>2, <1>3, <1>4, EdgeCases

(* The engine gives descriptors back and never takes one; one it does not    *)
(* own it leaves alone.                                                      *)
LEMMA EdgeDescs ==
  ASSUME HwType, FrameInv, NEW csr, NEW halt \in BOOLEAN, RxEdge(csr, halt),
         NEW i \in Ring
  PROVE  /\ rx_desc'[i].skb = rx_desc[i].skb
         /\ rx_desc'[i].hw => /\ rx_desc[i].hw
                              /\ rx_desc'[i].len = rx_desc[i].len
         /\ ~rx_desc[i].hw => /\ ~rx_desc'[i].hw
                              /\ rx_desc'[i].len = rx_desc[i].len
<1>1. rx_desc \in [Ring -> Descs] /\ rx_desc_curaddr \in Ring
  BY DEF HwType
<1>2. DescKept
  BY EdgeCases DEF EdgeEnds, EdgeRuns, EdgeIdles
<1>3. CASE i # rx_desc_curaddr
  <2>1. rx_desc'[i] = rx_desc[i]
    BY <1>1, <1>2, <1>3 DEF DescKept
  <2> QED BY <2>1
<1>4. CASE i = rx_desc_curaddr
  BY <1>2, <1>4, EdgeCases DEF EdgeEnds, EdgeRuns, EdgeIdles, DescKept
<1> QED BY <1>3, <1>4

(* What an edge leaves of the driver's side. *)
LEMMA EdgeDriver ==
  ASSUME Types, Control, NEW csr, NEW halt \in BOOLEAN, RxEdge(csr, halt),
         UNCHANGED <<dev, rx_pos, rx_skbs, old, free, stack>>
  PROVE  HwType' /\ FrameInv' /\ ClosedInv' /\ OwnerInv'
<1>1. HwType /\ FrameInv
  BY DEF Types, Control
<1>2. HwType' /\ FrameInv'
  BY <1>1, EdgeHwType, EdgeFrame
<1>3. ClosedInv'
  <2> SUFFICES ASSUME dev = "closed" PROVE ClosedInv'
    BY DEF ClosedInv
  <2>1. mac = NoFrame /\ ~rx_running
    BY DEF Control, ClosedInv
  <2>2. ~rx_run(halt) /\ ~Taken(halt)
    BY <2>1 DEF rx_run, rx_start, Taken, rxs_valid
  <2>3. mac' = NoFrame
    BY <1>1, <2>1, <2>2, EdgeMac
  <2>4. ~rx_running'
    BY <2>2 DEF RxEdge
  <2> QED BY <2>3, <2>4 DEF Control, ClosedInv
<1>4. OwnerInv'
  BY <1>1, EdgeDescs DEF Control, OwnerInv
<1> QED BY <1>2, <1>3, <1>4

(* The steps that are a clock edge: the clock itself and the register        *)
(* accesses of the driver.                                                   *)
EdgeStep ==
  (\E halt \in BOOLEAN : Clock(halt)) \/ RxIsr \/ PollIeOn \/ PollAck

(* RxIsr that does nothing. *)
IsrSpurious == RxIsr /\ UNCHANGED <<hwvars, napi_sched, poll_list>>

LEMMA EdgeIs ==
  ASSUME EdgeStep
  PROVE  \/ \E csr \in {"none", "ack", "ie_on", "ie_off"}, halt \in BOOLEAN :
              RxEdge(csr, halt)
         \/ IsrSpurious
BY DEF EdgeStep, Clock, RxIsr, PollIeOn, PollAck, IsrSpurious

LEMMA EdgeControl ==
  ASSUME Types, Control, EdgeStep
  PROVE  Types' /\ Control'
<1>1. UNCHANGED <<dev, rx_pos, rx_skbs, irq_enabled, napi_disable, old, free, stack>>
  BY DEF EdgeStep, Clock, RxIsr, PollIeOn, PollAck, drvvars
<1>2. HwType' /\ FrameInv' /\ ClosedInv' /\ OwnerInv'
  <2>1. CASE IsrSpurious
    BY <1>1, <2>1 DEF IsrSpurious, hwvars, Types, HwType, Control, FrameInv,
                      ClosedInv, OwnerInv
  <2>2. CASE ~IsrSpurious
    <3>1. PICK csr \in {"none", "ack", "ie_on", "ie_off"}, halt \in BOOLEAN :
            RxEdge(csr, halt)
      BY <2>2, EdgeIs
    <3> QED BY <1>1, <3>1, EdgeDriver
  <2> QED BY <2>1, <2>2
<1>3. DrvType'
  <2>1. /\ isr' \in {isr, FALSE} /\ napi_sched' \in {napi_sched, TRUE, FALSE}
        /\ poll_list' \in {poll_list, TRUE, FALSE}
        /\ poll' \in {poll, "unlock", "take"} /\ budget' = budget
    BY DEF EdgeStep, Clock, RxIsr, PollIeOn, PollAck, drvvars
  <2>2. budget' \in 0 .. Weight
    BY <2>1, RxDriverParams DEF Types, DrvType
  <2>3. isr' \in BOOLEAN /\ napi_sched' \in BOOLEAN /\ poll_list' \in BOOLEAN
    BY <2>1, Zenon DEF Types, DrvType
  <2>4. poll' \in {"idle", "check", "complete", "ie_on", "unlock", "ack", "take",
                   "give", "deliver", "return"}
    BY <2>1 DEF Types, DrvType
  <2> QED BY <1>1, <2>2, <2>3, <2>4, Zenon DEF Types, DrvType
<1>4. NapiInv'
  BY <1>1 DEF EdgeStep, Clock, RxIsr, PollIeOn, PollAck, drvvars, Types,
              DrvType, Control, NapiInv, Locked, napi_schedule_prep
<1>4a. StopInv'
  <2>1. isr' => isr
    BY DEF EdgeStep, Clock, RxIsr, PollIeOn, PollAck, drvvars
  <2>2. ASSUME dev \in {"halted", "disabling_again"} PROVE ~rcontrol'.ie
    <3>1. ~rcontrol.ie /\ rcontrol \in [ena : BOOLEAN, ie : BOOLEAN, is : BOOLEAN]
      BY <2>2 DEF Control, StopInv, Types, HwType
    <3>2. poll = "idle"
      BY <2>2 DEF Control, NapiInv
    <3>3. \/ UNCHANGED rcontrol
          \/ \E csr \in {"none", "ie_off"}, halt \in BOOLEAN : RxEdge(csr, halt)
      BY <3>2 DEF EdgeStep, Clock, RxIsr, PollIeOn, PollAck, hwvars
    <3> QED BY <3>1, <3>3 DEF RxEdge
  <2> QED BY <1>1, <2>1, <2>2 DEF Control, StopInv
<1>5. PollInv'
  <2>1. \A i \in Ring : ~rx_desc[i].hw => /\ ~rx_desc'[i].hw
                                         /\ rx_desc'[i].len = rx_desc[i].len
    <3>1. CASE IsrSpurious
      BY <3>1 DEF IsrSpurious, hwvars
    <3>2. CASE ~IsrSpurious
      <4>1. PICK csr \in {"none", "ack", "ie_on", "ie_off"}, halt \in BOOLEAN :
              RxEdge(csr, halt)
        BY <3>2, EdgeIs
      <4>2. HwType /\ FrameInv
        BY DEF Types, Control
      <4> QED BY <4>1, <4>2, EdgeDescs
    <3> QED BY <3>1, <3>2
  <2>2. \/ poll' = poll /\ budget' = budget
        \/ poll = "ie_on" /\ poll' = "unlock" /\ budget' = budget
        \/ poll = "ack" /\ poll' = "take" /\ budget' = budget
    BY DEF EdgeStep, Clock, RxIsr, PollIeOn, PollAck, drvvars
  <2>3. rx_pos \in Ring
    BY DEF Types, DrvType
  <2> QED BY <1>1, <2>1, <2>2, <2>3 DEF Control, PollInv
<1> QED BY <1>2, <1>3, <1>4, <1>4a, <1>5 DEF Types, Control

(* Steps that touch neither the engine nor a buffer. *)
FlagStep ==
  \/ OpenMac \/ OpenNapi \/ RxIrqTaken
  \/ PollStart \/ PollCheck \/ PollComplete \/ PollUnlock \/ PollReturn
  \/ StopNapiMark \/ StopNapiWait \/ StopIrq

LEMMA FlagControl ==
  ASSUME Types, Control, FlagStep
  PROVE  Types' /\ Control' /\ UNCHANGED <<hwvars, rx_pos, rx_skbs, old, free, stack>>
<1>1. UNCHANGED <<hwvars, rx_pos, rx_skbs, old, free, stack>>
  BY DEF FlagStep, OpenMac, OpenNapi, RxIrqTaken, PollStart, PollCheck,
         PollComplete, PollUnlock, PollReturn, StopNapiMark, StopNapiWait,
         StopIrq
<1>2. HwType'
  BY <1>1 DEF Types, HwType, hwvars
<1>3. /\ (dev # "closed" /\ dev' # "closed") \/ dev = dev'
      /\ dev' \in {"closed", "dma", "mac", "up", "disabling", "quiet", "halted",
                   "disabling_again", "stopped"}
  BY DEF FlagStep, OpenMac, OpenNapi, RxIrqTaken, PollStart, PollCheck,
         PollComplete, PollUnlock, PollReturn, StopNapiMark, StopNapiWait,
         StopIrq, NapiMark, NapiTaken, Types, DrvType
<1>4. FrameInv' /\ ClosedInv' /\ OwnerInv'
  BY <1>1, <1>3 DEF Control, FrameInv, ClosedInv, OwnerInv, hwvars
<1>5. DrvType'
  <2>1. /\ isr' \in {isr, TRUE} /\ irq_enabled' \in {irq_enabled, FALSE}
        /\ napi_sched' \in {napi_sched, TRUE, FALSE, ~napi_disable}
        /\ napi_disable' \in {napi_disable, TRUE, FALSE}
        /\ poll_list' \in {poll_list, FALSE, ~napi_disable}
        /\ poll' \in {poll, "idle", "check", "return", "complete", "ack", "ie_on"}
        /\ budget' \in {budget, Weight, 0}
    BY DEF FlagStep, OpenMac, OpenNapi, RxIrqTaken, PollStart, PollCheck,
           PollComplete, PollUnlock, PollReturn, StopNapiMark, StopNapiWait,
           StopIrq
  <2>2. budget' \in 0 .. Weight
    BY <2>1, RxDriverParams DEF Types, DrvType
  <2>3. /\ isr' \in BOOLEAN /\ napi_sched' \in BOOLEAN /\ poll_list' \in BOOLEAN
        /\ napi_disable' \in BOOLEAN /\ irq_enabled' \in BOOLEAN
    BY <2>1, Zenon DEF Types, DrvType
  <2>4. poll' \in {"idle", "check", "complete", "ie_on", "unlock", "ack", "take",
                   "give", "deliver", "return"}
    BY <2>1 DEF Types, DrvType
  <2> QED BY <1>1, <1>3, <2>2, <2>3, <2>4, Zenon DEF Types, DrvType
<1>6. NapiInv'
  BY <1>1 DEF FlagStep, OpenMac, OpenNapi, RxIrqTaken, PollStart, PollCheck,
         PollComplete, PollUnlock, PollReturn, StopNapiMark, StopNapiWait,
         StopIrq, NapiMark, NapiTaken, Types, DrvType, Control, NapiInv
<1>6a. StopInv'
  <2>1. /\ isr' => isr \/ irq_enabled
        /\ irq_enabled' => irq_enabled
        /\ isr' /\ irq_enabled => irq_enabled'
        /\ dev' \in {"halted", "disabling_again"}
             => dev \in {"halted", "disabling_again"}
    BY DEF FlagStep, OpenMac, OpenNapi, RxIrqTaken, PollStart, PollCheck,
           PollComplete, PollUnlock, PollReturn, StopNapiMark, StopNapiWait,
           StopIrq, NapiMark, NapiTaken
  <2> QED BY <1>1, <2>1 DEF Control, StopInv, hwvars
<1>7. PollInv'
  <2>1. \/ poll' = poll /\ budget' = budget
        \/ poll \in {"idle", "return", "unlock"} /\ poll' \in {"idle", "check"}
        \/ poll = "complete" /\ poll' = "ie_on" /\ budget' = budget
        \/ poll = "check" /\ poll' = "return"
        \/ /\ poll = "check" /\ budget' = budget /\ budget > 0
           /\ \/ poll' = "complete"
              \/ poll' = "ack" /\ ~rx_desc[rx_pos].hw
    BY DEF FlagStep, OpenMac, OpenNapi, RxIrqTaken, PollStart, PollCheck,
           PollComplete, PollUnlock, PollReturn, StopNapiMark, StopNapiWait,
           StopIrq, Types, DrvType
  <2> QED BY <1>1, <2>1 DEF Control, PollInv, hwvars
<1> QED BY <1>1, <1>2, <1>4, <1>5, <1>6, <1>6a, <1>7 DEF Types, Control

(* Before yatse_open every buffer is free, so there is one for every         *)
(* descriptor.                                                               *)
LEMMA Fresh ==
  ASSUME free = SKBs
  PROVE  /\ FreshSkbs \in [Ring -> free]
         /\ \A i, j \in Ring : FreshSkbs[i] = FreshSkbs[j] => i = j
BY RxPool DEF FreshSkbs

LEMMA HwDescType ==
  ASSUME NEW s \in SKBs \cup {NoSkb}
  PROVE  /\ HwDesc(s) \in Descs /\ HwDesc(s).hw /\ HwDesc(s).len = RXLEN
         /\ HwDesc(s).skb = s
         /\ [HwDesc(s) EXCEPT !.hw = FALSE] \in Descs
         /\ ~[HwDesc(s) EXCEPT !.hw = FALSE].hw
         /\ [HwDesc(s) EXCEPT !.hw = FALSE].len = RXLEN
         /\ [HwDesc(s) EXCEPT !.hw = FALSE].skb = s
BY RxParams DEF HwDesc, Descs

LEMMA ResetType ==
  RxSoftReset =>
    /\ rx_desc_curaddr' \in Ring /\ rx_offset' \in Nat
    /\ rx_running' \in BOOLEAN /\ rx_done' \in BOOLEAN
    /\ rx_irq_count' \in 0 .. 2 * N - 1 /\ rx_irq_done' \in BOOLEAN
<1>1. 0 \in Ring /\ 0 \in Nat /\ 0 \in 0 .. 2 * N - 1
  BY Size
<1>2. TRUE \in BOOLEAN /\ FALSE \in BOOLEAN
  OBVIOUS
<1> QED BY <1>1, <1>2, Zenon DEF RxSoftReset

LEMMA OpenDmaControl ==
  ASSUME Types, Control, OpenDma
  PROVE  Types' /\ Control'
<1>1. /\ dev = "closed" /\ free = SKBs /\ stack = {} /\ old = NoFrameUp
      /\ mac = NoFrame /\ napi_sched /\ ~poll_list /\ poll = "idle"
  BY DEF OpenDma, Control, ClosedInv, NapiInv
<1>2. PICK f \in [Ring -> SKBs] :
        /\ f = FreshSkbs
        /\ \A i, j \in Ring : f[i] = f[j] => i = j
  BY <1>1, Fresh
<1>3. /\ rx_skbs' = f /\ rx_desc' = [i \in Ring |-> HwDesc(f[i])]
      /\ free' = SKBs \ {f[i] : i \in Ring}
      /\ dev' = "dma" /\ rx_pos' = 0
      /\ UNCHANGED <<mac, mem, isr, irq_enabled, napi_sched, napi_disable,
                     poll_list, poll, budget, old, stack>>
      /\ RxSoftReset
  BY <1>1, <1>2 DEF OpenDma
<1>4. rx_desc' \in [Ring -> Descs]
  BY <1>2, <1>3, HwDescType
<1>5. rcontrol' \in [ena : BOOLEAN, ie : BOOLEAN, is : BOOLEAN]
  BY DEF OpenDma, RxOff
<1>6. HwType'
  BY <1>3, <1>4, <1>5, ResetType DEF Types, HwType
<1>7. DrvType'
  BY <1>2, <1>3, Size DEF Types, DrvType
<1>8. NapiInv' /\ StopInv' /\ PollInv' /\ ClosedInv'
  BY <1>1, <1>3 DEF Control, NapiInv, StopInv, PollInv, ClosedInv
<1>9. FrameInv'
  BY <1>1, <1>3 DEF FrameInv, RxSoftReset
<1>10. OwnerInv'
  <2>1. \A i \in Ring : /\ rx_desc'[i].skb = f[i] /\ rx_skbs'[i] = f[i]
                        /\ rx_desc'[i].len = RXLEN
    BY <1>2, <1>3, HwDescType
  <2>2. old'.skb = NoSkb /\ NoSkb \notin SKBs
    BY <1>1, <1>3, RxDriverParams DEF NoFrameUp
  <2> QED BY <1>1, <1>2, <1>3, <2>1, <2>2 DEF OwnerInv
<1> QED BY <1>6, <1>7, <1>8, <1>9, <1>10 DEF Types, Control

LEMMA OpenFailsControl ==
  ASSUME Types, Control, OpenFails
  PROVE  Types' /\ Control'
<1>1. /\ dev = "closed" /\ free = SKBs /\ mac = NoFrame /\ poll = "idle"
      /\ UNCHANGED <<mac, mem, dev, rx_skbs, isr, irq_enabled, napi_sched,
                     napi_disable, poll_list, poll, budget, old, free, stack>>
      /\ RxSoftReset
  BY DEF OpenFails, Control, ClosedInv, NapiInv
<1>2. PICK f \in [Ring -> SKBs] : f = FreshSkbs
  BY <1>1, Fresh
<1>3. PICK n \in 0 .. N :
        /\ rx_desc' = [i \in Ring |-> IF i < n THEN HwDesc(f[i]) ELSE rx_desc[i]]
        /\ rx_pos' = n % N
  BY <1>2 DEF OpenFails, N
<1>4. rx_desc' \in [Ring -> Descs]
  BY <1>2, <1>3, HwDescType DEF Types, HwType
<1>5. rx_pos' \in Ring
  BY <1>3, Size
<1>6. rcontrol' \in [ena : BOOLEAN, ie : BOOLEAN, is : BOOLEAN]
  BY DEF OpenFails, RxOff
<1>7. HwType'
  BY <1>1, <1>4, <1>6, ResetType DEF Types, HwType
<1>8. DrvType'
  BY <1>1, <1>5 DEF Types, DrvType
<1>9. NapiInv' /\ StopInv' /\ PollInv' /\ ClosedInv' /\ OwnerInv' /\ FrameInv'
  BY <1>1 DEF Control, NapiInv, StopInv, PollInv, ClosedInv, OwnerInv, FrameInv,
              RxSoftReset
<1> QED BY <1>7, <1>8, <1>9 DEF Types, Control

LEMMA StopDmaControl ==
  ASSUME Types, Control, StopDma
  PROVE  Types' /\ Control'
<1>1. /\ dev = "quiet" /\ dev' = "halted" /\ RxSoftReset
      /\ UNCHANGED <<rx_desc, mac, mem, rx_pos, rx_skbs, isr, irq_enabled,
                     napi_sched, napi_disable, poll_list, poll, budget, old,
                     free, stack>>
  BY DEF StopDma
<1>2. rcontrol' \in [ena : BOOLEAN, ie : BOOLEAN, is : BOOLEAN]
  BY DEF StopDma, RxOff
<1>3. HwType' /\ DrvType'
  BY <1>1, <1>2, ResetType DEF Types, HwType, DrvType
<1>4. PollInv' /\ ClosedInv' /\ OwnerInv' /\ FrameInv'
  BY <1>1 DEF Control, PollInv, ClosedInv, OwnerInv, FrameInv, RxSoftReset
<1>5. poll = "idle" /\ ~irq_enabled /\ rcontrol' = RxOff
  BY <1>1 DEF StopDma, Locked, Types, DrvType, Control, NapiInv
<1>6. NapiInv' /\ StopInv'
  BY <1>1, <1>5 DEF Control, NapiInv, StopInv, RxOff
<1> QED BY <1>3, <1>4, <1>6 DEF Types, Control

LEMMA FrameControl ==
  ASSUME Types, Control, Frame
  PROVE  Types' /\ Control'
<1>1. /\ mac = NoFrame /\ dev # "closed" /\ UNCHANGED drvvars
      /\ UNCHANGED <<rx_desc, rx_desc_curaddr, rx_offset, rx_running, rx_done,
                     rx_irq_count, rx_irq_done, rcontrol, mem>>
  BY DEF Frame, MacFrame
<1>2. mac' \in Frames /\ mac'.pos = 0 /\ mac'.len \in Nat \ {0}
  BY RxParams DEF Frame, MacFrame, Frames
<1>3. ~rx_running
  BY <1>1 DEF Control, FrameInv
<1>4. mac'.pos < mac'.len /\ mac'.pos % BUS_BYTES = 0
  BY <1>2, RxParams
<1>5. Types'
  BY <1>1, <1>2 DEF Types, HwType, DrvType, drvvars
<1>6. NapiInv' /\ StopInv' /\ PollInv' /\ ClosedInv' /\ OwnerInv' /\ FrameInv'
  BY <1>1, <1>3, <1>4 DEF Control, NapiInv, StopInv, PollInv, ClosedInv, OwnerInv,
                         FrameInv, drvvars
<1> QED BY <1>5, <1>6 DEF Control

LEMMA BlankType == Blank \in [len : Nat, got : SUBSET Nat]
BY DEF Blank

LEMMA StackFreeControl ==
  ASSUME Types, Control, StackFree
  PROVE  Types' /\ Control'
<1>1. PICK s \in stack : /\ stack' = stack \ {s} /\ free' = free \cup {s}
                         /\ mem' = [mem EXCEPT ![s] = Blank]
  BY DEF StackFree
<1>2. UNCHANGED <<rx_desc, rx_desc_curaddr, rx_offset, rx_running, rx_done,
                  rx_irq_count, rx_irq_done, rcontrol, mac, dev, rx_pos, rx_skbs,
                  isr, irq_enabled, napi_sched, napi_disable, poll_list, poll,
                  budget, old>>
  BY DEF StackFree
<1>3. mem' \in [SKBs -> [len : Nat, got : SUBSET Nat]]
  BY <1>1, BlankType DEF Types, HwType
<1>4. Types'
  BY <1>1, <1>2, <1>3 DEF Types, HwType, DrvType
<1>5. NapiInv' /\ StopInv' /\ PollInv' /\ FrameInv' /\ ClosedInv'
  BY <1>1, <1>2 DEF Control, NapiInv, StopInv, PollInv, ClosedInv, FrameInv
<1>6. OwnerInv'
  BY <1>1, <1>2 DEF Control, OwnerInv
<1> QED BY <1>4, <1>5, <1>6 DEF Control

(* A poll that runs has an open device and, where it holds a descriptor, one *)
(* the engine does not work on.                                              *)
LEMMA PollFacts ==
  ASSUME Types, Control
  PROVE  /\ poll \notin {"idle", "ie_on", "unlock"} =>
              dev \in {"up", "disabling"} /\ napi_sched /\ poll_list
         /\ rx_pos \in Ring /\ rx_desc_curaddr \in Ring
         /\ poll \in {"ack", "take", "give"} =>
              /\ ~rx_desc[rx_pos].hw
              /\ rx_running => rx_desc_curaddr # rx_pos
BY DEF Types, HwType, DrvType, Control, NapiInv, StopInv, PollInv, FrameInv

(* PollTake and PollRecycle put a buffer into the descriptor at rx_pos. *)
LEMMA InsertFacts ==
  ASSUME Types, NEW s \in SKBs, InsertSkb(s)
  PROVE  /\ rx_desc' \in [Ring -> Descs]
         /\ ~rx_desc'[rx_pos].hw /\ rx_desc'[rx_pos].len = RXLEN
         /\ rx_desc'[rx_pos].skb = s
         /\ \A i \in Ring : i # rx_pos => rx_desc'[i] = rx_desc[i]
<1>1. PICK d \in Descs : d = [HwDesc(s) EXCEPT !.hw = FALSE]
  BY HwDescType
<1>2. ~d.hw /\ d.len = RXLEN /\ d.skb = s
  BY <1>1, HwDescType
<1>3. rx_desc' = [rx_desc EXCEPT ![rx_pos] = d]
  BY <1>1 DEF InsertSkb
<1>4. rx_desc \in [Ring -> Descs] /\ rx_pos \in Ring
  BY DEF Types, HwType, DrvType
<1> QED BY <1>2, <1>3, <1>4

LEMMA RecycleControl ==
  ASSUME Types, Control, PollRecycle
  PROVE  Types' /\ Control'
<1>1. /\ poll = "take" /\ poll' = "give"
      /\ UNCHANGED <<rx_desc_curaddr, rx_offset, rx_running, rx_done,
                     rx_irq_count, rx_irq_done, rcontrol, mac,
                     dev, rx_pos, rx_skbs, isr, irq_enabled, napi_sched,
                     napi_disable, poll_list, budget, old, free, stack>>
  BY DEF PollRecycle
<1>2. rx_pos \in Ring /\ rx_desc_curaddr \in Ring /\ dev # "closed"
  BY <1>1, PollFacts
<1>3. PICK s \in SKBs : s = rx_skbs[rx_pos]
  BY <1>2 DEF Control, OwnerInv
<1>4. InsertSkb(s) /\ mem' = [mem EXCEPT ![s] = Blank]
  BY <1>3 DEF PollRecycle
<1>5. /\ rx_desc' \in [Ring -> Descs]
      /\ ~rx_desc'[rx_pos].hw /\ rx_desc'[rx_pos].len = RXLEN
      /\ rx_desc'[rx_pos].skb = s
      /\ \A i \in Ring : i # rx_pos => rx_desc'[i] = rx_desc[i]
  BY <1>4, InsertFacts
<1>6. mem' \in [SKBs -> [len : Nat, got : SUBSET Nat]]
  BY <1>4, BlankType DEF Types, HwType
<1>7. Types'
  BY <1>1, <1>5, <1>6 DEF Types, HwType, DrvType
<1>8. NapiInv' /\ StopInv' /\ PollInv' /\ ClosedInv'
  BY <1>1, <1>2, <1>5 DEF Control, NapiInv, StopInv, PollInv, ClosedInv
<1>9. FrameInv'
  BY <1>1, <1>2, <1>5, PollFacts DEF Control, FrameInv
<1>10. OwnerInv'
  BY <1>1, <1>2, <1>3, <1>5 DEF Control, OwnerInv
<1> QED BY <1>7, <1>8, <1>9, <1>10 DEF Control

LEMMA TakeControl ==
  ASSUME Types, Control, PollTake
  PROVE  Types' /\ Control'
<1>1. /\ poll = "take" /\ poll' = "give" /\ free # {}
      /\ UNCHANGED <<rx_desc_curaddr, rx_offset, rx_running, rx_done,
                     rx_irq_count, rx_irq_done, rcontrol, mac, mem,
                     dev, rx_pos, isr, irq_enabled, napi_sched,
                     napi_disable, poll_list, budget, stack>>
  BY DEF PollTake
<1>2. rx_pos \in Ring /\ rx_desc_curaddr \in Ring /\ dev # "closed"
  BY <1>1, PollFacts
<1>3. PICK s \in free : s = CHOOSE t \in free : TRUE
  BY <1>1
<1>4. /\ InsertSkb(s) /\ rx_skbs' = [rx_skbs EXCEPT ![rx_pos] = s]
      /\ free' = free \ {s}
      /\ old' = [skb |-> rx_skbs[rx_pos], len |-> rx_desc[rx_pos].len]
  BY <1>3 DEF PollTake
<1>5. s \in SKBs /\ rx_skbs[rx_pos] \in SKBs
  BY <1>2 DEF Types, DrvType, Control, OwnerInv
<1>6. /\ rx_desc' \in [Ring -> Descs]
      /\ ~rx_desc'[rx_pos].hw /\ rx_desc'[rx_pos].len = RXLEN
      /\ rx_desc'[rx_pos].skb = s
      /\ \A i \in Ring : i # rx_pos => rx_desc'[i] = rx_desc[i]
  BY <1>4, <1>5, InsertFacts
<1>7. rx_desc[rx_pos].len \in Nat
  BY <1>2 DEF Types, HwType, Descs
<1>8. Types'
  <2>1. HwType'
    BY <1>1, <1>6 DEF Types, HwType
  <2>2. rx_skbs' \in [Ring -> SKBs \cup {NoSkb}]
    BY <1>4, <1>5 DEF Types, DrvType
  <2>3. old' \in [skb : SKBs \cup {NoSkb}, len : Nat]
    BY <1>4, <1>5, <1>7
  <2>4. DrvType'
    BY <1>1, <1>4, <2>2, <2>3 DEF Types, DrvType
  <2> QED BY <2>1, <2>4 DEF Types
<1>9. NapiInv' /\ StopInv' /\ PollInv' /\ ClosedInv'
  BY <1>1, <1>2, <1>6 DEF Control, NapiInv, StopInv, PollInv, ClosedInv
<1>10. FrameInv'
  BY <1>1, <1>2, <1>6, PollFacts DEF Control, FrameInv
<1>11. OwnerInv'
  <2>1. rx_skbs'[rx_pos] = s /\ \A i \in Ring : i # rx_pos => rx_skbs'[i] = rx_skbs[i]
    BY <1>2, <1>4 DEF Types, DrvType
  <2>2. old'.skb = rx_skbs[rx_pos]
    BY <1>4
  <2> QED BY <1>1, <1>2, <1>4, <1>5, <1>6, <2>1, <2>2 DEF Control, OwnerInv
<1> QED BY <1>8, <1>9, <1>10, <1>11 DEF Control

LEMMA GiveControl ==
  ASSUME Types, Control, PollGive
  PROVE  Types' /\ Control'
<1>1. /\ poll = "give"
      /\ poll' = IF old = NoFrameUp THEN "check" ELSE "deliver"
      /\ rx_pos' = RingNext(rx_pos)
      /\ UNCHANGED <<rx_desc_curaddr, rx_offset, rx_running, rx_done,
                     rx_irq_count, rx_irq_done, rcontrol, mac, mem,
                     dev, rx_skbs, isr, irq_enabled, napi_sched,
                     napi_disable, poll_list, budget, old, free, stack>>
  BY DEF PollGive
<1>2. rx_pos \in Ring /\ rx_pos' \in Ring /\ dev # "closed"
  BY <1>1, PollFacts, RingNextType
<1>3. /\ rx_desc' \in [Ring -> Descs]
      /\ rx_desc'[rx_pos].hw /\ rx_desc'[rx_pos].len = rx_desc[rx_pos].len
      /\ rx_desc'[rx_pos].skb = rx_desc[rx_pos].skb
      /\ \A i \in Ring : i # rx_pos => rx_desc'[i] = rx_desc[i]
  <2>1. PICK d \in Descs : d = [rx_desc[rx_pos] EXCEPT !.hw = TRUE]
    BY <1>2 DEF Types, HwType, Descs
  <2>2. rx_desc[rx_pos] \in Descs
    BY <1>2 DEF Types, HwType
  <2>3. /\ d.hw /\ d.len = rx_desc[rx_pos].len /\ d.skb = rx_desc[rx_pos].skb
    BY <2>1, <2>2 DEF Descs
  <2>4. rx_desc' = [rx_desc EXCEPT ![rx_pos] = d]
    BY <2>1 DEF PollGive
  <2> QED BY <1>2, <2>3, <2>4 DEF Types, HwType
<1>4. Types'
  BY <1>1, <1>2, <1>3 DEF Types, HwType, DrvType
<1>5. NapiInv' /\ StopInv' /\ PollInv' /\ ClosedInv'
  BY <1>1, <1>2 DEF Control, NapiInv, StopInv, PollInv, ClosedInv
<1>6. FrameInv'
  BY <1>1, <1>2, <1>3, PollFacts DEF Control, FrameInv
<1>7. OwnerInv'
  BY <1>1, <1>2, <1>3 DEF Control, OwnerInv, PollInv
<1> QED BY <1>4, <1>5, <1>6, <1>7 DEF Control

LEMMA DeliverControl ==
  ASSUME Types, Control, PollDeliver
  PROVE  Types' /\ Control'
<1>1. /\ poll = "deliver" /\ poll' = "check" /\ old' = NoFrameUp
      /\ stack' = stack \cup {old.skb} /\ budget' = budget - 1
      /\ UNCHANGED <<hwvars, dev, rx_pos, rx_skbs, isr, irq_enabled,
                     napi_sched, napi_disable, poll_list, free>>
  BY DEF PollDeliver
<1>2. dev # "closed" /\ old.skb \in SKBs /\ budget > 0
  BY <1>1, PollFacts DEF Control, OwnerInv, PollInv
<1>3. HwType'
  BY <1>1 DEF Types, HwType, hwvars
<1>4. budget' \in 0 .. Weight
  BY <1>1, <1>2, RxDriverParams DEF Types, DrvType
<1>5. old' \in [skb : SKBs \cup {NoSkb}, len : Nat] /\ old'.skb = NoSkb
  BY <1>1 DEF NoFrameUp
<1>6. DrvType'
  BY <1>1, <1>2, <1>4, <1>5 DEF Types, DrvType
<1>7. NapiInv' /\ StopInv' /\ PollInv' /\ ClosedInv' /\ FrameInv'
  BY <1>1, <1>2 DEF Control, NapiInv, StopInv, PollInv, ClosedInv, FrameInv, hwvars
<1>8. OwnerInv'
  <2>1. NoSkb \notin SKBs /\ free \subseteq SKBs /\ stack' \subseteq SKBs
    BY <1>6, RxDriverParams DEF Types, DrvType
  <2> QED BY <1>1, <1>2, <1>5, <2>1 DEF Control, OwnerInv, hwvars
<1> QED BY <1>3, <1>6, <1>7, <1>8 DEF Types, Control

LEMMA RxSteps ==
  ASSUME Next
  PROVE  \/ EdgeStep \/ FlagStep \/ OpenDma \/ OpenFails \/ StopDma \/ Frame
         \/ StackFree \/ PollRecycle \/ PollTake \/ PollGive \/ PollDeliver
BY DEF Next, Open, Stop, Poll, EdgeStep, FlagStep

LEMMA ControlInit == Init => Types /\ Control
<1> SUFFICES ASSUME Init PROVE Types /\ Control
  OBVIOUS
<1>1. HwType
  <2>1. /\ 0 \in Ring /\ 0 \in Nat /\ 0 \in 0 .. 2 * N - 1
        /\ TRUE \in BOOLEAN /\ FALSE \in BOOLEAN
    BY Size
  <2>2. rx_desc \in [Ring -> Descs]
    BY DEF Init, Descs
  <2>3. mem \in [SKBs -> [len : Nat, got : SUBSET Nat]]
    BY BlankType DEF Init
  <2>4. rcontrol \in [ena : BOOLEAN, ie : BOOLEAN, is : BOOLEAN]
    BY DEF Init, RxOff
  <2> QED BY <2>1, <2>2, <2>3, <2>4, Zenon DEF Init, HwType
<1>2. DrvType
  <2>1. /\ 0 \in Ring /\ 0 \in 0 .. Weight /\ SKBs \subseteq SKBs
        /\ {} \subseteq SKBs /\ TRUE \in BOOLEAN /\ FALSE \in BOOLEAN
    BY Size, RxDriverParams
  <2>2. rx_skbs \in [Ring -> SKBs \cup {NoSkb}]
    BY DEF Init
  <2>3. old \in [skb : SKBs \cup {NoSkb}, len : Nat]
    BY DEF Init, NoFrameUp
  <2> QED BY <2>1, <2>2, <2>3, Zenon DEF Init, DrvType
<1>3. NapiInv /\ StopInv /\ PollInv /\ FrameInv /\ ClosedInv /\ OwnerInv
  BY DEF Init, NapiInv, StopInv, PollInv, FrameInv, ClosedInv, OwnerInv
<1> QED BY <1>1, <1>2, <1>3 DEF Types, Control

LEMMA ControlStep == Types /\ Control /\ [Next]_vars => Types' /\ Control'
<1> SUFFICES ASSUME Types, Control, [Next]_vars PROVE Types' /\ Control'
  OBVIOUS
<1>1. CASE UNCHANGED vars
  BY <1>1 DEF vars, hwvars, drvvars, Types, HwType, DrvType, Control, NapiInv,
              StopInv, PollInv, FrameInv, ClosedInv, OwnerInv
<1>2. CASE Next
  BY <1>2, RxSteps, EdgeControl, FlagControl, OpenDmaControl, OpenFailsControl,
     StopDmaControl, FrameControl, StackFreeControl, RecycleControl,
     TakeControl, GiveControl, DeliverControl
<1> QED BY <1>1, <1>2

LEMMA RxControl == Spec => [](Types /\ Control)
BY ControlInit, ControlStep, PTL DEF Spec

(* Every variable of the engine and of the driver has its type, whatever the *)
(* processors, the memory and the MAC do: in particular the engine never     *)
(* reports a length below zero and the poll never overdraws its budget.      *)
THEOREM RxTypeSafety == Spec => []TypeOK
BY RxControl, TypeSplit, PTL DEF Types

(* Once napi_disable has returned in yatse_stop a poll at most turns RXIE on *)
(* and drops rx_lock, and once yatse_dma_stop has run no poll, no handler    *)
(* and no late write of RXIE is left, however they interleave.               *)
THEOREM StopSafety == Spec => []StoppedMeansQuiet
<1>1. Types /\ Control => StoppedMeansQuiet
  BY DEF Types, DrvType, Control, NapiInv, StopInv, StoppedMeansQuiet, Leaving
<1> QED BY <1>1, RxControl, PTL

-----------------------------------------------------------------------------
(* Layer 2: the walk around the ring                                       *)

LEMMA NextAt == \A i \in Ring : RingNext(i) = At(N, i, 1)
BY AtMod, Size DEF RingNext, N

(* Adding to and taking from a set of descriptors. *)
LEMMA RingCard ==
  ASSUME NEW S \in SUBSET Ring
  PROVE  /\ Cardinality(S) \in 0 .. N
         /\ \A x \in Ring \ S : /\ Cardinality(S \cup {x}) = Cardinality(S) + 1
                                /\ Cardinality(S) < N
         /\ \A x \in S : /\ Cardinality(S \ {x}) = Cardinality(S) - 1
                         /\ Cardinality(S) >= 1
<1>1. IsFiniteSet(Ring) /\ Cardinality(Ring) = N
  BY Size, FS_Interval
<1>2. /\ \A T \in SUBSET Ring : IsFiniteSet(T) /\ Cardinality(T) \in Nat
                                /\ Cardinality(T) <= N
  BY <1>1, FS_Subset, FS_CardinalityType
<1>3. ASSUME NEW x \in Ring \ S
      PROVE  Cardinality(S \cup {x}) = Cardinality(S) + 1 /\ Cardinality(S) < N
  <2>1. Cardinality(S \cup {x}) = Cardinality(S) + 1
    BY <1>2, <1>3, FS_AddElement
  <2>2. S \cup {x} \in SUBSET Ring
    BY <1>3
  <2> QED BY <1>2, <2>1, <2>2, Size
<1>4. ASSUME NEW x \in S
      PROVE  Cardinality(S \ {x}) = Cardinality(S) - 1 /\ Cardinality(S) >= 1
  <2>1. Cardinality(S \ {x}) = Cardinality(S) - 1
    BY <1>2, <1>4, FS_RemoveElement
  <2>2. S \ {x} \in SUBSET Ring
    OBVIOUS
  <2> QED BY <1>2, <2>1, <2>2
<1> QED BY <1>2, <1>3, <1>4, Size

(* The place the engine will work on next. *)
HwPos == IF rx_done THEN RingNext(rx_desc_curaddr) ELSE rx_desc_curaddr

(* Driver, engine and counter in step, without the remainders. *)
RingInv ==
  Running =>
    /\ rx_irq_count + Held = Cardinality(Completed) + (IF rx_irq_done THEN 1 ELSE 0)
    /\ HwPos = At(N, rx_pos, Cardinality(Completed))
    /\ \A i \in Completed : Dist(N, i, rx_pos) < Cardinality(Completed)

LEMMA RingInvInStep == Types => (RingInv <=> RxInStep)
<1> SUFFICES ASSUME Types PROVE RingInv <=> RxInStep
  OBVIOUS
<1>1. PICK k \in 0 .. N : k = Cardinality(Completed)
  BY RingCard DEF Completed
<1>2. rx_pos \in Ring
  BY DEF Types, DrvType
<1>3. (rx_pos + k) % N = At(N, rx_pos, k)
  BY <1>2, AtMod, Size
<1>4. \A i \in Completed : (i + N - rx_pos) % N = Dist(N, i, rx_pos)
  BY <1>2, DistMod, Size DEF Completed
<1> QED BY <1>1, <1>3, <1>4 DEF RingInv, RxInStep, RxIrqCountExact,
                               RxRingInStep, HwPos, N

LEMMA RingInit == Init => RingInv
BY DEF Init, RingInv, Running

LEMMA RingOpen ==
  ASSUME Types, Control, OpenDma
  PROVE  RingInv'
<1>1. free = SKBs /\ poll = "idle"
  BY DEF OpenDma, Control, ClosedInv, NapiInv
<1>2. Completed' = {}
  <2>1. \A i \in Ring : FreshSkbs[i] \in SKBs
    BY <1>1, Fresh
  <2>2. \A i \in Ring : rx_desc'[i].hw
    BY <2>1, HwDescType DEF OpenDma
  <2> QED BY <2>2 DEF Completed
<1>3. Cardinality(Completed') = 0
  BY <1>2, FS_EmptySet
<1>4. Held' = 0
  BY <1>1 DEF OpenDma, Held
<1>5. HwPos' = 0 /\ rx_irq_count' = 0 /\ ~rx_irq_done' /\ rx_pos' = 0
  BY DEF OpenDma, RxSoftReset, HwPos
<1>6. At(N, 0, 0) = 0
  BY Size DEF At
<1>7. (Cardinality(Completed))' = 0 /\ At(N, rx_pos, Cardinality(Completed))' = 0
  BY <1>3, <1>5, <1>6
<1> QED BY <1>2, <1>4, <1>5, <1>7 DEF RingInv

LEMMA RingGive ==
  ASSUME Types, Control, RingInv, PollGive
  PROVE  RingInv'
<1>1. PICK k \in 0 .. N : k = Cardinality(Completed)
  BY RingCard DEF Completed
<1>2. PICK p \in Ring : p = rx_pos /\ p \in Completed
  BY PollFacts DEF PollGive, Completed
<1>3. Running /\ Running' /\ Held = 1 /\ Held' = 0 /\ HwPos' = HwPos
  BY PollFacts DEF PollGive, Running, Held, HwPos, RingNext
<1>4. Completed' = Completed \ {p}
  <2>1. rx_desc \in [Ring -> Descs]
    BY DEF Types, HwType
  <2>2. rx_desc'[p].hw /\ \A i \in Ring : i # p => rx_desc'[i] = rx_desc[i]
    BY <1>2, <2>1 DEF PollGive, Descs
  <2> QED BY <1>2, <2>2 DEF Completed
<1>5. Cardinality(Completed') = k - 1 /\ k >= 1
  <2>1. Completed \in SUBSET Ring
    BY DEF Completed
  <2> QED BY <1>1, <1>2, <1>4, <2>1, RingCard
<1>6. PICK q \in Ring : q = rx_pos' /\ q = At(N, p, 1)
  BY <1>2, NextAt, RingNextType DEF PollGive
<1>7. At(N, q, k - 1) = At(N, p, k)
  BY <1>5, <1>6, Size DEF At
<1>8. \A i \in Ring : i # p => Dist(N, i, q) = Dist(N, i, p) - 1 /\ Dist(N, i, p) \in Int
  BY <1>6, Size DEF Dist, At
<1>9. rx_irq_count' = rx_irq_count /\ rx_irq_done' = rx_irq_done /\ rx_irq_count \in Nat
  BY DEF PollGive, Types, HwType
<1>10. rx_irq_count' + Held' = (k - 1) + (IF rx_irq_done' THEN 1 ELSE 0)
  BY <1>1, <1>3, <1>9 DEF RingInv
<1>11. HwPos' = At(N, q, k - 1)
  BY <1>1, <1>2, <1>3, <1>7 DEF RingInv
<1>12. \A i \in Completed' : Dist(N, i, q) < k - 1
  <2> SUFFICES ASSUME NEW i \in Completed' PROVE Dist(N, i, q) < k - 1
    OBVIOUS
  <2>1. i \in Ring /\ i # p /\ i \in Completed
    BY <1>4 DEF Completed
  <2>2. Dist(N, i, p) < k
    BY <1>1, <1>2, <1>3, <2>1 DEF RingInv
  <2> QED BY <1>8, <2>1, <2>2
<1> QED BY <1>5, <1>6, <1>10, <1>11, <1>12 DEF RingInv

(* The counter goes up by the frame that ends, down by the acknowledge of    *)
(* the clock before, and never past its ends.                                *)
LEMMA EdgeCount ==
  ASSUME Types, Control, RingInv, Running,
         NEW csr, NEW halt \in BOOLEAN, RxEdge(csr, halt)
  PROVE  /\ rx_irq_count' = rx_irq_count + (IF rx_end(halt) THEN 1 ELSE 0)
                              - (IF rx_irq_done THEN 1 ELSE 0)
         /\ rx_irq_count \in Nat
<1>1. HwType /\ FrameInv
  BY DEF Types, Control
<1>2. PICK k \in 0 .. N : k = Cardinality(Completed)
  BY RingCard DEF Completed
<1>3. PICK c \in 0 .. 2 * N - 1 : c = rx_irq_count
  BY <1>1 DEF HwType
<1>4. PICK h \in {0, 1} : h = Held
  BY DEF Held
<1>5. h = 1 => k >= 1
  <2>1. h = 1 => rx_pos \in Completed
    BY <1>4, PollFacts DEF Held, Completed
  <2>2. Completed \in SUBSET Ring
    BY DEF Completed
  <2> QED BY <1>2, <2>1, <2>2, RingCard
<1>6. rx_end(halt) => k < N
  <2>1. rx_end(halt) => rx_desc_curaddr \in Ring \ Completed
    BY <1>1, RunFacts DEF rx_end, HwType, Completed
  <2>2. Completed \in SUBSET Ring
    BY DEF Completed
  <2> QED BY <1>2, <2>1, <2>2, RingCard
<1>7. N \in Nat /\ N >= 2
  BY Size
<1>8. c + h = k + (IF rx_irq_done THEN 1 ELSE 0)
  BY <1>2, <1>3, <1>4 DEF RingInv
<1>9. rx_irq_count' = IrqCount(rx_end(halt), rx_irq_done)
  BY DEF RxEdge
<1>10. rx_end(halt) \in BOOLEAN /\ rx_irq_done \in BOOLEAN
  BY <1>1 DEF rx_end, HwType
<1>11. CASE rx_end(halt) = TRUE /\ rx_irq_done = FALSE
  <2>1. c + 1 < 2 * N
    BY <1>4, <1>6, <1>7, <1>8, <1>11
  <2>2. rx_irq_count' = IrqCount(TRUE, FALSE)
    BY <1>9, <1>11
  <2>3. rx_irq_count' = c + 1
    BY <1>1, <1>3, <2>1, <2>2, IrqCountValue
  <2> QED BY <1>3, <1>7, <1>11, <2>3
<1>12. CASE rx_end(halt) = FALSE /\ rx_irq_done = TRUE
  <2>1. c # 0
    BY <1>4, <1>5, <1>8, <1>12
  <2>2. rx_irq_count' = IrqCount(FALSE, TRUE)
    BY <1>9, <1>12
  <2>3. rx_irq_count' = c - 1
    BY <1>1, <1>3, <2>1, <2>2, IrqCountValue
  <2> QED BY <1>3, <1>7, <1>12, <2>3
<1>13. CASE rx_end(halt) = TRUE /\ rx_irq_done = TRUE
  <2>1. rx_irq_count' = IrqCount(TRUE, TRUE)
    BY <1>9, <1>13
  <2>2. rx_irq_count' = c
    BY <1>1, <1>3, <2>1, IrqCountValue
  <2> QED BY <1>3, <1>7, <1>13, <2>2
<1>14. CASE rx_end(halt) = FALSE /\ rx_irq_done = FALSE
  <2>1. rx_irq_count' = IrqCount(FALSE, FALSE)
    BY <1>9, <1>14
  <2>2. rx_irq_count' = c
    BY <1>1, <1>3, <2>1, IrqCountValue
  <2> QED BY <1>3, <1>7, <1>14, <2>2
<1> QED BY <1>10, <1>11, <1>12, <1>13, <1>14

LEMMA RingEdge ==
  ASSUME Types, Control, RingInv,
         NEW csr, NEW halt \in BOOLEAN, RxEdge(csr, halt),
         UNCHANGED <<dev, rx_pos>>,
         \/ csr = "ack" /\ Held = 0 /\ Held' = 1
         \/ csr # "ack" /\ Held' = Held
  PROVE  RingInv'
<1> SUFFICES ASSUME Running PROVE RingInv'
  BY DEF RingInv, Running
<1>1. HwType /\ FrameInv
  BY DEF Types, Control
<1>2. PICK k \in 0 .. N : k = Cardinality(Completed)
  BY RingCard DEF Completed
<1>3. PICK p \in Ring : p = rx_pos /\ p = rx_pos'
  BY DEF Types, DrvType
<1>4. PICK c \in Ring : c = rx_desc_curaddr
  BY DEF Types, HwType
<1>5. N \in Nat /\ N >= 2 /\ Ring = 0 .. N - 1
  BY Size
<1>6. /\ rx_irq_count' = rx_irq_count + (IF rx_end(halt) THEN 1 ELSE 0)
                              - (IF rx_irq_done THEN 1 ELSE 0)
      /\ rx_irq_count \in Nat
  BY EdgeCount
<1>7. rx_irq_count + Held = k + (IF rx_irq_done THEN 1 ELSE 0)
  BY <1>2 DEF RingInv
<1>8. rx_irq_count' + Held' = k + (IF rx_end(halt) THEN 1 ELSE 0)
                                + (IF rx_irq_done' THEN 1 ELSE 0)
  <2>1. rx_irq_done' <=> csr = "ack"
    BY DEF RxEdge
  <2>2. Held \in {0, 1}
    BY DEF Held
  <2> QED BY <1>6, <1>7, <2>1, <2>2
<1>9. CASE rx_end(halt) /\ EdgeEnds
  <2>1. c \notin Completed /\ HwPos = c
    BY <1>4, <1>9 DEF EdgeEnds, Completed, HwPos
  <2>2. Completed' = Completed \cup {c}
    <3>1. /\ rx_desc \in [Ring -> Descs] /\ ~rx_desc'[c].hw
          /\ rx_desc' = [rx_desc EXCEPT ![c] = rx_desc'[c]]
      BY <1>1, <1>4, <1>9 DEF HwType, EdgeEnds, DescKept
    <3>2. \A i \in Ring : i # c => rx_desc'[i] = rx_desc[i]
      BY <3>1
    <3> QED BY <3>1, <3>2 DEF Completed
  <2>3. Cardinality(Completed') = k + 1 /\ k < N
    <3>1. Completed \in SUBSET Ring
      BY DEF Completed
    <3> QED BY <1>2, <2>1, <2>2, <3>1, RingCard
  <2>4. c = At(N, p, k)
    BY <1>2, <1>3, <2>1 DEF RingInv
  <2>5. HwPos' = At(N, c, 1)
    BY <1>4, <1>9, NextAt DEF HwPos, EdgeEnds
  <2>6. At(N, c, 1) = At(N, p, k + 1)
    BY <1>5, <2>3, <2>4 DEF At
  <2>7. Dist(N, c, p) = k
    BY <1>5, <2>3, <2>4 DEF At, Dist
  <2>8. \A i \in Completed : Dist(N, i, p) < k
    BY <1>2, <1>3 DEF RingInv
  <2>9. \A i \in Completed' : Dist(N, i, p) < k + 1
    <3>1. \A i \in Completed : Dist(N, i, p) \in Int
      BY <1>5 DEF Completed, Dist
    <3> QED BY <2>2, <2>7, <2>8, <3>1
  <2> QED BY <1>3, <1>8, <1>9, <2>3, <2>5, <2>6, <2>9 DEF RingInv
<1>10. CASE ~rx_end(halt) /\ (EdgeRuns \/ EdgeIdles)
  <2>1. Completed' = Completed
    <3>1. /\ rx_desc \in [Ring -> Descs] /\ rx_desc'[c].hw = rx_desc[c].hw
          /\ rx_desc' = [rx_desc EXCEPT ![c] = rx_desc'[c]]
      BY <1>1, <1>4, <1>10 DEF HwType, EdgeRuns, EdgeIdles, DescKept, Descs
    <3>2. \A i \in Ring : i # c => rx_desc'[i] = rx_desc[i]
      BY <3>1
    <3> QED BY <3>1, <3>2 DEF Completed
  <2>2. HwPos' = HwPos
    BY <1>10 DEF HwPos, EdgeRuns, EdgeIdles
  <2> QED BY <1>2, <1>3, <1>8, <1>10, <2>1, <2>2 DEF RingInv
<1> QED BY <1>1, <1>9, <1>10, EdgeCases DEF rx_end

LEMMA RingSame ==
  ASSUME RingInv, Completed' = Completed, Running' => Running, Held' = Held,
         UNCHANGED <<rx_desc_curaddr, rx_done, rx_irq_count, rx_irq_done, rx_pos>>
  PROVE  RingInv'
<1>1. HwPos' = HwPos
  BY DEF HwPos
<1> QED BY <1>1 DEF RingInv

LEMMA RingStep == Types /\ Control /\ RingInv /\ [Next]_vars => RingInv'
<1> SUFFICES ASSUME Types, Control, RingInv, [Next]_vars PROVE RingInv'
  OBVIOUS
<1>1. CASE UNCHANGED vars
  BY <1>1, RingSame DEF vars, hwvars, drvvars, Completed, Running, Held
<1>2. CASE EdgeStep
  <2>1. UNCHANGED <<dev, rx_pos>>
    BY <1>2 DEF EdgeStep, Clock, RxIsr, PollIeOn, PollAck, drvvars
  <2>2. CASE IsrSpurious
    BY <2>1, <2>2, RingSame DEF IsrSpurious, RxIsr, hwvars, Completed, Running,
                                Held
  <2>3. CASE ~IsrSpurious
    <3>1. PICK csr \in {"none", "ack", "ie_on", "ie_off"}, halt \in BOOLEAN :
            /\ RxEdge(csr, halt)
            /\ \/ csr = "ack" /\ Held = 0 /\ Held' = 1
               \/ csr # "ack" /\ Held' = Held
      BY <1>2, <2>3 DEF EdgeStep, Clock, RxIsr, PollIeOn, PollAck, drvvars,
                        IsrSpurious, Held
    <3> QED BY <2>1, <3>1, RingEdge
  <2> QED BY <2>2, <2>3
<1>3. CASE FlagStep
  <2>1. UNCHANGED <<hwvars, rx_pos, rx_skbs, old, free, stack>>
    BY <1>3, FlagControl
  <2>2. Running' => Running
    BY <1>3 DEF FlagStep, OpenMac, OpenNapi, RxIrqTaken, PollStart, PollCheck,
         PollComplete, PollUnlock, PollReturn, StopNapiMark, StopNapiWait,
         StopIrq, NapiMark, NapiTaken, Running
  <2>3. Held' = Held
    BY <1>3 DEF FlagStep, OpenMac, OpenNapi, RxIrqTaken, PollStart, PollCheck,
         PollComplete, PollUnlock, PollReturn, StopNapiMark, StopNapiWait,
         StopIrq, Held
  <2> QED BY <2>1, <2>2, <2>3, RingSame DEF hwvars, Completed
<1>4. CASE OpenDma
  BY <1>4, RingOpen
<1>5. CASE OpenFails \/ StopDma
  BY <1>5 DEF OpenFails, StopDma, RingInv, Running
<1>6. CASE Frame \/ StackFree \/ PollDeliver
  BY <1>6, RingSame DEF Frame, MacFrame, StackFree, PollDeliver, drvvars,
                        hwvars, Completed, Running, Held
<1>7. CASE PollRecycle \/ PollTake
  <2>1. PICK s \in SKBs : InsertSkb(s)
    <3>1. CASE PollRecycle
      BY <3>1, PollFacts DEF PollRecycle, Control, OwnerInv
    <3>2. CASE PollTake
      <4>1. free # {} /\ free \subseteq SKBs
        BY <3>2 DEF PollTake, Types, DrvType
      <4> QED BY <3>2, <4>1 DEF PollTake
    <3> QED BY <1>7, <3>1, <3>2
  <2>2. ~rx_desc[rx_pos].hw /\ rx_pos \in Ring
    BY <1>7, PollFacts DEF PollRecycle, PollTake
  <2>3. Completed' = Completed
    BY <2>1, <2>2, InsertFacts DEF Completed
  <2> QED BY <1>7, <2>3, RingSame DEF PollRecycle, PollTake, Running, Held
<1>8. CASE PollGive
  BY <1>8, RingGive
<1> QED BY <1>1, <1>2, <1>3, <1>4, <1>5, <1>6, <1>7, <1>8, RxSteps

(* No completion is lost or counted twice, the counter of eth_dma.vhd never  *)
(* wraps although it is only one bit wider than the ring, and the driver and *)
(* the engine stay in step all around the ring, for every size of the ring   *)
(* and every interleaving of interrupt, poll, clock and frames.              *)
THEOREM RxStepSafety == Spec => []RxInStep
<1>1. Types /\ Control /\ RingInv => RxInStep
  BY RingInvInStep
<1> QED BY <1>1, RxControl, RingInit, RingStep, PTL DEF Spec

-----------------------------------------------------------------------------
(* Layers 3 and 4: who owns a buffer and what is in it                     *)

(* The beats of a frame before one place and the next. *)
LEMMA BeatsStep ==
  ASSUME NEW len \in Nat, NEW x \in Nat, x < len, x % BUS_BYTES = 0
  PROVE  {o \in Beats(len) : o < x} \cup {x}
           = {o \in Beats(len) : o < x + BUS_BYTES}
<1>1. BUS_BYTES \in Nat \ {0}
  BY RxParams
<1>2. x \in Beats(len)
  BY DEF Beats
<1>3. ASSUME NEW o \in Beats(len), o < x + BUS_BYTES, ~(o < x)
      PROVE  o = x
  <2>1. o \in Nat /\ o % BUS_BYTES = 0 /\ x <= o
    BY <1>3 DEF Beats
  <2> QED BY <1>1, <1>3, <2>1, ModApart
<1>4. \A o \in Beats(len) : o \in Nat
  BY DEF Beats
<1>5. \A o \in Beats(len) : o < x + BUS_BYTES <=> (o < x \/ o = x)
  BY <1>1, <1>3, <1>4
<1> QED BY <1>2, <1>5

LEMMA BeatsFirst == \A len \in Nat : {o \in Beats(len) : o < 0} = {}
BY DEF Beats

LEMMA BeatsAll ==
  ASSUME NEW len \in Nat, NEW x \in Nat, x >= len
  PROVE  {o \in Beats(len) : o < x} = Beats(len)
BY DEF Beats

(* A beat that is taken inside a frame goes to its place. *)
LEMMA BeatWritten ==
  ASSUME HwType, FrameInv, NEW halt \in BOOLEAN, rx_run(halt),
         NEW m \in [len : Nat, got : SUBSET Nat],
         rx_running => /\ m.len = mac.len
                       /\ m.got = {o \in Beats(mac.len) : o < rx_offset}
  PROVE  /\ WriteBeat(m).len = mac.len
         /\ WriteBeat(m).got = {o \in Beats(mac.len) : o < rx_offset + BUS_BYTES}
<1>1. /\ mac # NoFrame /\ mac.pos = rx_offset /\ mac.len \in Nat
      /\ rx_offset \in Nat /\ rx_offset < mac.len /\ rx_offset % BUS_BYTES = 0
  BY RunFacts DEF Frames, FrameInv, HwType
<1>2. CASE rxs_sop
  <2>1. rx_offset = 0
    BY <1>1, <1>2 DEF rxs_sop
  <2>2. WriteBeat(m) = [len |-> mac.len, got |-> {0}]
    BY <1>2, <2>1 DEF WriteBeat
  <2>3. {o \in Beats(mac.len) : o < 0} \cup {0}
          = {o \in Beats(mac.len) : o < 0 + BUS_BYTES}
    BY <1>1, <2>1, BeatsStep
  <2>4. {o \in Beats(mac.len) : o < 0} = {}
    BY <1>1, BeatsFirst
  <2> QED BY <2>1, <2>2, <2>3, <2>4
<1>3. CASE ~rxs_sop
  <2>1. rx_running
    BY <1>3 DEF rx_run, rx_start
  <2>2. WriteBeat(m) = [m EXCEPT !.got = m.got \cup {rx_offset}]
    BY <1>1, <1>3 DEF WriteBeat
  <2>3. WriteBeat(m).len = m.len /\ WriteBeat(m).got = m.got \cup {rx_offset}
    BY <2>2
  <2>4. {o \in Beats(mac.len) : o < rx_offset} \cup {rx_offset}
          = {o \in Beats(mac.len) : o < rx_offset + BUS_BYTES}
    BY <1>1, BeatsStep
  <2> QED BY <2>1, <2>3, <2>4
<1> QED BY <1>2, <1>3

(* A frame ends with its last beat and never at the length of the            *)
(* descriptor, which is no multiple of the bus width.                        *)
LEMMA EndsWithLastBeat ==
  ASSUME Types, Control, dev # "closed", NEW halt \in BOOLEAN, rx_end(halt)
  PROVE  Taken(halt) /\ rxs_eop
<1>1. HwType /\ FrameInv /\ rx_run(halt)
  BY DEF Types, Control, rx_end
<1>2. /\ mac # NoFrame /\ mac.pos = rx_offset /\ rx_desc[rx_desc_curaddr].hw
      /\ rx_offset \in Nat /\ rx_offset % BUS_BYTES = 0
  BY <1>1, RunFacts DEF FrameInv, HwType
<1>3. rx_desc_q.len = RXLEN
  BY <1>1, <1>2 DEF Control, OwnerInv, HwType, rx_desc_q
<1>4. (rx_offset + BUS_BYTES) % BUS_BYTES = 0
  BY <1>2, RxParams, ModStep
<1>5. ~rx_len_hit
  BY <1>3, <1>4, RxLenOffBeat DEF rx_len_hit
<1> QED BY <1>5 DEF rx_end

(* An edge writes at most to the buffer of the descriptor it works on, and   *)
(* only while that is the engine's.                                          *)
LEMMA EdgeWrites ==
  ASSUME Types, Control, NEW csr, NEW halt \in BOOLEAN, RxEdge(csr, halt)
  PROVE  /\ ~Taken(halt) => mem' = mem
         /\ Taken(halt) =>
              /\ dev # "closed" /\ rx_desc[rx_desc_curaddr].hw
              /\ rx_skbs[rx_desc_curaddr] \in SKBs
              /\ mem' = [mem EXCEPT ![rx_skbs[rx_desc_curaddr]]
                           = WriteBeat(mem[rx_skbs[rx_desc_curaddr]])]
<1>1. CASE ~Taken(halt)
  BY <1>1 DEF RxEdge
<1>2. CASE Taken(halt)
  <2>1. mac # NoFrame /\ rx_desc[rx_desc_curaddr].hw
    BY <1>2 DEF Taken, rxs_valid, rxs_ready, rx_desc_q
  <2>2. dev # "closed" /\ rx_desc_curaddr \in Ring
    BY <2>1 DEF Control, ClosedInv, Types, HwType
  <2>3. rx_desc_q.skb = rx_skbs[rx_desc_curaddr] /\ rx_desc_q.skb \in SKBs
    BY <2>2 DEF Control, OwnerInv, rx_desc_q
  <2>4. mem' = [mem EXCEPT ![rx_desc_q.skb] = WriteBeat(mem[rx_desc_q.skb])]
    BY <1>2 DEF RxEdge
  <2> QED BY <1>2, <2>1, <2>2, <2>3, <2>4
<1> QED BY <1>1, <1>2

LEMMA ContentEdge ==
  ASSUME Types, Control, ContentInv,
         NEW csr, NEW halt \in BOOLEAN, RxEdge(csr, halt),
         UNCHANGED <<dev, rx_pos, rx_skbs, old, free, stack>>,
         poll' = "give" <=> poll = "give"
  PROVE  ContentInv'
<1>1. HwType /\ FrameInv
  BY DEF Types, Control
<1>2. PICK c \in Ring : c = rx_desc_curaddr
  BY <1>1 DEF HwType
<1>3. mem \in [SKBs -> [len : Nat, got : SUBSET Nat]]
  BY <1>1 DEF HwType
<1>4. CASE dev = "closed"
  <2>1. ~Taken(halt) /\ mem' = mem
    BY <1>4, EdgeWrites
  <2>2. stack = {} /\ old = NoFrameUp /\ ~rx_running'
    BY <1>4, EdgeDriver DEF Control, ClosedInv
  <2> QED BY <1>4, <2>1, <2>2 DEF ContentInv, DeliveredIntact, NoFrameUp
<1>5. CASE dev # "closed"
  <2>1. PICK b \in SKBs : b = rx_skbs[c]
    BY <1>2, <1>5 DEF Control, OwnerInv
  <2>2. \A s \in SKBs : s # b => mem'[s] = mem[s]
    BY <1>2, <1>3, <2>1, EdgeWrites
  <2>3. DeliveredIntact'
    <3>1. b \notin stack /\ b # old.skb
      BY <1>2, <1>5, <2>1 DEF Control, OwnerInv
    <3>2. stack \subseteq SKBs /\ (old # NoFrameUp => old.skb \in SKBs)
          /\ old.skb \in SKBs \cup {NoSkb}
      BY <1>5 DEF Control, OwnerInv, Types, DrvType
    <3> QED BY <2>2, <3>1, <3>2 DEF ContentInv, DeliveredIntact
  <2>4. \A i \in Completed : (poll = "give" => i # rx_pos) =>
           /\ Whole(mem'[rx_skbs[i]])
           /\ rx_desc'[i].len = mem'[rx_skbs[i]].len
    <3> SUFFICES ASSUME NEW i \in Completed, poll = "give" => i # rx_pos
                 PROVE  /\ Whole(mem'[rx_skbs[i]])
                        /\ rx_desc'[i].len = mem'[rx_skbs[i]].len
      OBVIOUS
    <3>1. i \in Ring /\ ~rx_desc[i].hw /\ rx_skbs[i] \in SKBs
      BY <1>5 DEF Completed, Control, OwnerInv
    <3>2. rx_desc'[i].len = rx_desc[i].len
      BY <1>1, <3>1, EdgeDescs
    <3>3. mem'[rx_skbs[i]] = mem[rx_skbs[i]]
      <4>1. CASE Taken(halt)
        <5>1. i # c
          BY <1>2, <3>1, <4>1, EdgeWrites
        <5>2. rx_skbs[i] # b
          BY <1>2, <1>5, <2>1, <3>1, <5>1 DEF Control, OwnerInv
        <5> QED BY <2>2, <3>1, <5>2
      <4>2. CASE ~Taken(halt)
        BY <4>2, EdgeWrites
      <4> QED BY <4>1, <4>2
    <3> QED BY <1>5, <3>2, <3>3 DEF ContentInv
  <2>5. ASSUME rx_run(halt), Taken(halt)
        PROVE  /\ mem'[b].len = mac.len
               /\ mem'[b].got = {o \in Beats(mac.len) : o < rx_offset + BUS_BYTES}
    <3>1. mem'[b] = WriteBeat(mem[b])
      BY <1>2, <1>3, <2>1, <2>5, EdgeWrites
    <3>2. rx_running => /\ mem[b].len = mac.len
                        /\ mem[b].got = {o \in Beats(mac.len) : o < rx_offset}
      BY <1>2, <2>1 DEF ContentInv
    <3>3. mem[b] \in [len : Nat, got : SUBSET Nat]
      BY <1>3
    <3> QED BY <1>1, <2>5, <3>1, <3>2, <3>3, BeatWritten
  <2>6. CASE rx_end(halt) /\ EdgeEnds
    <3>1. Taken(halt) /\ rxs_eop /\ rx_run(halt)
      BY <1>5, <2>6, EndsWithLastBeat DEF rx_end
    <3>2. /\ mac.pos = rx_offset /\ mac.len \in Nat /\ rx_offset \in Nat
          /\ BUS_BYTES \in Nat
      BY <1>1, <3>1, RunFacts, RxParams DEF Frames, HwType
    <3>3. rx_offset + BUS_BYTES >= mac.len
      BY <3>1, <3>2 DEF rxs_eop
    <3>4. Whole(mem'[b]) /\ mem'[b].len = mac.len
      <4>1. PICK x \in Nat : x = rx_offset + BUS_BYTES /\ x >= mac.len
        BY <3>2, <3>3
      <4>2. {o \in Beats(mac.len) : o < x} = Beats(mac.len)
        BY <3>2, <4>1, BeatsAll
      <4>3. mem'[b].len = mac.len /\ mem'[b].got = Beats(mac.len)
        BY <2>5, <3>1, <4>1, <4>2
      <4> QED BY <4>3 DEF Whole
    <3>5. rx_desc'[c].len = mac.len
      <4>1. rx_offset + BUS_BYTES - rxs_empty = mac.len
        BY <1>1, <3>1, LengthNat
      <4>2. rx_desc'[c] = UpdateDesc(halt)
        BY <1>1, <1>2 DEF RxEdge, HwType
      <4>3. rx_desc[c] \in Descs
        BY <1>1 DEF HwType
      <4>4. UpdateDesc(halt).len = rx_offset + BUS_BYTES - rxs_empty
        BY <1>2, <2>6, <4>3 DEF UpdateDesc, rx_desc_q, Descs
      <4> QED BY <4>1, <4>2, <4>4
    <3>6. \A i \in Completed' : i = c \/ i \in Completed
      BY <1>1, <1>2, <2>6 DEF EdgeEnds, DescKept, Completed, HwType
    <3>7. ~rx_running'
      BY <2>6 DEF EdgeEnds
    <3>8. \A i \in Completed' : (poll' = "give" => i # rx_pos') =>
           /\ Whole(mem'[rx_skbs'[i]])
           /\ rx_desc'[i].len = mem'[rx_skbs'[i]].len
      BY <2>1, <2>4, <3>4, <3>5, <3>6
    <3> QED BY <2>3, <3>7, <3>8 DEF ContentInv, Whole, Completed
  <2>7. CASE rx_run(halt) /\ ~rx_end(halt) /\ EdgeRuns
    <3>1. \A i \in Completed' : i \in Completed
      BY <1>1, <1>2, <2>7 DEF EdgeRuns, DescKept, Completed, HwType
    <3>2. /\ mac # NoFrame /\ (Taken(halt) <=> ~halt)
      BY <1>1, <2>7, RunFacts
    <3>3. /\ mem'[b].len = mac'.len
          /\ mem'[b].got = {o \in Beats(mac'.len) : o < rx_offset'}
      <4>1. CASE ~halt
        <5>1. mac'.len = mac.len
          BY <1>1, <2>7, <3>2, <4>1, EdgeMac DEF rx_end
        <5>2. rx_offset' = rx_offset + BUS_BYTES
          BY <2>7, <4>1 DEF RxEdge
        <5> QED BY <2>5, <2>7, <3>2, <4>1, <5>1, <5>2
      <4>2. CASE halt
        <5>1. mac' = mac /\ mem' = mem /\ rx_offset' = rx_offset
          BY <2>7, <3>2, <4>2 DEF RxEdge
        <5>2. rx_running
          BY <2>7, <3>2, <4>2 DEF rx_run, rx_start
        <5> QED BY <1>2, <2>1, <5>1, <5>2 DEF ContentInv
      <4> QED BY <4>1, <4>2
    <3>4. rx_skbs'[rx_desc_curaddr'] = b
      BY <1>2, <2>1, <2>7 DEF EdgeRuns
    <3>5. \A i \in Completed' : (poll' = "give" => i # rx_pos') =>
           /\ Whole(mem'[rx_skbs'[i]])
           /\ rx_desc'[i].len = mem'[rx_skbs'[i]].len
      BY <2>4, <3>1
    <3> QED BY <2>3, <3>3, <3>4, <3>5 DEF ContentInv, Whole, Completed, Beats
  <2>8. CASE ~rx_run(halt) /\ EdgeIdles
    <3>1. \A i \in Completed' : i \in Completed
      BY <1>1, <1>2, <2>8 DEF EdgeIdles, DescKept, Completed, HwType
    <3>2. ~rx_running'
      BY <2>8 DEF EdgeIdles
    <3>3. \A i \in Completed' : (poll' = "give" => i # rx_pos') =>
           /\ Whole(mem'[rx_skbs'[i]])
           /\ rx_desc'[i].len = mem'[rx_skbs'[i]].len
      BY <2>4, <3>1
    <3> QED BY <2>3, <3>2, <3>3 DEF ContentInv, Whole, Completed
  <2> QED BY <1>1, <2>6, <2>7, <2>8, EdgeCases
<1> QED BY <1>4, <1>5

LEMMA ContentInit == Init => ContentInv
BY DEF Init, ContentInv, DeliveredIntact, NoFrameUp

LEMMA ContentOpen ==
  ASSUME Types, Control, ContentInv, OpenDma \/ OpenFails \/ StopDma
  PROVE  ContentInv'
<1>1. ~rx_running' /\ UNCHANGED <<mem, old, stack, poll>>
  BY DEF OpenDma, OpenFails, StopDma, RxSoftReset
<1>2. DeliveredIntact'
  BY <1>1 DEF ContentInv, DeliveredIntact
<1>3. CASE OpenDma
  <2>1. free = SKBs
    BY <1>3 DEF OpenDma, Control, ClosedInv
  <2>2. \A i \in Ring : FreshSkbs[i] \in SKBs
    BY <2>1, Fresh
  <2>3. \A i \in Ring : rx_desc'[i].hw
    BY <1>3, <2>2, HwDescType DEF OpenDma
  <2> QED BY <1>1, <1>2, <2>3 DEF ContentInv, Completed
<1>4. CASE OpenFails
  BY <1>1, <1>2, <1>4 DEF OpenFails, ContentInv
<1>5. CASE StopDma
  BY <1>1, <1>2, <1>5 DEF StopDma, ContentInv, Completed, Whole
<1> QED BY <1>3, <1>4, <1>5

LEMMA ContentFree ==
  ASSUME Types, Control, ContentInv, StackFree
  PROVE  ContentInv'
<1>1. PICK s \in stack : /\ stack' = stack \ {s}
                         /\ mem' = [mem EXCEPT ![s] = Blank]
  BY DEF StackFree
<1>2. UNCHANGED <<rx_desc, rx_desc_curaddr, rx_offset, rx_running, mac, dev,
                  rx_pos, rx_skbs, poll, old>>
  BY DEF StackFree
<1>3. dev # "closed" /\ rx_desc_curaddr \in Ring
  BY DEF Control, ClosedInv, Types, HwType, StackFree
<1>4. \A t \in SKBs : t # s => mem'[t] = mem[t]
  BY <1>1 DEF Types, HwType
<1>5. DeliveredIntact'
  <2>1. stack \subseteq SKBs /\ s # old.skb
        /\ old.skb \in SKBs \cup {NoSkb} /\ (old # NoFrameUp => old.skb \in SKBs)
    BY <1>3 DEF Control, OwnerInv, Types, DrvType
  <2> QED BY <1>1, <1>2, <1>4, <2>1 DEF ContentInv, DeliveredIntact
<1>6. \A i \in Ring : mem'[rx_skbs[i]] = mem[rx_skbs[i]]
  BY <1>3, <1>4 DEF Control, OwnerInv
<1> QED BY <1>2, <1>3, <1>5, <1>6 DEF ContentInv, Completed, Whole

LEMMA ContentRecycle ==
  ASSUME Types, Control, ContentInv, PollRecycle
  PROVE  ContentInv'
<1>1. /\ poll = "take" /\ poll' = "give"
      /\ UNCHANGED <<rx_desc_curaddr, rx_offset, rx_running, mac, dev, rx_pos,
                     rx_skbs, old, stack>>
  BY DEF PollRecycle
<1>2. rx_pos \in Ring /\ rx_desc_curaddr \in Ring /\ dev # "closed"
      /\ ~rx_desc[rx_pos].hw /\ (rx_running => rx_desc_curaddr # rx_pos)
  BY <1>1, PollFacts
<1>3. PICK s \in SKBs : s = rx_skbs[rx_pos]
  BY <1>2 DEF Control, OwnerInv
<1>4. InsertSkb(s) /\ \A t \in SKBs : t # s => mem'[t] = mem[t]
  BY <1>3 DEF PollRecycle, Types, HwType
<1>5. \A i \in Ring : i # rx_pos => /\ rx_desc'[i] = rx_desc[i]
                                    /\ mem'[rx_skbs[i]] = mem[rx_skbs[i]]
  BY <1>2, <1>3, <1>4, InsertFacts DEF Control, OwnerInv
<1>6. DeliveredIntact'
  <2>1. stack \subseteq SKBs /\ s # old.skb /\ s \notin stack
        /\ old.skb \in SKBs \cup {NoSkb} /\ (old # NoFrameUp => old.skb \in SKBs)
    BY <1>2, <1>3 DEF Control, OwnerInv, Types, DrvType
  <2> QED BY <1>1, <1>4, <2>1 DEF ContentInv, DeliveredIntact
<1> QED BY <1>1, <1>2, <1>5, <1>6 DEF ContentInv, Completed, Whole

LEMMA ContentTake ==
  ASSUME Types, Control, ContentInv, PollTake
  PROVE  ContentInv'
<1>1. /\ poll = "take" /\ poll' = "give"
      /\ UNCHANGED <<rx_desc_curaddr, rx_offset, rx_running, mac, mem, dev,
                     rx_pos, stack>>
  BY DEF PollTake
<1>2. rx_pos \in Ring /\ rx_desc_curaddr \in Ring /\ dev # "closed"
      /\ ~rx_desc[rx_pos].hw /\ (rx_running => rx_desc_curaddr # rx_pos)
  BY <1>1, PollFacts
<1>3. PICK s \in free : /\ InsertSkb(s) /\ rx_skbs' = [rx_skbs EXCEPT ![rx_pos] = s]
                        /\ old' = [skb |-> rx_skbs[rx_pos],
                                   len |-> rx_desc[rx_pos].len]
  BY DEF PollTake
<1>4. s \in SKBs /\ rx_skbs[rx_pos] \in SKBs
  BY <1>2 DEF Types, DrvType, Control, OwnerInv
<1>5. \A i \in Ring : i # rx_pos => /\ rx_desc'[i] = rx_desc[i]
                                    /\ rx_skbs'[i] = rx_skbs[i]
  BY <1>3, <1>4, InsertFacts DEF Types, DrvType
<1>6. /\ Whole(mem[rx_skbs[rx_pos]])
      /\ rx_desc[rx_pos].len = mem[rx_skbs[rx_pos]].len
  BY <1>1, <1>2 DEF ContentInv, Completed
<1>7. DeliveredIntact'
  BY <1>1, <1>3, <1>6 DEF ContentInv, DeliveredIntact, Whole
<1> QED BY <1>1, <1>2, <1>5, <1>7 DEF ContentInv, Completed, Whole

LEMMA ContentGive ==
  ASSUME Types, Control, ContentInv, PollGive
  PROVE  ContentInv'
<1>1. /\ poll = "give" /\ poll' # "give"
      /\ UNCHANGED <<rx_desc_curaddr, rx_offset, rx_running, mac, mem, dev,
                     rx_skbs, old, stack>>
  BY DEF PollGive
<1>2. rx_pos \in Ring /\ rx_desc \in [Ring -> Descs]
  BY DEF Types, HwType, DrvType
<1>3. rx_desc'[rx_pos].hw /\ \A i \in Ring : i # rx_pos => rx_desc'[i] = rx_desc[i]
  BY <1>2 DEF PollGive, Descs
<1>4. DeliveredIntact'
  BY <1>1 DEF ContentInv, DeliveredIntact
<1> QED BY <1>1, <1>2, <1>3, <1>4 DEF ContentInv, Completed, Whole

LEMMA ContentDeliver ==
  ASSUME Types, Control, ContentInv, PollDeliver
  PROVE  ContentInv'
<1>1. /\ poll = "deliver" /\ poll' = "check" /\ old' = NoFrameUp
      /\ stack' = stack \cup {old.skb} /\ UNCHANGED <<hwvars, dev, rx_pos, rx_skbs>>
  BY DEF PollDeliver
<1>2. old.skb \in SKBs /\ NoSkb \notin SKBs
  BY <1>1, PollFacts, RxDriverParams DEF Control, OwnerInv, PollInv
<1>3. DeliveredIntact'
  BY <1>1, <1>2 DEF ContentInv, DeliveredIntact, NoFrameUp, hwvars
<1> QED BY <1>1, <1>3 DEF ContentInv, Completed, Whole, hwvars

LEMMA ContentStep == Types /\ Control /\ ContentInv /\ [Next]_vars => ContentInv'
<1> SUFFICES ASSUME Types, Control, ContentInv, [Next]_vars PROVE ContentInv'
  OBVIOUS
<1>1. CASE UNCHANGED vars
  BY <1>1 DEF vars, hwvars, drvvars, ContentInv, DeliveredIntact, Completed, Whole
<1>2. CASE EdgeStep
  <2>1. /\ UNCHANGED <<dev, rx_pos, rx_skbs, old, free, stack>>
        /\ poll' = "give" <=> poll = "give"
    BY <1>2 DEF EdgeStep, Clock, RxIsr, PollIeOn, PollAck, drvvars
  <2>2. CASE IsrSpurious
    BY <2>1, <2>2 DEF IsrSpurious, hwvars, ContentInv, DeliveredIntact,
                      Completed, Whole
  <2>3. CASE ~IsrSpurious
    BY <1>2, <2>1, <2>3, EdgeIs, ContentEdge
  <2> QED BY <2>2, <2>3
<1>3. CASE FlagStep
  <2>1. UNCHANGED <<hwvars, rx_pos, rx_skbs, old, free, stack>>
    BY <1>3, FlagControl
  <2>2. /\ dev' # "closed" => dev # "closed"
        /\ poll' = "give" <=> poll = "give"
    BY <1>3 DEF FlagStep, OpenMac, OpenNapi, RxIrqTaken, PollStart, PollCheck,
         PollComplete, PollUnlock, PollReturn, StopNapiMark, StopNapiWait,
         StopIrq, NapiMark, NapiTaken
  <2> QED BY <2>1, <2>2 DEF hwvars, ContentInv, DeliveredIntact, Completed, Whole
<1>4. CASE Frame
  <2>1. ~rx_running
    BY <1>4 DEF Frame, MacFrame, Control, FrameInv
  <2> QED BY <1>4, <2>1 DEF Frame, MacFrame, drvvars, ContentInv,
                            DeliveredIntact, Completed, Whole
<1> QED BY <1>1, <1>2, <1>3, <1>4, RxSteps, ContentOpen, ContentFree,
           ContentRecycle, ContentTake, ContentGive, ContentDeliver

(* The engine and the driver never share a buffer, and what the protocol     *)
(* stack is given is the whole frame with its length and stays so, for every *)
(* ring, every bus width, every length of frame and buffer.                  *)
THEOREM RxBufferSafety == Spec => []RxBuffersSafe
<1>1. Types /\ Control /\ ContentInv => RxBuffersSafe
  BY DEF Types, HwType, Control, OwnerInv, ContentInv, RxBuffersSafe,
         RxBuffersPrivate
<1> QED BY <1>1, RxControl, ContentInit, ContentStep, PTL DEF Spec
=============================================================================
