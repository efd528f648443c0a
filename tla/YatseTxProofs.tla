---------------------------- MODULE YatseTxProofs ----------------------------
(***************************************************************************)
(* What holds of the transmit side of the Ethernet DMA engine and its      *)
(* driver for every ring, FIFO depth, bus width and set of frames.  The    *)
(* inductive invariant: the control state of driver and tasklet, the walk  *)
(* around the ring, who has a frame, how far the engine is in it, and the  *)
(* stream of words between the reads and the MAC.                          *)
(***************************************************************************)
EXTENDS YatseTx, NumberLemmas, FiniteSetTheorems, SequenceTheorems, TLAPS

N == 2^TX_RING_BITS
M == 2^LENGTH_BITS

(* Tasklet, interrupt handler and yatse_start_xmit against yatse_open and    *)
(* yatse_stop, and who holds tx_lock.                                        *)
TaskInv ==
  /\ tcontrol.ena <=> Running
  /\ tasklet_list => tasklet_sched
  /\ dev # "up" => isr = "idle" /\ xmit = "idle"
  /\ dev = "closed" => tc = "idle" /\ ~tasklet_sched
  /\ dev \in {"killing", "stopped"} => ~tasklet_list
  /\ dev = "stopped" => tc = "idle"
  /\ xmit = "give" => tx_queued < N /\ tc \notin {"ack", "ie"}
  /\ tc = "ack" => tx_queued > 0 /\ ~tx_desc[tx_remove].hw

(* Before yatse_open the engine has nothing to do. *)
ClosedInv ==
  dev = "closed" =>
    /\ \A i \in Ring : ~tx_desc[i].hw
    /\ tx_queued = 0

(* Nor is there a word on its way. *)
EmptyInv ==
  dev = "closed" =>
    /\ reads = <<>> /\ tx_data_fifo = <<>> /\ tx_control_fifo = <<>>
    /\ wire = NoWire

(* The place the engine will work on next. *)
HwPos == IF tx_done THEN RingNext(tx_desc_curaddr) ELSE tx_desc_curaddr

(* How far a descriptor lies behind the one to be taken back next. *)
Ahead(i) == Dist(N, i, tx_remove)

(* With k of the queued frames done. *)
InStep(k) ==
  /\ \A i \in Ring : tx_desc[i].hw <=> k <= Ahead(i) /\ Ahead(i) < tx_queued
  /\ Running => /\ tx_irq_count = k + (IF tx_irq_done THEN 1 ELSE 0)
                /\ HwPos = At(N, tx_remove, k)
                /\ tx_done => k >= 1

RingInv ==
  dev # "closed" => /\ tx_insert = At(N, tx_remove, tx_queued)
                    /\ \E k \in 0 .. tx_queued : InStep(k)

(* A descriptor that holds a frame, the one being filled too. *)
Taken(i) == Ahead(i) < tx_queued + (IF xmit = "give" THEN 1 ELSE 0)

(* No frame is in two places. *)
OwnerInv ==
  dev # "closed" =>
    \A i \in Ring : Taken(i) =>
      /\ tx_skbs[i] \in SKBs /\ tx_desc[i].skb = tx_skbs[i]
      /\ tx_skbs[i] # tc_skb
      /\ \A j \in Ring : Taken(j) /\ tx_skbs[i] = tx_skbs[j] => i = j

(* The bytes from the start of the next bus word to the end of the frame. *)
Rest(d) == Len0[d.skb] + Offset0[d.skb] - d.word * BUS_BYTES

(* A descriptor says how much of its frame is left, modulo M. *)
Tells(d) ==
  /\ d.skb \in SKBs /\ d.offset = Offset0[d.skb]
  /\ Rest(d) >= 1
  /\ d.len + d.offset = Rest(d) \/ d.len + d.offset = Rest(d) + M

(* Only the frame the engine is in has been begun. *)
WordInv ==
  /\ \A i \in Ring : tx_desc[i].hw => Tells(tx_desc[i])
  /\ xmit = "give" => Tells(tx_desc[tx_insert]) /\ tx_desc[tx_insert].word = 0
  /\ Running =>
       /\ \A i \in Ring : tx_desc[i].hw /\ tx_desc[i].word # 0
                            => i = tx_desc_curaddr
       /\ tx_desc_q.hw => (tx_sop <=> tx_desc_q.word = 0)
       /\ ~tx_sop => tx_desc_q.hw

(* A word and its mark. *)
Marked(r, c) ==
  /\ c.sop <=> r.word = 0
  /\ c.eop <=> r.word + 1 = WordsOf(r.skb)
  /\ r.word + 1 <= WordsOf(r.skb)

(* What must come after the first j of the words s with marks c, w being at  *)
(* the MAC, and that it does.                                                *)
Start == [skb |-> NoSkb, word |-> 0]
Successor(r, c) ==
  IF c.eop THEN Start ELSE [skb |-> r.skb, word |-> r.word + 1]
AfterOf(w, s, c, j) ==
  IF j = 0
  THEN IF w.open THEN [skb |-> w.words[1].skb, word |-> Len(w.words)] ELSE Start
  ELSE Successor(s[j], c[j])

Follows(after, r) == IF after = Start THEN r.word = 0 ELSE r = after

Chain(w, s, c) ==
  /\ Len(c) = Len(s)
  /\ \A j \in 1 .. Len(s) : Marked(s[j], c[j]) /\ Follows(AfterOf(w, s, c, j - 1), s[j])

(* What the MAC has of a frame. *)
WireOk(w) ==
  /\ ~w.broken
  /\ w.open => w.words # <<>>
  /\ w.words # <<>> =>
       LET s == w.words[1].skb
       IN  /\ \A k \in 1 .. Len(w.words) :
                 w.words[k] = [skb |-> s, word |-> k - 1]
           /\ w.open => Len(w.words) < WordsOf(s)
           /\ ~w.open => Len(w.words) = WordsOf(s)

WireInv == WireOk(wire)

(* The words on their way are whole frames, up to where the engine is. *)
Stream == tx_data_fifo \o reads
After(j) == AfterOf(wire, Stream, tx_control_fifo, j)

StreamInv ==
  /\ Chain(wire, Stream, tx_control_fifo)
  /\ Len(tx_control_fifo) <= TX_FIFO_DEPTH
  /\ Running => /\ tx_sop <=> After(Len(Stream)) = Start
                /\ ~tx_sop => After(Len(Stream)) = [skb |-> tx_desc_q.skb,
                                                   word |-> tx_desc_q.word]

-----------------------------------------------------------------------------
(* Types                                                                   *)

Descs == [hw : BOOLEAN, len : 0 .. M - 1, offset : 0 .. BUS_BYTES - 1,
          word : Nat, skb : SKBs \cup {NoSkb}]
Marks == [sop : BOOLEAN, eop : BOOLEAN]
Wires == [open : BOOLEAN, words : Seq(Reads), broken : BOOLEAN]

HwType ==
  /\ tx_desc \in [Ring -> Descs]
  /\ tx_desc_curaddr \in Ring /\ tx_done \in BOOLEAN /\ tx_sop \in BOOLEAN
  /\ tx_irq_count \in 0 .. 2 * N - 1 /\ tx_irq_done \in BOOLEAN
  /\ tcontrol \in [ena : BOOLEAN, ie : BOOLEAN, is : BOOLEAN]

QueueType ==
  /\ reads \in Seq(Reads) /\ tx_data_fifo \in Seq(Reads)
  /\ tx_control_fifo \in Seq(Marks)
  /\ wire \in Wires

DrvType ==
  /\ dev \in {"closed", "up", "quiet", "halted", "killing", "stopped"}
  /\ tx_skbs \in [Ring -> SKBs \cup {NoSkb}]
  /\ tx_insert \in Ring /\ tx_remove \in Ring
  /\ tx_queued \in 0 .. N
  /\ queue_stopped \in BOOLEAN
  /\ xmit \in {"idle", "give"}
  /\ isr \in {"idle", "taken", "schedule"}
  /\ tasklet_sched \in BOOLEAN /\ tasklet_list \in BOOLEAN
  /\ tc \in {"idle", "check", "ack", "free", "ie", "wake"}
  /\ tc_skb \in SKBs \cup {NoSkb}

Types == HwType /\ QueueType /\ DrvType

LEMMA TypeSplit == TypeOK <=> Types
BY TxRingSize DEF TypeOK, Types, HwType, QueueType, DrvType, N, M, Descs, Marks, Wires

LEMMA Size == N \in Nat /\ N >= 2 /\ Ring = 0 .. N - 1
BY TxRingSize DEF N, Ring

LEMMA LengthSize == M \in Nat /\ BUS_BYTES \in Nat \ {0} /\ BUS_BYTES < M
BY TxLengthSize, TxParams DEF M

LEMMA FrameSize ==
  ASSUME NEW s \in SKBs
  PROVE  /\ Len0[s] \in Nat /\ Offset0[s] \in Nat /\ Offset0[s] < BUS_BYTES
         /\ Len0[s] >= 1 /\ Len0[s] + Offset0[s] < M
BY TxDriverParams, TxLenFits, LengthSize DEF M

-----------------------------------------------------------------------------
(* What the length of a descriptor says                                    *)

LEMMA RestBounds ==
  ASSUME NEW d \in Descs, Tells(d)
  PROVE  Rest(d) \in 1 .. M - 1
<1>1. /\ Len0[d.skb] \in Nat /\ Offset0[d.skb] \in Nat
      /\ Len0[d.skb] + Offset0[d.skb] < M
  BY FrameSize DEF Tells
<1>2. PICK x \in Nat : x = d.word * BUS_BYTES
  BY LengthSize DEF Descs
<1> QED BY <1>1, <1>2, LengthSize DEF Tells, Rest

(* The wrapped sum is the rest of the frame. *)
LEMMA UnalIsRest ==
  ASSUME NEW d \in Descs, Tells(d)
  PROVE  (d.len + d.offset) % M = Rest(d)
<1>1. PICK m \in Nat \ {0} : m = M
  BY LengthSize
<1>2. PICK r \in 1 .. m - 1 : r = Rest(d)
  BY <1>1, RestBounds
<1>3. PICK y \in 0 .. 2 * m - 1 : y = d.len + d.offset /\ (y = r \/ y = r + m)
  BY <1>1, <1>2, LengthSize DEF Tells, Descs
<1>4. y % m = IF y < m THEN y ELSE y - m
  BY ModTurn
<1> QED BY <1>1, <1>2, <1>3, <1>4

(* One word on: the length may pass below zero, the sum stays right. *)
LEMMA TellsStep ==
  ASSUME NEW d \in Descs, Tells(d), Rest(d) > BUS_BYTES, NEW e \in Descs,
         e.skb = d.skb, e.offset = d.offset, e.word = d.word + 1,
         e.len = IF d.len >= BUS_BYTES THEN d.len - BUS_BYTES
                 ELSE d.len + M - BUS_BYTES
  PROVE  Tells(e)
<1>1. /\ d.len \in 0 .. M - 1 /\ d.offset \in Nat /\ d.offset < BUS_BYTES
      /\ e.len \in 0 .. M - 1 /\ BUS_BYTES \in Nat \ {0} /\ M \in Nat
      /\ BUS_BYTES < M
  BY LengthSize DEF Descs
<1>2. PICK r \in 1 .. M - 1 : r = Rest(d)
  BY RestBounds
<1>3. Rest(e) = r - BUS_BYTES
  <2>1. PICK l, o \in Nat : l = Len0[d.skb] /\ o = Offset0[d.skb]
    BY FrameSize DEF Tells
  <2>2. d.word \in Nat
    BY DEF Descs
  <2>3. (d.word + 1) * BUS_BYTES = d.word * BUS_BYTES + BUS_BYTES
    BY <1>1, <2>2
  <2>4. PICK x \in Nat : x = d.word * BUS_BYTES
    BY <1>1, <2>2
  <2>5. r = l + o - x
    BY <1>2, <2>1, <2>4 DEF Rest
  <2>6. Rest(e) = l + o - (x + BUS_BYTES)
    BY <2>1, <2>3, <2>4 DEF Rest
  <2> QED BY <1>1, <2>5, <2>6
<1>4. d.len + d.offset = r \/ d.len + d.offset = r + M
  BY <1>2 DEF Tells
<1>5. e.len + e.offset = r - BUS_BYTES \/ e.len + e.offset = r - BUS_BYTES + M
  BY <1>1, <1>2, <1>4
<1> QED BY <1>1, <1>2, <1>3, <1>5 DEF Tells

(* The last word is the one that leaves no more than a bus word. *)
LEMMA LastWord ==
  ASSUME NEW d \in Descs, Tells(d)
  PROVE  /\ Rest(d) <= BUS_BYTES <=> d.word + 1 = WordsOf(d.skb)
         /\ d.word + 1 <= WordsOf(d.skb) /\ WordsOf(d.skb) \in Nat
<1>1. PICK b \in Nat \ {0} : b = BUS_BYTES
  BY LengthSize
<1>2. PICK r \in 1 .. M - 1 : r = Rest(d)
  BY RestBounds
<1>3. PICK w \in Nat : w = d.word
  BY DEF Descs
<1>4. PICK t \in Nat : t = Len0[d.skb] + Offset0[d.skb]
  BY FrameSize DEF Tells
<1>5. PICK x \in Nat : x = b * w
  OBVIOUS
<1>6. t = x + r
  <2>1. w * b = x
    BY <1>5
  <2>2. PICK l, o \in Nat : l = Len0[d.skb] /\ o = Offset0[d.skb] /\ t = l + o
    BY <1>4, FrameSize DEF Tells
  <2>3. d.word * BUS_BYTES = x
    BY <1>1, <1>3, <2>1
  <2>4. r = l + o - x
    BY <1>2, <2>2, <2>3 DEF Rest
  <2> QED BY <2>2, <2>4, LengthSize
<1>7. WordsOf(d.skb) = (t + b - 1) \div b
  <2>1. PICK l, o \in Nat : l = Len0[d.skb] /\ o = Offset0[d.skb]
    BY FrameSize DEF Tells
  <2>2. o + l + b - 1 = t + b - 1
    BY <1>4, <2>1
  <2> QED BY <1>1, <2>1, <2>2 DEF WordsOf
<1>8. CASE r <= b
  <2>1. PICK y \in 0 .. b - 1 : y = r - 1
    BY <1>8, LengthSize
  <2>2. t + b - 1 = b * (w + 1) + y
    BY <1>5, <1>6, <2>1, LengthSize
  <2>3. (b * (w + 1) + y) \div b = w + 1
    BY DivRest
  <2> QED BY <1>1, <1>2, <1>3, <1>7, <1>8, <2>2, <2>3
<1>9. CASE r > b
  <2>1. PICK y \in Nat : y = r - 1 - b
    BY <1>9, LengthSize
  <2>2. t + b - 1 = b * (w + 2) + y
    BY <1>5, <1>6, <2>1, LengthSize
  <2>3. (b * (w + 2) + y) \div b >= w + 2
    BY DivAtLeast
  <2>4. (t + b - 1) \div b \in Int
    BY <1>4
  <2> QED BY <1>1, <1>2, <1>3, <1>7, <1>9, <2>2, <2>3, <2>4
<1> QED BY <1>8, <1>9, LengthSize

-----------------------------------------------------------------------------
(* What a clock edge does                                                  *)

Issue(io) == txd_rd /\ ~io.halt
Last(io) == Issue(io) /\ tx_eop
Got(io) == io.ready /\ tx_align_valid

LEMMA EdgeIssue ==
  ASSUME HwType, WordInv, NEW csr, NEW io \in IO, TxEdge(csr, io), Issue(io)
  PROVE  /\ tx_desc_q.hw /\ tcontrol.ena /\ tx_desc_q \in Descs
         /\ Len(tx_control_fifo) # TX_FIFO_DEPTH
         /\ Tells(tx_desc_q)
         /\ tx_eop <=> Rest(tx_desc_q) <= BUS_BYTES
         /\ \E e \in Descs :
              /\ tx_desc' = [tx_desc EXCEPT ![tx_desc_curaddr] = e]
              /\ e.hw <=> ~tx_eop
              /\ e.skb = tx_desc_q.skb /\ e.word = tx_desc_q.word + 1
              /\ ~tx_eop => Tells(e)
<1>1. tx_desc_q.hw /\ tcontrol.ena /\ Len(tx_control_fifo) # TX_FIFO_DEPTH
  BY DEF Issue, txd_rd, tx_control_full
<1>2. tx_desc_curaddr \in Ring
  BY DEF HwType
<1>3. PICK d \in Descs : d = tx_desc_q
  BY <1>2 DEF HwType, tx_desc_q
<1>4. Tells(d)
  BY <1>1, <1>2, <1>3 DEF WordInv, tx_desc_q
<1>5. tx_eop <=> Rest(d) <= BUS_BYTES
  BY <1>3, <1>4, UnalIsRest DEF tx_eop, tx_unal_len, M
<1>6. PICK m, b \in Nat \ {0} : m = M /\ b = BUS_BYTES /\ b < m
  BY LengthSize
<1>7. PICK l \in 0 .. m - 1 : l = d.len
  BY <1>6 DEF Descs
<1>8. PICK y \in 0 .. 2 * m - 1 : y = l + m - b
  BY <1>6
<1>9. y % m = IF l >= b THEN l - b ELSE l + m - b
  <2>1. y % m = IF y < m THEN y ELSE y - m
    BY ModTurn
  <2> QED BY <1>6, <1>8, <2>1
<1>10. PICK z \in 0 .. m - 1 : z = y % m
  BY <1>6, <1>8, <1>9
<1>11. PICK h \in BOOLEAN : h = ~tx_eop
  OBVIOUS
<1>12. PICK w \in Nat : w = d.word + 1
  BY DEF Descs
<1>13. UpdateDesc(TRUE) = [d EXCEPT !.word = w, !.hw = h, !.len = z]
  <2>1. d.len + 2^LENGTH_BITS - BUS_BYTES = y
    BY <1>6, <1>7, <1>8 DEF M
  <2> QED BY <1>3, <1>6, <1>10, <1>11, <1>12, <2>1 DEF UpdateDesc, M
<1>14. PICK e : e = [hw |-> h, len |-> z, offset |-> d.offset, word |-> w,
                     skb |-> d.skb]
  OBVIOUS
<1>15. /\ e.hw = h /\ e.len = z /\ e.offset = d.offset /\ e.word = w
       /\ e.skb = d.skb
  BY <1>14
<1>16. e \in Descs
  BY <1>6, <1>14 DEF Descs
<1>17. UpdateDesc(TRUE) = e
  BY <1>13, <1>14 DEF Descs
<1>18. tx_desc' = [tx_desc EXCEPT ![tx_desc_curaddr] = e]
  BY <1>17 DEF TxEdge, Issue, UpdateDesc
<1>19. ~tx_eop => Tells(e)
  <2>1. ASSUME ~tx_eop PROVE Tells(e)
    <3>1. Rest(d) > BUS_BYTES
      BY <1>4, <1>5, <2>1, RestBounds, LengthSize
    <3> QED BY <1>4, <1>6, <1>7, <1>9, <1>10, <1>12, <1>15, <1>16, <3>1, TellsStep
  <2> QED BY <2>1
<1> QED BY <1>1, <1>3, <1>4, <1>5, <1>11, <1>12, <1>15, <1>16, <1>18, <1>19

LEMMA EdgeNoIssue ==
  ASSUME HwType, NEW csr, NEW io \in IO, TxEdge(csr, io), ~Issue(io)
  PROVE  tx_desc' = tx_desc /\ ~tx_done' /\ tx_sop' = tx_sop
<1>1. tx_desc' = [tx_desc EXCEPT ![tx_desc_curaddr] = tx_desc[tx_desc_curaddr]]
  BY DEF TxEdge, Issue, UpdateDesc, tx_desc_q
<1>2. tx_desc' = tx_desc
  BY <1>1 DEF HwType
<1> QED BY <1>2 DEF TxEdge, Issue

LEMMA RingNextAt == \A i \in Ring : RingNext(i) = At(N, i, 1) /\ RingNext(i) \in Ring
<1> SUFFICES ASSUME NEW i \in Ring PROVE RingNext(i) = At(N, i, 1) /\ RingNext(i) \in Ring
  OBVIOUS
<1>1. RingNext(i) = At(N, i, 1)
  BY AtMod, Size DEF RingNext, N
<1>2. At(N, i, 1) \in Ring
  BY AtDist, Size
<1> QED BY <1>1, <1>2

(* The counter of completions, TX_RING_BITS + 1 wide. *)
LEMMA IrqCountValue ==
  ASSUME HwType
  PROVE  /\ IrqCount(TRUE, FALSE) = IF tx_irq_count + 1 < 2 * N
                                    THEN tx_irq_count + 1 ELSE 0
         /\ IrqCount(FALSE, TRUE) = IF tx_irq_count = 0 THEN 2 * N - 1
                                    ELSE tx_irq_count - 1
         /\ IrqCount(TRUE, TRUE) = tx_irq_count
         /\ IrqCount(FALSE, FALSE) = tx_irq_count
<1>1. PICK w \in Nat \ {0} : w = 2 * N /\ w = 2^(TX_RING_BITS + 1)
  BY TxRingSize DEF N
<1>2. PICK k \in 0 .. w - 1 : k = tx_irq_count
  BY <1>1 DEF HwType
<1>3. (k + 1) % w = IF k + 1 < w THEN k + 1 ELSE 0
  <2>1. PICK y \in 0 .. 2 * w - 1 : y = k + 1
    OBVIOUS
  <2>2. y % w = IF y < w THEN y ELSE y - w
    BY ModTurn
  <2> QED BY <2>1, <2>2
<1>4. (k + w - 1) % w = IF k = 0 THEN w - 1 ELSE k - 1
  <2>1. PICK y \in 0 .. 2 * w - 1 : y = k + w - 1
    OBVIOUS
  <2>2. y % w = IF y < w THEN y ELSE y - w
    BY ModTurn
  <2> QED BY <2>1, <2>2
<1>5. IrqCount(TRUE, FALSE) = (k + 1) % w
  BY <1>1, <1>2 DEF IrqCount
<1>6. IrqCount(FALSE, TRUE) = (k + w - 1) % w
  BY <1>1, <1>2 DEF IrqCount
<1>7. IrqCount(TRUE, TRUE) = k /\ IrqCount(FALSE, FALSE) = k
  BY <1>2 DEF IrqCount
<1> QED BY <1>1, <1>2, <1>3, <1>4, <1>5, <1>6, <1>7

LEMMA EdgeHwType ==
  ASSUME HwType, WordInv, NEW csr, NEW io \in IO, TxEdge(csr, io)
  PROVE  HwType'
<1>1. tx_desc' \in [Ring -> Descs]
  <2>1. CASE Issue(io)
    BY <2>1, EdgeIssue DEF HwType
  <2>2. CASE ~Issue(io)
    BY <2>2, EdgeNoIssue DEF HwType
  <2> QED BY <2>1, <2>2
<1>2. tx_desc_curaddr' \in Ring
  BY RingNextAt DEF HwType, TxEdge
<1>3. Last(io) \in BOOLEAN /\ tx_eop \in BOOLEAN /\ tx_irq_done \in BOOLEAN
  BY DEF Last, tx_eop, HwType
<1>4. tx_done' \in BOOLEAN /\ tx_sop' \in BOOLEAN /\ tx_irq_done' \in BOOLEAN
  BY <1>3 DEF TxEdge, HwType
<1>5. tx_irq_count' \in 0 .. 2 * N - 1
  <2>1. tx_irq_count \in 0 .. 2 * N - 1
    BY DEF HwType
  <2>2. N \in Nat /\ N >= 2
    BY Size
  <2>3. tx_irq_count + 1 < 2 * N => tx_irq_count + 1 \in 0 .. 2 * N - 1
    BY <2>1, <2>2
  <2>4. /\ 0 \in 0 .. 2 * N - 1 /\ 2 * N - 1 \in 0 .. 2 * N - 1
        /\ tx_irq_count # 0 => tx_irq_count - 1 \in 0 .. 2 * N - 1
    BY <2>1, <2>2
  <2>5. IrqCount(TRUE, FALSE) \in 0 .. 2 * N - 1
    BY <2>3, <2>4, IrqCountValue, Zenon
  <2>6. IrqCount(FALSE, TRUE) \in 0 .. 2 * N - 1
    BY <2>4, IrqCountValue, Zenon
  <2>7. \A b, c \in BOOLEAN : IrqCount(b, c) \in 0 .. 2 * N - 1
    BY <2>1, <2>5, <2>6, IrqCountValue, Zenon
  <2>8. tx_irq_count' = IrqCount(Last(io), tx_irq_done)
    BY DEF TxEdge, Last, Issue
  <2> QED BY <1>3, <2>7, <2>8
<1>6. tcontrol' \in [ena : BOOLEAN, ie : BOOLEAN, is : BOOLEAN]
  BY DEF HwType, TxEdge
<1> QED BY <1>1, <1>2, <1>4, <1>5, <1>6 DEF HwType

LEMMA AheadType ==
  ASSUME DrvType
  PROVE  /\ \A i \in Ring : /\ Ahead(i) \in 0 .. N - 1
                            /\ At(N, tx_remove, Ahead(i)) = i
                            /\ Ahead(i) = 0 <=> i = tx_remove
         /\ \A k \in 0 .. N - 1 : /\ At(N, tx_remove, k) \in Ring
                                  /\ Ahead(At(N, tx_remove, k)) = k
<1>1. N \in Nat \ {0} /\ Ring = 0 .. N - 1
  BY Size
<1>2. PICK p \in 0 .. N - 1 : p = tx_remove
  BY <1>1 DEF DrvType
<1>3. \A i \in 0 .. N - 1 : /\ Dist(N, i, p) \in 0 .. N - 1
                            /\ At(N, p, Dist(N, i, p)) = i
                            /\ Dist(N, i, p) = 0 <=> i = p
  BY <1>1, DistType
<1>4. \A k \in 0 .. N - 1 : /\ At(N, p, k) \in 0 .. N - 1
                            /\ Dist(N, At(N, p, k), p) = k
  BY <1>1, AtDist
<1> QED BY <1>1, <1>2, <1>3, <1>4 DEF Ahead

(* The counter goes up by the frame that ends and down by the acknowledge of *)
(* the clock before.                                                         *)
LEMMA EdgeCount ==
  ASSUME HwType, NEW csr, NEW io \in IO, TxEdge(csr, io), NEW k \in Nat,
         tx_irq_count = k + (IF tx_irq_done THEN 1 ELSE 0),
         Last(io) => k < N
  PROVE  tx_irq_count' = k + (IF Last(io) THEN 1 ELSE 0)
<1>1. N \in Nat /\ N >= 2
  BY Size
<1>2. Last(io) \in BOOLEAN /\ tx_irq_done \in BOOLEAN
  BY DEF Last, HwType
<1>3. tx_irq_count' = IrqCount(Last(io), tx_irq_done)
  BY DEF TxEdge, Last, Issue
<1>4. PICK c \in 0 .. 2 * N - 1 : c = tx_irq_count
  BY DEF HwType
<1>5. CASE Last(io) = TRUE /\ tx_irq_done = FALSE
  <2>1. c = k /\ k + 1 < 2 * N
    BY <1>1, <1>4, <1>5
  <2>2. tx_irq_count' = IrqCount(TRUE, FALSE)
    BY <1>3, <1>5
  <2>3. tx_irq_count' = c + 1
    BY <1>4, <2>1, <2>2, IrqCountValue
  <2> QED BY <1>5, <2>1, <2>3
<1>6. CASE Last(io) = FALSE /\ tx_irq_done = TRUE
  <2>1. c = k + 1
    BY <1>4, <1>6
  <2>2. tx_irq_count' = IrqCount(FALSE, TRUE)
    BY <1>3, <1>6
  <2>3. c # 0
    BY <2>1
  <2>4. tx_irq_count' = c - 1
    BY <1>4, <2>2, <2>3, IrqCountValue
  <2> QED BY <1>6, <2>1, <2>4
<1>7. CASE Last(io) = TRUE /\ tx_irq_done = TRUE
  <2>1. tx_irq_count' = IrqCount(TRUE, TRUE)
    BY <1>3, <1>7
  <2>2. tx_irq_count' = k + 1
    BY <1>4, <1>7, <2>1, IrqCountValue
  <2> QED BY <1>7, <2>2
<1>8. CASE Last(io) = FALSE /\ tx_irq_done = FALSE
  <2>1. tx_irq_count' = IrqCount(FALSE, FALSE)
    BY <1>3, <1>8
  <2>2. tx_irq_count' = c
    BY <1>4, <2>1, IrqCountValue
  <2> QED BY <1>4, <1>8, <2>2
<1> QED BY <1>2, <1>5, <1>6, <1>7, <1>8

(* The descriptors and the engine after an edge, seen from the driver's      *)
(* places before it.                                                         *)
LEMMA EdgeRing ==
  ASSUME HwType, DrvType, TaskInv, WordInv, dev # "closed",
         NEW k \in 0 .. tx_queued, InStep(k),
         NEW csr, NEW io \in IO, TxEdge(csr, io)
  PROVE  \E m \in 0 .. tx_queued :
           /\ m = k + (IF Last(io) THEN 1 ELSE 0)
           /\ \A i \in Ring : tx_desc'[i].hw <=> m <= Ahead(i) /\ Ahead(i) < tx_queued
           /\ Running => tx_irq_count' = m /\ HwPos' = At(N, tx_remove, m)
           /\ tx_done' = Last(io)
<1>1. PICK q \in 0 .. N : q = tx_queued
  BY DEF DrvType
<1>2. PICK p \in Ring : p = tx_remove
  BY DEF DrvType
<1>3. PICK c \in Ring : c = tx_desc_curaddr
  BY DEF HwType
<1>4. N \in Nat /\ N >= 2 /\ Ring = 0 .. N - 1
  BY Size
<1>5. tx_done' = Last(io) /\ tx_desc_curaddr' = IF tx_done THEN RingNext(c) ELSE c
  BY <1>3 DEF TxEdge, Last, Issue
<1>6. ASSUME Issue(io)
      PROVE  Running /\ c = At(N, p, k) /\ ~tx_done /\ k < q /\ Ahead(c) = k
  <2>1. tx_desc[c].hw /\ Running
    BY <1>3, <1>6, EdgeIssue DEF TaskInv, tx_desc_q
  <2>2. k <= Ahead(c) /\ Ahead(c) < q
    BY <1>1, <2>1 DEF InStep
  <2>3. CASE tx_done
    <3>1. At(N, c, 1) = At(N, p, k) /\ k >= 1
      BY <1>2, <1>3, <2>1, <2>3, RingNextAt DEF InStep, HwPos
    <3>2. PICK a \in 0 .. N - 1 : a = Ahead(c) /\ At(N, p, a) = c
      BY <1>2, AheadType
    <3>3. At(N, p, a + 1) = At(N, p, k)
      BY <1>4, <3>1, <3>2, AtNext
    <3>4. a >= k /\ a < q
      BY <2>2, <3>2
    <3>5. At(N, p, a + 1) # At(N, p, k)
      BY <1>1, <1>4, <3>1, <3>4 DEF At
    <3> QED BY <3>3, <3>5
  <2>4. CASE ~tx_done
    <3>1. c = At(N, p, k)
      BY <1>2, <1>3, <2>1, <2>4 DEF InStep, HwPos
    <3>2. k < q
      BY <1>1, <1>4, <2>2, AheadType
    <3>3. Ahead(c) = k
      BY <1>1, <1>2, <1>4, <3>1, <3>2, AheadType
    <3> QED BY <2>1, <2>4, <3>1, <3>2, <3>3
  <2> QED BY <2>3, <2>4
<1>7. Running => tx_irq_count' = k + (IF Last(io) THEN 1 ELSE 0)
  BY <1>1, <1>4, <1>6, EdgeCount DEF InStep, Last
<1>8. CASE Last(io)
  <2>1. Issue(io) /\ tx_eop
    BY <1>8 DEF Last
  <2>2. PICK e : tx_desc' = [tx_desc EXCEPT ![c] = e] /\ ~e.hw
    BY <1>3, <2>1, EdgeIssue
  <2>3. \A i \in Ring : tx_desc'[i].hw <=> k + 1 <= Ahead(i) /\ Ahead(i) < tx_queued
    <3> SUFFICES ASSUME NEW i \in Ring
                 PROVE  tx_desc'[i].hw <=> k + 1 <= Ahead(i) /\ Ahead(i) < tx_queued
      OBVIOUS
    <3>1. CASE i = c
      BY <1>3, <1>6, <2>1, <2>2, <3>1 DEF HwType
    <3>2. CASE i # c
      <4>1. tx_desc'[i] = tx_desc[i]
        BY <2>2, <3>2 DEF HwType
      <4>2. Ahead(i) # k /\ Ahead(i) \in Nat
        BY <1>2, <1>6, <2>1, <3>2, AheadType, Size
      <4> QED BY <4>1, <4>2 DEF InStep
    <3> QED BY <3>1, <3>2
  <2>4. HwPos' = At(N, p, k + 1)
    <3>1. HwPos' = At(N, c, 1)
      BY <1>3, <1>5, <1>6, <1>8, <2>1, RingNextAt DEF HwPos
    <3> QED BY <1>1, <1>4, <1>6, <2>1, <3>1, AtNext
  <2> QED BY <1>1, <1>2, <1>5, <1>6, <1>7, <1>8, <2>1, <2>3, <2>4
<1>9. CASE ~Last(io)
  <2>1. \A i \in Ring : tx_desc'[i].hw <=> k <= Ahead(i) /\ Ahead(i) < tx_queued
    <3>1. CASE ~Issue(io)
      BY <3>1, EdgeNoIssue DEF InStep
    <3>2. CASE Issue(io)
      <4>1. PICK e : tx_desc' = [tx_desc EXCEPT ![c] = e] /\ e.hw
        BY <1>3, <1>9, <3>2, EdgeIssue DEF Last
      <4>2. tx_desc[c].hw
        BY <1>3, <3>2, EdgeIssue DEF tx_desc_q
      <4> QED BY <1>3, <4>1, <4>2 DEF InStep, HwType
    <3> QED BY <3>1, <3>2
  <2>2. Running => HwPos' = At(N, p, k)
    BY <1>2, <1>3, <1>5, <1>9 DEF InStep, HwPos, TxEdge
  <2> QED BY <1>1, <1>2, <1>5, <1>7, <1>9, <2>1, <2>2
<1> QED BY <1>8, <1>9

-----------------------------------------------------------------------------
(* Layer 1: control state, ring, owners and the engine's place in a frame  *)

Base == HwType /\ DrvType
Control == TaskInv /\ ClosedInv /\ RingInv /\ OwnerInv /\ WordInv

(* The descriptor to be filled next is not the engine's, and the one just    *)
(* completed neither.                                                        *)
LEMMA NotHw ==
  ASSUME Base, Control, dev # "closed"
  PROVE  /\ tx_queued < N => Ahead(tx_insert) = tx_queued /\ ~tx_desc[tx_insert].hw
         /\ Running /\ tx_done => ~tx_desc[tx_desc_curaddr].hw
<1>1. PICK q \in 0 .. N : q = tx_queued
  BY DEF Base, DrvType
<1>2. PICK p \in Ring : p = tx_remove
  BY DEF Base, DrvType
<1>3. PICK c \in Ring : c = tx_desc_curaddr
  BY DEF Base, HwType
<1>4. N \in Nat /\ N >= 2 /\ Ring = 0 .. N - 1
  BY Size
<1>5. PICK k \in 0 .. q : InStep(k)
  BY <1>1 DEF Control, RingInv
<1>6. ASSUME q < N PROVE Ahead(tx_insert) = q /\ ~tx_desc[tx_insert].hw
  <2>1. tx_insert = At(N, p, q) /\ tx_insert \in Ring
    BY <1>1, <1>2 DEF Control, RingInv, Base, DrvType
  <2>2. Ahead(tx_insert) = q
    BY <1>2, <1>4, <1>6, <2>1, AheadType DEF Base
  <2> QED BY <1>1, <1>5, <2>1, <2>2 DEF InStep
<1>7. ASSUME Running, tx_done PROVE ~tx_desc[c].hw
  <2>1. At(N, c, 1) = At(N, p, k) /\ k >= 1
    BY <1>2, <1>3, <1>5, <1>7, RingNextAt DEF InStep, HwPos
  <2>2. PICK a \in 0 .. N - 1 : a = Ahead(c) /\ At(N, p, a) = c
    BY <1>2, AheadType DEF Base
  <2>3. At(N, p, a + 1) = At(N, p, k)
    BY <1>2, <1>4, <2>1, <2>2, AtNext
  <2>4. a + 1 = k
    BY <1>1, <1>2, <1>4, <2>1, <2>3 DEF At
  <2> QED BY <1>5, <2>2, <2>4 DEF InStep
<1> QED BY <1>1, <1>3, <1>6, <1>7

LEMMA EdgeWord ==
  ASSUME Base, Control, NEW csr, NEW io \in IO, TxEdge(csr, io),
         UNCHANGED <<dev, tx_insert, xmit>>
  PROVE  /\ WordInv'
         /\ \A i \in Ring : tx_desc'[i].skb = tx_desc[i].skb
<1>1. PICK c \in Ring : c = tx_desc_curaddr
  BY DEF Base, HwType
<1>2. tx_desc_curaddr' = IF tx_done THEN RingNext(c) ELSE c
  BY <1>1 DEF TxEdge
<1>3. RingNext(c) # c
  BY <1>1, RingNextAt, Size DEF At
<1>4. CASE ~Issue(io)
  <2>1. tx_desc' = tx_desc /\ tx_sop' = tx_sop
    BY <1>4, EdgeNoIssue DEF Base
  <2>2. Running => dev # "closed"
    BY DEF Running
  <2>3. Running /\ tx_done => ~tx_desc[c].hw
    BY <1>1, <2>2, NotHw
  <2>4. Running => /\ \A i \in Ring : tx_desc[i].hw /\ tx_desc[i].word # 0 => i = c
                   /\ tx_desc[c].hw => (tx_sop <=> tx_desc[c].word = 0)
                   /\ ~tx_sop => tx_desc[c].hw
    BY <1>1 DEF Control, WordInv, tx_desc_q
  <2>5. /\ \A i \in Ring : tx_desc'[i].hw => Tells(tx_desc'[i])
        /\ xmit' = "give" => Tells(tx_desc'[tx_insert']) /\ tx_desc'[tx_insert'].word = 0
    BY <2>1 DEF Control, WordInv
  <2>6. RingNext(c) \in Ring
    BY <1>1, RingNextAt
  <2>7. Running' => Running
    BY DEF Running
  <2>8. Running' =>
       /\ \A i \in Ring : tx_desc'[i].hw /\ tx_desc'[i].word # 0
                            => i = tx_desc_curaddr'
       /\ tx_desc'[tx_desc_curaddr'].hw
            => (tx_sop' <=> tx_desc'[tx_desc_curaddr'].word = 0)
       /\ ~tx_sop' => tx_desc'[tx_desc_curaddr'].hw
    BY <1>2, <1>3, <2>1, <2>3, <2>4, <2>6, <2>7
  <2> QED BY <2>1, <2>5, <2>8 DEF WordInv, tx_desc_q, Tells, Rest
<1>5. CASE Issue(io)
  <2>1. tx_desc[c].hw /\ Running /\ tx_desc[c] \in Descs
    BY <1>1, <1>5, EdgeIssue DEF Base, Control, TaskInv, tx_desc_q
  <2>2. ~tx_done
    BY <1>1, <2>1, NotHw DEF Running
  <2>3. PICK e \in Descs :
              /\ tx_desc' = [tx_desc EXCEPT ![c] = e]
              /\ e.hw <=> ~tx_eop
              /\ e.skb = tx_desc[c].skb /\ e.word = tx_desc[c].word + 1
              /\ ~tx_eop => Tells(e)
    BY <1>1, <1>5, EdgeIssue DEF Base, Control, tx_desc_q
  <2>4. tx_desc'[c] = e /\ \A i \in Ring : i # c => tx_desc'[i] = tx_desc[i]
    BY <1>1, <2>3 DEF Base, HwType
  <2>5. tx_sop' = tx_eop
    BY <1>5 DEF TxEdge, Issue
  <2>6. xmit = "give" => tx_insert # c
    BY <2>1, NotHw DEF Running, Control, TaskInv
  <2>7. \A i \in Ring : tx_desc'[i].hw => Tells(tx_desc'[i])
    BY <2>3, <2>4 DEF Control, WordInv
  <2>8. xmit' = "give" => Tells(tx_desc'[tx_insert']) /\ tx_desc'[tx_insert'].word = 0
    BY <2>4, <2>6 DEF Control, WordInv, Base, DrvType
  <2>9. \A i \in Ring : tx_desc'[i].hw /\ tx_desc'[i].word # 0 => i = c
    BY <1>1, <2>1, <2>4 DEF Control, WordInv
  <2>10. e.word # 0
    BY <2>1, <2>3 DEF Descs
  <2>11. tx_desc_curaddr' = c
    BY <1>2, <2>2
  <2>12. tx_desc_q' = e
    BY <2>4, <2>11 DEF tx_desc_q
  <2>13. tx_desc_q'.hw => (tx_sop' <=> tx_desc_q'.word = 0)
    BY <2>3, <2>5, <2>10, <2>12
  <2>14. ~tx_sop' => tx_desc_q'.hw
    BY <2>3, <2>5, <2>12
  <2> QED BY <2>3, <2>4, <2>7, <2>8, <2>9, <2>11, <2>13, <2>14
          DEF WordInv, Tells, Rest
<1> QED BY <1>4, <1>5

(* An edge under which the driver's places stay: the clock, and the writes   *)
(* of TXIE.                                                                  *)
LEMMA EdgeKeeps ==
  ASSUME Base, Control, NEW csr, csr # "ack", NEW io \in IO, TxEdge(csr, io),
         UNCHANGED <<dev, tx_skbs, tx_insert, tx_remove, tx_queued, xmit, tc_skb>>
  PROVE  HwType' /\ ClosedInv' /\ RingInv' /\ OwnerInv' /\ WordInv'
<1>1. HwType' /\ WordInv' /\ \A i \in Ring : tx_desc'[i].skb = tx_desc[i].skb
  BY EdgeHwType, EdgeWord DEF Base, Control
<1>2. ClosedInv'
  <2> SUFFICES ASSUME dev = "closed" PROVE ClosedInv'
    BY DEF ClosedInv
  <2>1. ~tcontrol.ena
    BY DEF Control, TaskInv, Running
  <2>2. tx_desc' = tx_desc
    BY <2>1, EdgeNoIssue DEF Base, Issue, txd_rd
  <2> QED BY <2>2 DEF Control, ClosedInv
<1>3. RingInv'
  <2> SUFFICES ASSUME dev # "closed" PROVE RingInv'
    BY DEF RingInv
  <2>1. PICK k \in 0 .. tx_queued : InStep(k)
    BY DEF Control, RingInv
  <2>2. PICK m \in 0 .. tx_queued :
           /\ m = k + (IF Last(io) THEN 1 ELSE 0)
           /\ \A i \in Ring : tx_desc'[i].hw <=> m <= Ahead(i) /\ Ahead(i) < tx_queued
           /\ Running => tx_irq_count' = m /\ HwPos' = At(N, tx_remove, m)
           /\ tx_done' = Last(io)
    BY <2>1, EdgeRing DEF Base, Control
  <2>3. ~tx_irq_done'
    BY DEF TxEdge
  <2>4. tx_done' => m >= 1
    BY <2>2 DEF Base, DrvType
  <2>5. InStep(m)'
    BY <2>2, <2>3, <2>4, Size DEF InStep, Ahead, Running, Base, DrvType
  <2> QED BY <2>5 DEF Control, RingInv
<1>4. OwnerInv'
  BY <1>1 DEF Control, OwnerInv, Taken, Ahead
<1> QED BY <1>1, <1>2, <1>3, <1>4

ClockStep == (\E io \in IO : Clock(io)) \/ TxIsr \/ TcIe

LEMMA ClockControl ==
  ASSUME Base, Control, ClockStep
  PROVE  Base' /\ Control'
<1>1. UNCHANGED <<dev, tx_skbs, tx_insert, tx_remove, tx_queued,
                  queue_stopped, xmit, tasklet_sched, tasklet_list, tc_skb>>
  BY DEF ClockStep, Clock, TxIsr, TcIe, drvvars
<1>2. \/ UNCHANGED hwvars
      \/ \E csr \in {"none", "ie_off", "ie_on"}, io \in IO : TxEdge(csr, io)
  BY DEF ClockStep, Clock, TxIsr, TcIe
<1>3. HwType' /\ ClosedInv' /\ RingInv' /\ OwnerInv' /\ WordInv'
  <2>1. CASE UNCHANGED hwvars
    BY <1>1, <2>1 DEF hwvars, Base, HwType, Control, ClosedInv, RingInv, InStep,
                      Ahead, HwPos, Running, OwnerInv, Taken, WordInv, tx_desc_q
  <2>2. CASE ~UNCHANGED hwvars
    <3>1. PICK csr \in {"none", "ie_off", "ie_on"}, io \in IO : TxEdge(csr, io)
      BY <1>2, <2>2
    <3>2. csr # "ack"
      OBVIOUS
    <3> QED BY <1>1, <3>1, <3>2, EdgeKeeps
  <2> QED BY <2>1, <2>2
<1>4. /\ isr' \in {isr, "idle", "schedule"} /\ (isr = "idle" => isr' = "idle")
      /\ tc' = tc \/ (tc = "ie" /\ tc' = "wake")
  BY DEF ClockStep, Clock, TxIsr, TcIe, drvvars
<1>5. DrvType'
  BY <1>1, <1>4 DEF Base, DrvType
<1>6. tcontrol'.ena = tcontrol.ena
  BY <1>2 DEF hwvars, TxEdge, Base, HwType
<1>7. \A i \in Ring : tx_desc'[i].hw => tx_desc[i].hw
  <2>1. CASE UNCHANGED hwvars
    BY <2>1 DEF hwvars
  <2>2. CASE ~UNCHANGED hwvars
    <3>1. PICK csr \in {"none", "ie_off", "ie_on"}, io \in IO : TxEdge(csr, io)
      BY <1>2, <2>2
    <3>2. CASE Issue(io)
      BY <3>1, <3>2, EdgeIssue DEF Base, Control, HwType, tx_desc_q
    <3>3. CASE ~Issue(io)
      BY <3>1, <3>3, EdgeNoIssue DEF Base
    <3> QED BY <3>2, <3>3
  <2> QED BY <2>1, <2>2
<1>8. TaskInv'
  BY <1>1, <1>4, <1>6, <1>7 DEF Control, TaskInv, Running, Base, DrvType
<1> QED BY <1>3, <1>5, <1>8 DEF Base, Control

LEMMA AckControl ==
  ASSUME Base, Control, TcAck
  PROVE  Base' /\ Control'
<1>1. /\ tc = "ack" /\ tc' = "free" /\ tc_skb' = tx_skbs[tx_remove]
      /\ tx_remove' = RingNext(tx_remove) /\ tx_queued' = tx_queued - 1
      /\ UNCHANGED <<dev, tx_skbs, tx_insert, queue_stopped, xmit, isr,
                     tasklet_sched, tasklet_list>>
  BY DEF TcAck
<1>2. PICK io \in IO : TxEdge("ack", io)
  BY DEF TcAck
<1>3. dev # "closed" /\ dev # "stopped" /\ xmit = "idle" /\ ~tx_desc[tx_remove].hw
  BY <1>1 DEF Control, TaskInv, Base, DrvType
<1>4. N \in Nat \ {0} /\ N >= 2 /\ Ring = 0 .. N - 1
  BY Size
<1>5. PICK q \in 1 .. N : q = tx_queued
  BY <1>1, <1>4 DEF Control, TaskInv, Base, DrvType
<1>6. PICK p \in Ring : p = tx_remove
  BY DEF Base, DrvType
<1>7. PICK r \in Ring : r = tx_remove' /\ r = At(N, p, 1)
  BY <1>1, <1>6, RingNextAt
<1>8. HwType' /\ WordInv' /\ \A i \in Ring : tx_desc'[i].skb = tx_desc[i].skb
  BY <1>1, <1>2, EdgeHwType, EdgeWord DEF Base, Control
<1>9. DrvType'
  BY <1>1, <1>4, <1>5, <1>6, <1>7 DEF Base, DrvType
<1>10. \A i \in Ring : /\ Ahead(i) \in 0 .. N - 1 /\ (Ahead(i) = 0 <=> i = p)
                       /\ Dist(N, i, r) = IF i = p THEN N - 1 ELSE Ahead(i) - 1
  <2>1. \A i \in Ring : Ahead(i) \in 0 .. N - 1 /\ (Ahead(i) = 0 <=> i = p)
    BY <1>6, AheadType DEF Base
  <2>2. \A i \in Ring : Dist(N, i, r) = IF i = p THEN N - 1 ELSE Dist(N, i, p) - 1
    BY <1>4, <1>6, <1>7, DistNext
  <2> QED BY <1>6, <2>1, <2>2 DEF Ahead
<1>11. PICK k \in 0 .. q : InStep(k)
  BY <1>3, <1>5 DEF Control, RingInv
<1>12. k >= 1
  BY <1>3, <1>5, <1>6, <1>10, <1>11 DEF InStep
<1>13. RingInv'
  <2>1. PICK m \in 0 .. q :
           /\ m = k + (IF Last(io) THEN 1 ELSE 0)
           /\ \A i \in Ring : tx_desc'[i].hw <=> m <= Ahead(i) /\ Ahead(i) < q
           /\ Running => tx_irq_count' = m /\ HwPos' = At(N, p, m)
           /\ tx_done' = Last(io)
    BY <1>2, <1>3, <1>5, <1>6, <1>11, EdgeRing DEF Base, Control
  <2>2. PICK n \in 0 .. q - 1 : n = m - 1
    BY <1>5, <1>12, <2>1
  <2>3. \A i \in Ring : tx_desc'[i].hw <=> n <= Dist(N, i, r) /\ Dist(N, i, r) < q - 1
    <3> SUFFICES ASSUME NEW i \in Ring
                 PROVE  tx_desc'[i].hw <=> n <= Dist(N, i, r) /\ Dist(N, i, r) < q - 1
      OBVIOUS
    <3>1. CASE i = p
      BY <1>4, <1>5, <1>10, <1>12, <2>1, <2>2, <3>1
    <3>2. CASE i # p
      <4>1. PICK a \in 0 .. N - 1 : a = Ahead(i) /\ Dist(N, i, r) = a - 1
        BY <1>10, <3>2
      <4>2. tx_desc'[i].hw <=> m <= a /\ a < q
        BY <2>1, <4>1
      <4>3. m <= a /\ a < q <=> n <= a - 1 /\ a - 1 < q - 1
        BY <1>4, <2>2
      <4> QED BY <4>1, <4>2, <4>3
    <3> QED BY <3>1, <3>2
  <2>4. tx_irq_done'
    BY <1>2 DEF TxEdge
  <2>5. At(N, r, n) = At(N, p, m)
    BY <1>4, <1>5, <1>6, <1>7, <2>2, AtNext
  <2>6. At(N, r, q - 1) = At(N, p, q)
    <3>1. PICK x \in 0 .. N - 1 : x = q - 1
      BY <1>4, <1>5
    <3>2. At(N, r, x) = At(N, p, x + 1)
      BY <1>4, <1>6, <1>7, AtNext
    <3> QED BY <3>1, <3>2, <1>5
  <2>7. tx_done' => n >= 1
    BY <1>12, <2>1, <2>2
  <2>8. InStep(n)'
    BY <1>1, <1>5, <1>7, <2>1, <2>2, <2>3, <2>4, <2>5, <2>7 DEF InStep, Ahead, Running
  <2>9. tx_insert' = At(N, tx_remove', tx_queued')
    BY <1>1, <1>3, <1>5, <1>6, <1>7, <2>6 DEF Control, RingInv
  <2> QED BY <1>1, <1>5, <2>8, <2>9 DEF RingInv
<1>14. OwnerInv'
  <2>1. \A i \in Ring : Taken(i)' => Taken(i) /\ i # p
    <3> SUFFICES ASSUME NEW i \in Ring, Dist(N, i, r) < q - 1
                 PROVE  Ahead(i) < q /\ i # p
      BY <1>1, <1>3, <1>5, <1>7, <1>10, Size DEF Taken, Ahead
    <3> QED BY <1>4, <1>5, <1>10
  <2>2. Taken(p)
    BY <1>3, <1>5, <1>10 DEF Taken
  <2> QED BY <1>1, <1>3, <1>6, <1>8, <2>1, <2>2 DEF Control, OwnerInv
<1>15. ClosedInv'
  BY <1>1, <1>3 DEF ClosedInv
<1>16. TaskInv'
  <2>1. tcontrol'.ena = tcontrol.ena
    BY <1>2 DEF TxEdge, Base, HwType
  <2> QED BY <1>1, <1>3, <2>1 DEF Control, TaskInv, Running
<1> QED BY <1>8, <1>9, <1>13, <1>14, <1>15, <1>16 DEF Base, Control

(* Steps that touch neither the engine nor the ring. *)
FlagStep ==
  \/ XmitBusy \/ TxIrqTaken \/ TxIsrSchedule \/ TxTimeout \/ TcStart
  \/ TcCheck \/ TcFree \/ TcWake \/ StopIrq \/ StopKill \/ StopKilled

LEMMA FlagControl ==
  ASSUME Base, Control, FlagStep
  PROVE  /\ Base' /\ Control'
         /\ UNCHANGED <<hwvars, tx_skbs, tx_insert, tx_remove, tx_queued, xmit>>
<1> USE DEF FlagStep, XmitBusy, TxIrqTaken, TxIsrSchedule, TxTimeout, TcStart,
            TcCheck, TcFree, TcWake, StopIrq, StopKill, StopKilled,
            tasklet_schedule
<1>1. UNCHANGED <<hwvars, tx_skbs, tx_insert, tx_remove, tx_queued, xmit>>
  OBVIOUS
<1>2. /\ dev' = dev \/ (dev # "closed" /\ dev' # "closed")
      /\ dev' \in {dev, "quiet", "killing", "stopped"}
      /\ Running' <=> Running
  BY DEF CanXmit, Running
<1>3. tc_skb' \in {tc_skb, NoSkb} /\ queue_stopped' \in {queue_stopped, TRUE, FALSE}
      /\ isr' \in {isr, "taken", "idle"}
      /\ tasklet_sched' \in {tasklet_sched, TRUE, FALSE}
      /\ tasklet_list' \in {tasklet_list, tasklet_list \/ ~tasklet_sched, FALSE}
      /\ tc' \in {tc, "check", "ack", "ie", "idle"}
  OBVIOUS
<1>4. TaskInv'
  BY <1>1 DEF hwvars, Base, DrvType, Control, TaskInv, Running, Locked, CanXmit
<1> USE DEF FlagStep
<1> HIDE DEF FlagStep, XmitBusy, TxIrqTaken, TxIsrSchedule, TxTimeout, TcStart,
            TcCheck, TcFree, TcWake, StopIrq, StopKill, StopKilled,
            tasklet_schedule
<1>5. Base'
  <2>1. HwType'
    BY <1>1 DEF Base, HwType, hwvars
  <2>2. queue_stopped' \in BOOLEAN /\ tasklet_sched' \in BOOLEAN
        /\ tasklet_list' \in BOOLEAN
    BY <1>3, Zenon DEF Base, DrvType
  <2>3. /\ dev' \in {"closed", "up", "quiet", "halted", "killing", "stopped"}
        /\ isr' \in {"idle", "taken", "schedule"}
        /\ tc' \in {"idle", "check", "ack", "free", "ie", "wake"}
        /\ tc_skb' \in SKBs \cup {NoSkb}
    BY <1>2, <1>3 DEF Base, DrvType
  <2>4. DrvType'
    BY <1>1, <2>2, <2>3, Zenon DEF Base, DrvType
  <2> QED BY <2>1, <2>4 DEF Base
<1>6. ClosedInv' /\ RingInv' /\ WordInv'
  BY <1>1, <1>2 DEF hwvars, Control, ClosedInv, RingInv, InStep, Ahead, HwPos,
                    WordInv, tx_desc_q
<1>7. OwnerInv'
  <2>1. NoSkb \notin SKBs
    BY TxDriverParams
  <2> QED BY <1>1, <1>2, <1>3, <2>1 DEF hwvars, Control, OwnerInv, Taken, Ahead
<1> QED BY <1>1, <1>4, <1>5, <1>6, <1>7 DEF Control

LEMMA OpenControl ==
  ASSUME Base, Control, Open
  PROVE  Base' /\ Control'
<1>1. /\ dev = "closed" /\ dev' = "up" /\ TxSoftReset
      /\ tx_insert' = 0 /\ tx_remove' = 0 /\ tx_skbs' = [i \in Ring |-> NoSkb]
      /\ queue_stopped' = FALSE
      /\ UNCHANGED <<tx_queued, xmit, isr, tasklet_sched, tasklet_list, tc, tc_skb>>
  BY DEF Open
<1>2. /\ xmit = "idle" /\ isr = "idle" /\ tc = "idle" /\ ~tasklet_sched
      /\ tx_queued = 0
  BY <1>1 DEF Control, TaskInv, ClosedInv
<1>3. tx_desc' \in [Ring -> Descs] /\ \A i \in Ring : ~tx_desc'[i].hw
  <2>1. \A d \in Descs : [d EXCEPT !.hw = FALSE] \in Descs
                          /\ ~[d EXCEPT !.hw = FALSE].hw
    BY DEF Descs
  <2> QED BY <2>1 DEF Open, Base, HwType
<1>4. 0 \in Ring /\ 0 \in 0 .. 2 * N - 1 /\ 0 \in 0 .. N /\ At(N, 0, 0) = 0
  BY Size DEF At
<1>5. tcontrol' \in [ena : BOOLEAN, ie : BOOLEAN, is : BOOLEAN] /\ tcontrol'.ena
  BY DEF Open, TxOff
<1>6. TRUE \in BOOLEAN /\ FALSE \in BOOLEAN
  OBVIOUS
<1>7. HwType'
  BY <1>1, <1>3, <1>4, <1>5, <1>6, Zenon DEF HwType, TxSoftReset
<1>8. DrvType'
  BY <1>1, <1>2, <1>4, <1>6 DEF Base, DrvType
<1>9. TaskInv'
  BY <1>1, <1>2, <1>5 DEF Control, TaskInv, Running
<1>10. ClosedInv'
  BY <1>1 DEF ClosedInv
<1>11. RingInv'
  <2>1. /\ ~tx_done' /\ ~tx_irq_done' /\ tx_irq_count' = 0 /\ tx_desc_curaddr' = 0
    BY <1>1 DEF TxSoftReset
  <2>2. \A i \in Ring : Ahead(i)' \in Nat
    BY <1>1, <1>4, <1>8, AheadType, Size DEF Ahead, Dist
  <2>3. tx_queued' = 0 /\ HwPos' = 0
    BY <1>1, <1>2, <2>1 DEF HwPos
  <2>4. InStep(0)'
    BY <1>1, <1>3, <1>4, <2>1, <2>2, <2>3 DEF InStep
  <2>5. tx_insert' = At(N, tx_remove', tx_queued')
    BY <1>1, <1>4, <2>3
  <2>6. 0 \in 0 .. tx_queued'
    BY <2>3
  <2> QED BY <2>4, <2>5, <2>6 DEF RingInv
<1>12. OwnerInv'
  <2>1. \A i \in Ring : ~Taken(i)'
    BY <1>1, <1>2, Size DEF Taken, Ahead, Dist
  <2> QED BY <2>1 DEF OwnerInv
<1>13. WordInv'
  <2>1. tx_sop' = TRUE /\ tx_desc_curaddr' \in Ring
    BY <1>1, <1>4 DEF TxSoftReset
  <2> QED BY <1>1, <1>2, <1>3, <2>1 DEF WordInv, tx_desc_q
<1> QED BY <1>7, <1>8, <1>9, <1>10, <1>11, <1>12, <1>13 DEF Base, Control

LEMMA StopDmaControl ==
  ASSUME Base, Control, StopDma
  PROVE  Base' /\ Control'
<1>1. /\ dev = "quiet" /\ dev' = "halted" /\ TxSoftReset
      /\ UNCHANGED <<tx_desc, tx_skbs, tx_insert, tx_remove, tx_queued,
                     queue_stopped, xmit, isr, tasklet_sched,
                     tasklet_list, tc, tc_skb>>
  BY DEF StopDma
<1>2. tcontrol' \in [ena : BOOLEAN, ie : BOOLEAN, is : BOOLEAN] /\ ~tcontrol'.ena
  BY DEF StopDma, TxOff
<1>3. 0 \in Ring /\ 0 \in 0 .. 2 * N - 1 /\ TRUE \in BOOLEAN /\ FALSE \in BOOLEAN
  BY Size
<1>4. HwType'
  BY <1>1, <1>2, <1>3, Zenon DEF Base, HwType, TxSoftReset
<1>5. DrvType'
  BY <1>1 DEF Base, DrvType
<1>6. TaskInv' /\ ClosedInv' /\ WordInv' /\ OwnerInv'
  BY <1>1, <1>2 DEF Control, TaskInv, Running, ClosedInv, WordInv, OwnerInv,
                    Taken, Ahead
<1>7. RingInv'
  <2>1. PICK k \in 0 .. tx_queued : InStep(k)
    BY <1>1 DEF Control, RingInv
  <2>2. InStep(k)'
    BY <1>1, <2>1 DEF InStep, Ahead, Running
  <2> QED BY <1>1, <2>2 DEF Control, RingInv
<1> QED BY <1>4, <1>5, <1>6, <1>7 DEF Base, Control

(* The frame of a descriptor that is taken is not at the scheduler. *)
LEMMA QueuedIs ==
  ASSUME DrvType
  PROVE  \A i \in Ring : Taken(i) => tx_skbs[i] \in Queued
<1> SUFFICES ASSUME NEW i \in Ring, Taken(i) PROVE tx_skbs[i] \in Queued
  OBVIOUS
<1>1. PICK q \in 0 .. N : q = tx_queued
  BY DEF DrvType
<1>2. PICK a \in 0 .. N - 1 : a = Ahead(i) /\ At(N, tx_remove, a) = i
  BY AheadType
<1>3. Nth(a) = i
  BY <1>2, AtMod, Size DEF Nth, N, DrvType
<1>4. a \in 0 .. (IF xmit = "give" THEN tx_queued ELSE tx_queued - 1)
  BY <1>1, <1>2, Size DEF Taken
<1> QED BY <1>3, <1>4 DEF Queued

LEMMA FillControl ==
  ASSUME Base, Control, XmitFill
  PROVE  /\ Base' /\ Control'
         /\ dev' = dev /\ tx_desc_curaddr' = tx_desc_curaddr
         /\ tx_desc_q.hw => tx_desc_q' = tx_desc_q
<1>1. /\ dev = "up" /\ xmit = "idle" /\ ~Locked /\ xmit' = "give"
      /\ ~tx_desc[tx_insert].hw /\ tx_queued # N
      /\ UNCHANGED <<tx_desc_curaddr, tx_done, tx_sop, tx_irq_count, tx_irq_done,
                 tcontrol, reads, tx_data_fifo, tx_control_fifo, wire,
                 dev, tx_insert, tx_remove, tx_queued, queue_stopped,
                 isr, tasklet_sched, tasklet_list, tc, tc_skb>>
  BY DEF XmitFill, CanXmit, N
<1>2. PICK s \in Idle :
        /\ tx_skbs' = [tx_skbs EXCEPT ![tx_insert] = s]
        /\ tx_desc' = [tx_desc EXCEPT ![tx_insert] =
                         [hw |-> FALSE, len |-> Len0[s], skb |-> s,
                          offset |-> Offset0[s], word |-> 0]]
  BY DEF XmitFill
<1>3. s \in SKBs /\ s \notin Queued /\ s # tc_skb
  BY DEF Idle
<1>4. PICK e : e = [hw |-> FALSE, len |-> Len0[s], skb |-> s,
                          offset |-> Offset0[s], word |-> 0]
  OBVIOUS
<1>5. e.hw = FALSE /\ e.len = Len0[s] /\ e.skb = s /\ e.offset = Offset0[s]
      /\ e.word = 0
  BY <1>4
<1>6. e \in Descs
  <2>1. Len0[s] \in 0 .. M - 1 /\ Offset0[s] \in 0 .. BUS_BYTES - 1
    BY <1>3, FrameSize, LengthSize
  <2> QED BY <1>3, <1>4, <2>1 DEF Descs
<1>7. Tells(e)
  <2>1. PICK l, o \in Nat : l = Len0[s] /\ o = Offset0[s] /\ l >= 1
    BY <1>3, FrameSize
  <2>2. 0 * BUS_BYTES = 0
    BY LengthSize
  <2>3. Rest(e) = l + o
    BY <1>5, <2>1, <2>2 DEF Rest
  <2> QED BY <1>3, <1>5, <2>1, <2>3 DEF Tells
<1>8. PICK q \in 0 .. N - 1 : q = tx_queued
  BY <1>1, Size DEF Base, DrvType
<1>9. PICK z \in Ring : z = tx_insert /\ Ahead(z) = q
  BY <1>1, <1>8, NotHw, Size DEF Base, DrvType
<1>10. /\ tx_desc' \in [Ring -> Descs] /\ tx_desc'[z] = e
       /\ \A i \in Ring : i # z => tx_desc'[i] = tx_desc[i]
  BY <1>2, <1>4, <1>6, <1>9 DEF Base, HwType
<1>11. /\ tx_skbs' \in [Ring -> SKBs \cup {NoSkb}] /\ tx_skbs'[z] = s
       /\ \A i \in Ring : i # z => tx_skbs'[i] = tx_skbs[i]
  BY <1>2, <1>3, <1>9 DEF Base, DrvType
<1>12. HwType'
  BY <1>1, <1>10 DEF Base, HwType
<1>13. DrvType'
  BY <1>1, <1>11 DEF Base, DrvType
<1>14. TaskInv'
  <2>1. q < N /\ tc \notin {"ack", "ie"}
    BY <1>1, <1>8, Size DEF Locked
  <2> QED BY <1>1, <1>8, <2>1 DEF Control, TaskInv, Running
<1>15. ClosedInv'
  BY <1>1 DEF ClosedInv
<1>16. RingInv'
  <2>1. PICK k \in 0 .. tx_queued : InStep(k)
    BY <1>1 DEF Control, RingInv
  <2>2. \A i \in Ring : tx_desc'[i].hw <=> tx_desc[i].hw
    BY <1>1, <1>5, <1>9, <1>10
  <2>3. InStep(k)'
    BY <1>1, <2>1, <2>2 DEF InStep, Ahead, Running, HwPos
  <2> QED BY <1>1, <2>3 DEF Control, RingInv
<1>17. OwnerInv'
  <2>1. \A i \in Ring : Taken(i)' => Taken(i) \/ i = z
    <3> SUFFICES ASSUME NEW i \in Ring, Taken(i)', i # z PROVE Taken(i)
      OBVIOUS
    <3>1. PICK a \in 0 .. N - 1 : a = Ahead(i) /\ At(N, tx_remove, a) = i
      BY AheadType DEF Base
    <3>2. At(N, tx_remove, q) = z
      BY <1>9, AheadType DEF Base
    <3>3. a # q /\ a < q + 1
      BY <1>1, <1>8, <3>1, <3>2 DEF Taken, Ahead
    <3> QED BY <1>1, <1>8, <3>1, <3>3, Size DEF Taken
  <2>2. \A i \in Ring : Taken(i) => i # z /\ tx_skbs[i] # s
    <3>1. \A i \in Ring : Taken(i) => tx_skbs[i] # s
      BY <1>3, QueuedIs DEF Base
    <3>2. ~Taken(z)
      BY <1>1, <1>8, <1>9 DEF Taken
    <3> QED BY <3>1, <3>2
  <2> SUFFICES ASSUME NEW i \in Ring, Taken(i)'
               PROVE /\ tx_skbs'[i] \in SKBs /\ tx_desc'[i].skb = tx_skbs'[i]
                     /\ tx_skbs'[i] # tc_skb
                     /\ \A j \in Ring : Taken(j)' /\ tx_skbs'[i] = tx_skbs'[j] => i = j
    BY <1>1 DEF OwnerInv
  <2>3. CASE i = z
    BY <1>3, <1>5, <1>10, <1>11, <2>1, <2>2, <2>3
  <2>4. CASE i # z
    <3>1. Taken(i) /\ tx_skbs'[i] = tx_skbs[i] /\ tx_desc'[i] = tx_desc[i]
      BY <1>10, <1>11, <2>1, <2>4
    <3> QED BY <1>1, <1>11, <2>1, <2>2, <3>1 DEF Control, OwnerInv
  <2> QED BY <2>3, <2>4
<1>18. WordInv'
  <2>1. \A i \in Ring : tx_desc'[i].hw => tx_desc[i].hw /\ tx_desc'[i] = tx_desc[i]
    BY <1>5, <1>10
  <2>2. PICK c \in Ring : c = tx_desc_curaddr
    BY DEF Base, HwType
  <2>3. tx_desc[c].hw => tx_desc'[c] = tx_desc[c]
    BY <1>1, <1>9, <1>10, <2>2
  <2> QED BY <1>1, <1>5, <1>7, <1>9, <1>10, <2>1, <2>2, <2>3
          DEF Control, WordInv, tx_desc_q, Running, Tells, Rest
<1>19. tx_desc_q.hw => tx_desc_q' = tx_desc_q
  <2>1. tx_desc_curaddr \in Ring
    BY DEF Base, HwType
  <2> QED BY <1>1, <1>9, <1>10, <2>1 DEF tx_desc_q
<1> QED BY <1>1, <1>12, <1>13, <1>14, <1>15, <1>16, <1>17, <1>18, <1>19
        DEF Base, Control

LEMMA GiveControl ==
  ASSUME Base, Control, XmitGive
  PROVE  /\ Base' /\ Control'
         /\ dev' = dev /\ tx_desc_curaddr' = tx_desc_curaddr
         /\ tx_desc_q.hw => tx_desc_q' = tx_desc_q
<1>1. /\ xmit = "give" /\ xmit' = "idle"
      /\ tx_desc' = [tx_desc EXCEPT ![tx_insert].hw = TRUE]
      /\ tx_insert' = RingNext(tx_insert) /\ tx_queued' = tx_queued + 1
      /\ queue_stopped' = (queue_stopped \/ tx_queued' = N)
      /\ UNCHANGED <<tx_desc_curaddr, tx_done, tx_sop, tx_irq_count, tx_irq_done,
                 tcontrol, reads, tx_data_fifo, tx_control_fifo, wire,
                 dev, tx_skbs, tx_remove, isr, tasklet_sched, tasklet_list,
                 tc, tc_skb>>
  BY DEF XmitGive, N
<1>2. dev = "up" /\ tc \notin {"ack", "ie"} /\ tx_queued < N
  BY <1>1 DEF Control, TaskInv, Base, DrvType
<1>3. PICK q \in 0 .. N - 1 : q = tx_queued
  BY <1>2, Size DEF Base, DrvType
<1>4. PICK z \in Ring : z = tx_insert /\ Ahead(z) = q /\ ~tx_desc[z].hw
  BY <1>2, <1>3, NotHw DEF Base, DrvType
<1>5. PICK d \in Descs : d = tx_desc[z]
  BY DEF Base, HwType
<1>6. PICK e : e = [d EXCEPT !.hw = TRUE]
  OBVIOUS
<1>7. /\ e \in Descs /\ e.hw = TRUE /\ e.word = d.word /\ e.skb = d.skb
      /\ e.len = d.len /\ e.offset = d.offset
  BY <1>6 DEF Descs
<1>8. /\ tx_desc' \in [Ring -> Descs] /\ tx_desc'[z] = e
      /\ \A i \in Ring : i # z => tx_desc'[i] = tx_desc[i]
  BY <1>1, <1>4, <1>5, <1>6, <1>7 DEF Base, HwType
<1>9. Tells(d) /\ d.word = 0
  BY <1>1, <1>4, <1>5 DEF Control, WordInv
<1>10. Tells(e)
  BY <1>7, <1>9 DEF Tells, Rest
<1>11. HwType'
  BY <1>1, <1>8 DEF Base, HwType
<1>12. DrvType'
  <2>1. tx_insert' \in Ring /\ tx_queued' \in 0 .. N
    BY <1>1, <1>3, <1>4, RingNextAt, Size
  <2>2. queue_stopped' \in BOOLEAN
    BY <1>1
  <2> QED BY <1>1, <2>1, <2>2 DEF Base, DrvType
<1>13. TaskInv'
  BY <1>1, <1>2 DEF Control, TaskInv, Running
<1>14. ClosedInv'
  BY <1>1, <1>2 DEF ClosedInv
<1>15. RingInv'
  <2>1. PICK k \in 0 .. q : InStep(k)
    BY <1>2, <1>3 DEF Control, RingInv
  <2>2. \A i \in Ring : tx_desc'[i].hw <=> k <= Ahead(i) /\ Ahead(i) < q + 1
    <3> SUFFICES ASSUME NEW i \in Ring
                 PROVE  tx_desc'[i].hw <=> k <= Ahead(i) /\ Ahead(i) < q + 1
      OBVIOUS
    <3>1. CASE i = z
      BY <1>4, <1>7, <1>8, <2>1, <3>1
    <3>2. CASE i # z
      <4>1. PICK a \in 0 .. N - 1 : a = Ahead(i) /\ At(N, tx_remove, a) = i
        BY AheadType DEF Base
      <4>2. At(N, tx_remove, q) = z
        BY <1>4, AheadType DEF Base
      <4>3. a # q
        BY <3>2, <4>1, <4>2
      <4>4. a < q <=> a < q + 1
        BY <4>3, Size
      <4> QED BY <1>3, <1>8, <2>1, <3>2, <4>1, <4>4 DEF InStep
    <3> QED BY <3>1, <3>2
  <2>3. InStep(k)'
    BY <1>1, <1>2, <1>3, <2>1, <2>2 DEF InStep, Ahead, Running, HwPos
  <2>4. tx_insert' = At(N, tx_remove, q + 1)
    <3>1. At(N, tx_remove, q) = z /\ tx_remove \in 0 .. N - 1
      BY <1>4, AheadType, Size DEF Base, DrvType
    <3>2. tx_insert' = At(N, z, 1)
      BY <1>1, <1>4, RingNextAt
    <3> QED BY <3>1, <3>2, AtNext, Size
  <2>5. k \in 0 .. q + 1
    BY Size
  <2> QED BY <1>1, <1>3, <2>3, <2>4, <2>5 DEF RingInv
<1>16. OwnerInv'
  <2>1. \A i \in Ring : Taken(i)' <=> Taken(i)
    BY <1>1, <1>3, Size DEF Taken, Ahead
  <2>2. \A i \in Ring : tx_desc'[i].skb = tx_desc[i].skb
    BY <1>5, <1>7, <1>8
  <2> QED BY <1>1, <1>2, <2>1, <2>2 DEF Control, OwnerInv
<1>17. PICK c \in Ring : c = tx_desc_curaddr
  BY DEF Base, HwType
<1>18. tx_desc[c].hw => tx_desc'[c] = tx_desc[c]
  BY <1>4, <1>8
<1>19. WordInv'
  <2>1. \A i \in Ring : tx_desc'[i].hw => Tells(tx_desc'[i])
    BY <1>8, <1>10 DEF Control, WordInv
  <2>2. \A i \in Ring : tx_desc'[i].hw /\ tx_desc'[i].word # 0 => i = c
    BY <1>2, <1>7, <1>8, <1>9, <1>17 DEF Control, WordInv, Running
  <2>3. c = z => tx_sop
    BY <1>2, <1>4, <1>17 DEF Control, WordInv, Running, tx_desc_q
  <2>4. tx_desc'[c].hw => (tx_sop <=> tx_desc'[c].word = 0)
    BY <1>2, <1>7, <1>8, <1>9, <1>17, <2>3 DEF Control, WordInv, Running, tx_desc_q
  <2>5. ~tx_sop => tx_desc'[c].hw
    BY <1>2, <1>17, <1>18 DEF Control, WordInv, Running, tx_desc_q
  <2> QED BY <1>1, <1>17, <2>1, <2>2, <2>4, <2>5 DEF WordInv, tx_desc_q, Tells, Rest
<1>20. tx_desc_q.hw => tx_desc_q' = tx_desc_q
  BY <1>1, <1>17, <1>18 DEF tx_desc_q
<1> QED BY <1>1, <1>11, <1>12, <1>13, <1>14, <1>15, <1>16, <1>19, <1>20
        DEF Base, Control

(* Every step of the model is of one of these kinds. *)
LEMMA StepKinds ==
  ASSUME Next
  PROVE  \/ ClockStep \/ FlagStep \/ TcAck \/ Open \/ StopDma
         \/ XmitFill \/ XmitGive
BY DEF Next, Xmit, Isr, Tasklet, Stop, ClockStep, FlagStep

LEMMA ControlInit ==
  ASSUME Init
  PROVE  Base /\ Control
<1> USE DEF Init
<1>1. 0 \in Ring /\ 0 \in 0 .. 2 * N - 1 /\ 0 \in 0 .. N
  BY Size
<1>2. /\ tx_desc \in [Ring -> Descs] /\ \A i \in Ring : ~tx_desc[i].hw
  BY LengthSize DEF Descs
<1>3. tcontrol \in [ena : BOOLEAN, ie : BOOLEAN, is : BOOLEAN] /\ ~tcontrol.ena
  BY DEF TxOff
<1>4. Base
  BY <1>1, <1>2, <1>3 DEF Base, HwType, DrvType
<1>5. TaskInv
  BY <1>3 DEF TaskInv, Running
<1>6. ClosedInv /\ RingInv /\ OwnerInv /\ WordInv
  BY <1>2 DEF ClosedInv, RingInv, OwnerInv, WordInv, Running
<1> QED BY <1>4, <1>5, <1>6 DEF Control

LEMMA ControlStep ==
  ASSUME Base, Control, [Next]_vars
  PROVE  Base' /\ Control'
<1>1. CASE Next
  BY <1>1, StepKinds, ClockControl, FlagControl, AckControl, OpenControl,
     StopDmaControl, FillControl, GiveControl
<1>2. CASE UNCHANGED vars
  <2>1. Base'
    BY <1>2 DEF vars, hwvars, drvvars, Base, HwType, DrvType
  <2>2. TaskInv' /\ ClosedInv' /\ OwnerInv' /\ WordInv'
    BY <1>2 DEF vars, hwvars, drvvars, Control, TaskInv, ClosedInv, OwnerInv,
                WordInv, Running, Taken, Ahead, tx_desc_q
  <2>3. RingInv'
    BY <1>2 DEF vars, hwvars, drvvars, Control, RingInv, InStep, Running, Ahead,
                HwPos
  <2> QED BY <2>1, <2>2, <2>3 DEF Control
<1> QED BY <1>1, <1>2

LEMMA TxControl == Spec => [](Base /\ Control)
<1>1. Init => Base /\ Control
  BY ControlInit
<1>2. (Base /\ Control) /\ [Next]_vars => (Base /\ Control)'
  BY ControlStep
<1> QED BY <1>1, <1>2, PTL DEF Spec

(* When tasklet_kill has returned, yatse_tx_complete neither runs nor is on  *)
(* a list to be run, whenever the interrupt or the watchdog scheduled it     *)
(* before.                                                                   *)
THEOREM KilledSafety == Spec => []KilledMeansIdle
<1>1. Base /\ Control => KilledMeansIdle
  BY DEF Control, TaskInv, KilledMeansIdle
<1> QED BY <1>1, TxControl, PTL

(* Driver and engine agree on the ring and on the number of completed frames *)
(* for every ring size: no interleaving of clock edges, acknowledges,        *)
(* yatse_start_xmit and the tasklet loses or counts twice a completion.      *)
THEOREM TxStepSafety == Spec => []TxInStep
<1>1. ASSUME Base, Control PROVE TxInStep
  <2> SUFFICES ASSUME Running PROVE TxInStep
    BY DEF TxInStep, TxIrqCountExact, TxRingInStep
  <2>1. dev # "closed"
    BY DEF Running
  <2>2. N \in Nat /\ N >= 2 /\ Ring = 0 .. N - 1
    BY Size
  <2>3. PICK q \in 0 .. N : q = tx_queued
    BY <1>1 DEF Base, DrvType
  <2>4. PICK p \in 0 .. N - 1 : p = tx_remove
    BY <1>1, <2>2 DEF Base, DrvType
  <2>5. PICK k \in 0 .. q : InStep(k)
    BY <1>1, <2>1, <2>3 DEF Control, RingInv
  <2>6. \A n \in 0 .. N : Nth(n) = At(N, p, n)
    BY <2>2, <2>4, AtMod DEF Nth, N
  <2>7. \A n \in 0 .. N - 1 : Nth(n) \in Ring /\ Ahead(Nth(n)) = n
    <3>1. \A n \in 0 .. N - 1 : At(N, p, n) \in Ring /\ Ahead(At(N, p, n)) = n
      BY <1>1, <2>4, AheadType DEF Base
    <3>2. \A n \in 0 .. N - 1 : n \in 0 .. N
      BY <2>2
    <3> QED BY <2>6, <3>1, <3>2
  <2>8. \A n \in 0 .. q - 1 : tx_desc[Nth(n)].hw <=> k <= n
    <3>1. \A n \in 0 .. q - 1 : n \in 0 .. N - 1 /\ n < q
      BY <2>2
    <3> QED BY <2>3, <2>5, <2>7, <3>1 DEF InStep
  <2>9. Completed = 0 .. k - 1
    BY <2>2, <2>3, <2>8 DEF Completed
  <2>10. Cardinality(Completed) = k
    BY <2>2, <2>9, FS_Interval
  <2>11. TxIrqCountExact
    BY <2>5, <2>10 DEF TxIrqCountExact, InStep
  <2>12. tx_insert = (tx_remove + tx_queued) % 2^TX_RING_BITS
    <3>1. tx_insert = At(N, p, q)
      BY <1>1, <2>1, <2>3, <2>4 DEF Control, RingInv
    <3>2. Nth(q) = At(N, p, q)
      BY <2>6
    <3> QED BY <2>3, <3>1, <3>2 DEF Nth
  <2>13. HwPos = Nth(k)
    <3>1. HwPos = At(N, p, k)
      BY <2>4, <2>5 DEF InStep
    <3>2. k \in 0 .. N
      BY <2>2
    <3> QED BY <2>6, <3>1, <3>2
  <2>14. {i \in Ring : tx_desc[i].hw}
         = {Nth(n) : n \in (0 .. tx_queued - 1) \ Completed}
    <3>1. ASSUME NEW i \in Ring, tx_desc[i].hw
          PROVE  \E n \in (0 .. tx_queued - 1) \ Completed : i = Nth(n)
      <4>1. PICK a \in 0 .. N - 1 : a = Ahead(i) /\ At(N, p, a) = i
        BY <1>1, <2>4, AheadType DEF Base
      <4>2. k <= a /\ a < q
        BY <2>3, <2>5, <3>1, <4>1 DEF InStep
      <4>3. a \in (0 .. tx_queued - 1) \ Completed
        BY <2>2, <2>3, <2>9, <4>2
      <4>4. Nth(a) = i
        BY <2>2, <2>6, <4>1
      <4> QED BY <4>3, <4>4
    <3>2. ASSUME NEW n \in (0 .. tx_queued - 1) \ Completed
          PROVE  Nth(n) \in Ring /\ tx_desc[Nth(n)].hw
      <4>1. n \in 0 .. q - 1 /\ n \in 0 .. N - 1 /\ k <= n
        BY <2>2, <2>3, <2>9, <3>2
      <4> QED BY <2>7, <2>8, <4>1
    <3> QED BY <3>1, <3>2
  <2>15. TxRingInStep
    BY <2>9, <2>10, <2>12, <2>13, <2>14 DEF TxRingInStep, HwPos
  <2> QED BY <2>11, <2>15 DEF TxInStep
<1> QED BY <1>1, TxControl, PTL

-----------------------------------------------------------------------------
(* Queues                                                                  *)

(* A queue after its head was taken (g) or not, and a word to be put behind  *)
(* it (i) or none.                                                           *)
Pop(g, c) == IF g THEN Tail(c) ELSE c
Opt(i, x) == IF i THEN <<x>> ELSE <<>>

LEMMA Popped ==
  ASSUME NEW S, NEW c \in Seq(S), NEW g \in BOOLEAN, g => c # <<>>
  PROVE  /\ Pop(g, c) \in Seq(S) /\ Len(Pop(g, c)) \in Nat
         /\ Len(Pop(g, c)) + (IF g THEN 1 ELSE 0) = Len(c)
         /\ \A j \in 1 .. Len(Pop(g, c)) :
              Pop(g, c)[j] = c[j + (IF g THEN 1 ELSE 0)]
<1>1. Len(c) \in Nat
  BY LenProperties
<1>2. CASE g
  <2>1. /\ Tail(c) \in Seq(S) /\ Len(Tail(c)) = Len(c) - 1
        /\ \A j \in 1 .. Len(Tail(c)) : Tail(c)[j] = c[j + 1]
    BY <1>2, HeadTailProperties
  <2>2. Pop(g, c) = Tail(c)
    BY <1>2 DEF Pop
  <2>3. Len(Pop(g, c)) \in Nat
    BY <2>1, <2>2, LenProperties
  <2>4. Len(Pop(g, c)) + 1 = Len(c)
    BY <1>1, <2>1, <2>2
  <2> QED BY <1>2, <2>1, <2>2, <2>3, <2>4
<1>3. CASE ~g
  BY <1>1, <1>3 DEF Pop
<1> QED BY <1>2, <1>3

LEMMA Pushed ==
  ASSUME NEW S, NEW b \in Seq(S), NEW x, NEW i \in BOOLEAN, i => x \in S
  PROVE  /\ b \o Opt(i, x) \in Seq(S)
         /\ Len(b \o Opt(i, x)) = Len(b) + (IF i THEN 1 ELSE 0)
         /\ \A j \in 1 .. Len(b) : (b \o Opt(i, x))[j] = b[j]
         /\ i => (b \o Opt(i, x))[Len(b) + 1] = x
<1>1. Len(b) \in Nat
  BY LenProperties
<1>2. CASE i
  <2>1. <<x>> \in Seq(S) /\ Len(<<x>>) = 1 /\ <<x>>[1] = x
    BY <1>2
  <2>2. /\ b \o <<x>> \in Seq(S)
        /\ Len(b \o <<x>>) = Len(b) + Len(<<x>>)
        /\ \A j \in 1 .. Len(b) + Len(<<x>>) : (b \o <<x>>)[j] =
                     IF j <= Len(b) THEN b[j] ELSE <<x>>[j - Len(b)]
    BY <2>1, ConcatProperties
  <2>3. PICK e : e = b \o <<x>> /\ e = b \o Opt(i, x)
    BY <1>2 DEF Opt
  <2>4. \A j \in 1 .. Len(b) : e[j] = b[j]
    BY <1>1, <2>1, <2>2, <2>3
  <2>5. e[Len(b) + 1] = x
    <3>1. Len(b) + 1 \in 1 .. Len(b) + Len(<<x>>) /\ ~(Len(b) + 1 <= Len(b))
          /\ Len(b) + 1 - Len(b) = 1
      BY <1>1, <2>1
    <3> QED BY <2>1, <2>2, <2>3, <3>1
  <2> QED BY <1>2, <2>1, <2>2, <2>3, <2>4, <2>5
<1>3. CASE ~i
  <2>1. b \o Opt(i, x) = b
    BY <1>3, ConcatEmptySeq DEF Opt
  <2> QED BY <1>1, <1>3, <2>1
<1> QED BY <1>2, <1>3

(* A queue that loses its head (g) and gets x at its end (i); n stay. *)
Moved(c, c1, n, g, i, x) ==
  /\ Len(c) = n + (IF g THEN 1 ELSE 0) /\ Len(c1) = n + (IF i THEN 1 ELSE 0)
  /\ \A j \in 1 .. n : c1[j] = c[j + (IF g THEN 1 ELSE 0)]
  /\ i => c1[n + 1] = x

LEMMA QueueStep ==
  ASSUME NEW S, NEW c \in Seq(S), NEW x, NEW g \in BOOLEAN, NEW i \in BOOLEAN,
         g => c # <<>>, i => x \in S
  PROVE  /\ Pop(g, c) \o Opt(i, x) \in Seq(S)
         /\ \E n \in Nat : Moved(c, Pop(g, c) \o Opt(i, x), n, g, i, x)
<1>1. PICK b : b = Pop(g, c)
  OBVIOUS
<1>2. /\ b \in Seq(S) /\ Len(b) \in Nat
      /\ Len(b) + (IF g THEN 1 ELSE 0) = Len(c)
      /\ \A j \in 1 .. Len(b) : b[j] = c[j + (IF g THEN 1 ELSE 0)]
  BY <1>1, Popped
<1>3. /\ b \o Opt(i, x) \in Seq(S)
      /\ Len(b \o Opt(i, x)) = Len(b) + (IF i THEN 1 ELSE 0)
      /\ \A j \in 1 .. Len(b) : (b \o Opt(i, x))[j] = b[j]
      /\ i => (b \o Opt(i, x))[Len(b) + 1] = x
  BY <1>2, Pushed
<1>4. PICK n \in Nat : n = Len(b)
  BY <1>2
<1>5. Moved(c, b \o Opt(i, x), n, g, i, x)
  BY <1>2, <1>3, <1>4 DEF Moved
<1> QED BY <1>1, <1>3, <1>5

(* Two queues one behind the other, the second's head (v) becoming the       *)
(* first's last, are one queue.                                              *)
LEMMA JoinStep ==
  ASSUME NEW S, NEW d \in Seq(S), NEW r \in Seq(S), NEW x,
         NEW g \in BOOLEAN, NEW v \in BOOLEAN, NEW i \in BOOLEAN,
         NEW d1 \in Seq(S), NEW r1 \in Seq(S), NEW m \in Nat, NEW k \in Nat,
         Moved(d, d1, m, g, v, r[1]), Moved(r, r1, k, v, i, x)
  PROVE  \E n \in Nat : Moved(d \o r, d1 \o r1, n, g, i, x)
<1>1. /\ Len(d) \in Nat /\ Len(r) \in Nat /\ Len(d \o r) = Len(d) + Len(r)
      /\ \A j \in 1 .. Len(d) + Len(r) :
           (d \o r)[j] = IF j <= Len(d) THEN d[j] ELSE r[j - Len(d)]
  BY ConcatProperties, LenProperties
<1>2. /\ Len(d1) \in Nat /\ Len(r1) \in Nat /\ Len(d1 \o r1) = Len(d1) + Len(r1)
      /\ \A j \in 1 .. Len(d1) + Len(r1) :
           (d1 \o r1)[j] = IF j <= Len(d1) THEN d1[j] ELSE r1[j - Len(d1)]
  BY ConcatProperties, LenProperties
<1>3. PICK s, s1 : s = d \o r /\ s1 = d1 \o r1
  OBVIOUS
<1>8. PICK gg, vv, ii \in Nat : /\ gg = IF g THEN 1 ELSE 0
                                /\ vv = IF v THEN 1 ELSE 0
                                /\ ii = IF i THEN 1 ELSE 0
  OBVIOUS
<1>9. /\ Len(d) = m + gg /\ Len(d1) = m + vv /\ Len(r) = k + vv /\ Len(r1) = k + ii
      /\ \A j \in 1 .. m : d1[j] = d[j + gg]
      /\ \A j \in 1 .. k : r1[j] = r[j + vv]
      /\ vv = 1 => d1[m + 1] = r[1]
      /\ i => ii = 1 /\ r1[k + 1] = x
  BY <1>8 DEF Moved
<1>10. PICK n \in Nat : n = m + k + vv
  BY <1>8
<1>6. /\ Len(s) = m + gg + k + vv
      /\ \A j \in 1 .. m + gg + k + vv :
           s[j] = IF j <= m + gg THEN d[j] ELSE r[j - (m + gg)]
  <2>1. Len(d) + Len(r) = m + gg + k + vv
    BY <1>9
  <2> QED BY <1>1, <1>3, <1>9, <2>1
<1>7. /\ Len(s1) = m + vv + k + ii
      /\ \A j \in 1 .. m + vv + k + ii :
           s1[j] = IF j <= m + vv THEN d1[j] ELSE r1[j - (m + vv)]
  <2>1. Len(d1) + Len(r1) = m + vv + k + ii
    BY <1>9
  <2> QED BY <1>2, <1>3, <1>9, <2>1
<1>11. Len(s) = n + gg /\ Len(s1) = n + ii
  BY <1>6, <1>7, <1>8, <1>10
<1>12. ASSUME NEW j \in 1 .. n PROVE s1[j] = s[j + gg]
  <2>1. j \in 1 .. m + vv + k + ii
    BY <1>8, <1>10
  <2>2. s1[j] = IF j <= m + vv THEN d1[j] ELSE r1[j - (m + vv)]
    BY <1>7, <2>1
  <2>6. PICK l \in 1 .. m + gg + k + vv : l = j + gg
    BY <1>8, <1>10
  <2>7. s[l] = IF l <= m + gg THEN d[l] ELSE r[l - (m + gg)]
    BY <1>6
  <2>3. CASE j <= m
    <3>1. s1[j] = d1[j] /\ s[l] = d[l]
      BY <1>8, <2>2, <2>3, <2>6, <2>7
    <3>2. d1[j] = d[j + gg]
      BY <1>9, <2>3
    <3> QED BY <2>6, <3>1, <3>2
  <2>4. CASE j > m /\ j <= m + vv
    <3>1. vv = 1 /\ j = m + 1
      BY <1>8, <2>4
    <3>2. l - (m + gg) = 1 /\ ~(l <= m + gg)
      BY <1>8, <2>6, <3>1
    <3> QED BY <1>9, <2>2, <2>4, <2>6, <2>7, <3>1, <3>2
  <2>5. CASE j > m + vv
    <3>1. PICK y \in 1 .. k : y = j - (m + vv) /\ y + vv = l - (m + gg)
      BY <1>10, <2>5, <2>6
    <3>2. r1[y] = r[y + vv]
      BY <1>9
    <3>3. ~(j <= m + vv) /\ ~(l <= m + gg)
      BY <1>8, <2>5, <2>6
    <3> QED BY <2>2, <2>6, <2>7, <3>1, <3>2, <3>3
  <2> QED BY <1>8, <2>3, <2>4, <2>5
<1>13. ASSUME i PROVE s1[n + 1] = x
  <2>1. PICK l \in 1 .. m + vv + k + ii :
          l = n + 1 /\ ~(l <= m + vv) /\ l - (m + vv) = k + 1
    BY <1>8, <1>10, <1>13
  <2> QED BY <1>7, <1>9, <1>13, <2>1
<1>14. Moved(s, s1, n, g, i, x)
  BY <1>8, <1>11, <1>12, <1>13 DEF Moved
<1> QED BY <1>3, <1>14

-----------------------------------------------------------------------------
(* Layer 2: the words between the descriptors and the MAC                  *)

Flow == QueueType /\ EmptyInv /\ WireInv /\ StreamInv

(* One more word on the wire. *)
LEMMA WireStep ==
  ASSUME NEW w \in Wires, WireOk(w), NEW r \in Reads, NEW c \in Marks,
         Marked(r, c), WordsOf(r.skb) \in Nat,
         w.open => r.skb = w.words[1].skb /\ r.word = Len(w.words),
         ~w.open => r.word = 0,
         NEW ws, ws = IF w.open THEN w.words ELSE <<>>,
         NEW o, o = ~c.eop, NEW b, b = (c.sop = w.open),
         NEW w1, w1 = [open |-> o, broken |-> b, words |-> Append(ws, r)]
  PROVE  /\ w1 \in Wires /\ WireOk(w1)
         /\ w1.open = o
         /\ w1.words[1].skb = r.skb /\ Len(w1.words) = r.word + 1
<1>1. w1.open = ~c.eop /\ w1.broken = (c.sop = w.open) /\ w1.words = Append(ws, r)
  OBVIOUS
<1>2. /\ w.open \in BOOLEAN /\ w.words \in Seq(Reads)
      /\ c.sop \in BOOLEAN /\ c.eop \in BOOLEAN /\ r.word \in Nat /\ r.skb \in SKBs
      /\ r = [skb |-> r.skb, word |-> r.word]
  BY DEF Wires, Marks, Reads
<1>3. ws \in Seq(Reads) /\ Len(ws) = r.word
  <2>1. CASE w.open
    BY <1>2, <2>1
  <2>2. CASE ~w.open
    BY <1>2, <2>2
  <2> QED BY <2>1, <2>2
<1>4. PICK v : v = Append(ws, r)
  OBVIOUS
<1>5. /\ v \in Seq(Reads) /\ Len(v) = r.word + 1 /\ v[r.word + 1] = r
      /\ \A k \in 1 .. r.word : v[k] = ws[k]
  BY <1>2, <1>3, <1>4, AppendProperties
<1>6. \A k \in 1 .. r.word : ws[k] = [skb |-> r.skb, word |-> k - 1]
  <2>1. CASE w.open
    BY <1>2, <2>1 DEF WireOk
  <2>2. CASE ~w.open
    BY <1>2, <2>2
  <2> QED BY <2>1, <2>2
<1>7. \A k \in 1 .. r.word + 1 : v[k] = [skb |-> r.skb, word |-> k - 1]
  <2> SUFFICES ASSUME NEW k \in 1 .. r.word + 1
               PROVE  v[k] = [skb |-> r.skb, word |-> k - 1]
    OBVIOUS
  <2>1. CASE k = r.word + 1
    <3>1. k - 1 = r.word
      BY <1>2, <2>1
    <3> QED BY <1>2, <1>5, <2>1, <3>1
  <2>2. CASE k # r.word + 1
    <3>1. k \in 1 .. r.word
      BY <1>2, <2>2
    <3> QED BY <1>5, <1>6, <3>1
  <2> QED BY <2>1, <2>2
<1>8. v[1].skb = r.skb
  <2>1. 1 \in 1 .. r.word + 1
    BY <1>2
  <2>2. v[1] = [skb |-> r.skb, word |-> 1 - 1]
    BY <1>7, <2>1
  <2> QED BY <2>2
<1>9. w1.broken = FALSE
  <2>1. CASE w.open
    <3>1. r.word # 0
      BY <1>2, <2>1, EmptySeq DEF WireOk
    <3> QED BY <1>1, <1>2, <2>1, <3>1 DEF Marked
  <2>2. CASE ~w.open
    BY <1>1, <1>2, <2>2 DEF Marked
  <2> QED BY <2>1, <2>2
<1>10. /\ ~c.eop => Len(v) < WordsOf(r.skb)
       /\ c.eop => Len(v) = WordsOf(r.skb)
  BY <1>2, <1>5 DEF Marked
<1>11. v # <<>>
  BY <1>2, <1>5, EmptySeq
<1>12. w1 \in Wires
  <2>1. (c.sop = w.open) \in BOOLEAN /\ (~c.eop) \in BOOLEAN
    OBVIOUS
  <2> QED BY <1>4, <1>5, <2>1 DEF Wires
<1>13. WireOk(w1)
  <2>1. /\ \A k \in 1 .. Len(v) : v[k] = [skb |-> v[1].skb, word |-> k - 1]
        /\ ~c.eop => Len(v) < WordsOf(v[1].skb)
        /\ c.eop => Len(v) = WordsOf(v[1].skb)
    BY <1>5, <1>7, <1>8, <1>10
  <2>2. w1.words = v /\ (w1.open <=> ~c.eop) /\ ~w1.broken
    BY <1>1, <1>2, <1>4, <1>9
  <2> QED BY <1>11, <2>1, <2>2, Zenon DEF WireOk
<1> QED BY <1>1, <1>4, <1>5, <1>8, <1>12, <1>13

(* The descriptor the engine is in, before and after an edge. *)
LEMMA EdgeCur ==
  ASSUME Base, Control, Running, NEW csr, NEW io \in IO, TxEdge(csr, io)
  PROVE  /\ Issue(io) /\ ~tx_eop => /\ tx_desc_q'.skb = tx_desc_q.skb
                                    /\ tx_desc_q'.word = tx_desc_q.word + 1
         /\ ~Issue(io) /\ ~tx_sop => tx_desc_q' = tx_desc_q
<1>1. PICK c \in Ring : c = tx_desc_curaddr
  BY DEF Base, HwType
<1>2. tx_desc[c].hw => ~tx_done
  BY <1>1, NotHw DEF Running
<1>3. ~tx_done => tx_desc_curaddr' = c
  BY <1>1 DEF TxEdge
<1>4. ASSUME Issue(io), ~tx_eop
      PROVE  tx_desc_q'.skb = tx_desc_q.skb /\ tx_desc_q'.word = tx_desc_q.word + 1
  <2>1. tx_desc[c].hw
    BY <1>1, <1>4, EdgeIssue DEF Base, Control, tx_desc_q
  <2>2. PICK e \in Descs :
              /\ tx_desc' = [tx_desc EXCEPT ![tx_desc_curaddr] = e]
              /\ e.skb = tx_desc_q.skb /\ e.word = tx_desc_q.word + 1
    BY <1>4, EdgeIssue DEF Base, Control
  <2>3. tx_desc'[c] = e
    BY <1>1, <2>2 DEF Base, HwType
  <2> QED BY <1>2, <1>3, <2>1, <2>2, <2>3 DEF tx_desc_q
<1>5. ASSUME ~Issue(io), ~tx_sop PROVE tx_desc_q' = tx_desc_q
  <2>1. tx_desc[c].hw
    BY <1>1, <1>5 DEF Control, WordInv, tx_desc_q
  <2>2. tx_desc' = tx_desc
    BY <1>5, EdgeNoIssue DEF Base
  <2> QED BY <1>1, <1>2, <1>3, <2>1, <2>2 DEF tx_desc_q
<1> QED BY <1>4, <1>5

(* What comes first is what the MAC waits for. *)
LEMMA AfterWire ==
  ASSUME NEW w \in Wires, WireOk(w), NEW s, NEW c
  PROVE  AfterOf(w, s, c, 0) = Start <=> ~w.open
<1>1. w.words \in Seq(Reads) /\ w.open \in BOOLEAN
  BY DEF Wires
<1>2. w.open => Len(w.words) # 0
  BY <1>1, EmptySeq DEF WireOk
<1> QED BY <1>1, <1>2 DEF AfterOf, Start

(* A chain loses its first word to the MAC (g), and gets the next one (i). *)
Advances(w, s, c, w1, s1, c1, n, g, i, x, y) ==
  /\ Moved(s, s1, n, g, i, x) /\ Moved(c, c1, n, g, i, y) /\ Chain(w, s, c)
  /\ AfterOf(w1, s1, c1, 0) = AfterOf(w, s, c, IF g THEN 1 ELSE 0)
  /\ i => Marked(x, y) /\ Follows(AfterOf(w, s, c, Len(s)), x)

EndsAt(w, s, c, w1, s1, c1, i, x, y) ==
  /\ i => AfterOf(w1, s1, c1, Len(s1)) = Successor(x, y)
  /\ ~i => AfterOf(w1, s1, c1, Len(s1)) = AfterOf(w, s, c, Len(s))

LEMMA ChainStep ==
  ASSUME NEW s, NEW c, NEW s1, NEW c1, NEW w, NEW w1, NEW x, NEW y,
         NEW n \in Nat, NEW g \in BOOLEAN, NEW i \in BOOLEAN,
         Advances(w, s, c, w1, s1, c1, n, g, i, x, y)
  PROVE  Chain(w1, s1, c1) /\ EndsAt(w, s, c, w1, s1, c1, i, x, y)
<1> USE DEF Advances, EndsAt
<1>1. PICK gg, ii \in Nat : gg = (IF g THEN 1 ELSE 0) /\ ii = (IF i THEN 1 ELSE 0)
  OBVIOUS
<1>2. /\ Len(s) = n + gg /\ Len(c) = n + gg /\ Len(s1) = n + ii /\ Len(c1) = n + ii
      /\ \A j \in 1 .. n : s1[j] = s[j + gg] /\ c1[j] = c[j + gg]
      /\ i => ii = 1 /\ s1[n + 1] = x /\ c1[n + 1] = y
      /\ ~i => ii = 0
  BY <1>1 DEF Moved
<1>3. \A j \in 0 .. n : AfterOf(w1, s1, c1, j) = AfterOf(w, s, c, j + gg)
  <2> SUFFICES ASSUME NEW j \in 0 .. n
               PROVE  AfterOf(w1, s1, c1, j) = AfterOf(w, s, c, j + gg)
    OBVIOUS
  <2>1. CASE j = 0
    BY <1>1, <2>1
  <2>2. CASE j # 0
    <3>1. s1[j] = s[j + gg] /\ c1[j] = c[j + gg] /\ j + gg # 0
      BY <1>2, <2>2
    <3> QED BY <2>2, <3>1 DEF AfterOf
  <2> QED BY <2>1, <2>2
<1>4. AfterOf(w1, s1, c1, n) = AfterOf(w, s, c, Len(s))
  BY <1>2, <1>3
<1>5. ASSUME NEW j \in 1 .. n + ii
      PROVE  Marked(s1[j], c1[j]) /\ Follows(AfterOf(w1, s1, c1, j - 1), s1[j])
  <2>1. CASE j <= n
    <3>1. PICK l \in 1 .. Len(s) : l = j + gg /\ l - 1 = (j - 1) + gg
      BY <1>2, <2>1
    <3>2. Marked(s[l], c[l]) /\ Follows(AfterOf(w, s, c, l - 1), s[l])
      BY DEF Chain
    <3>3. j - 1 \in 0 .. n
      BY <2>1
    <3>4. AfterOf(w1, s1, c1, j - 1) = AfterOf(w, s, c, l - 1)
      BY <1>3, <3>1, <3>3
    <3>5. s1[j] = s[l] /\ c1[j] = c[l]
      BY <1>2, <2>1, <3>1
    <3> QED BY <3>2, <3>4, <3>5
  <2>2. CASE j > n
    <3>1. i /\ j = n + 1 /\ j - 1 = n
      BY <1>2, <2>2
    <3> QED BY <1>2, <1>4, <3>1
  <2> QED BY <2>1, <2>2
<1>6. Chain(w1, s1, c1)
  BY <1>2, <1>5 DEF Chain
<1>7. CASE i
  <2>1. Len(s1) = n + 1 /\ n + 1 # 0 /\ s1[n + 1] = x /\ c1[n + 1] = y
    BY <1>2, <1>7
  <2> QED BY <1>6, <1>7, <2>1 DEF AfterOf
<1>8. CASE ~i
  BY <1>2, <1>4, <1>6, <1>8
<1> QED BY <1>7, <1>8

(* How an edge moves the queues. *)
LEMMA EdgeQueues ==
  ASSUME Base, Control, QueueType, NEW csr, NEW io \in IO, TxEdge(csr, io),
         Len(tx_control_fifo) = Len(Stream),
         NEW x, x = [skb |-> tx_desc_q.skb, word |-> tx_desc_q.word],
         NEW y, y = [sop |-> tx_sop, eop |-> tx_eop]
  PROVE  /\ tx_data_fifo' \in Seq(Reads) /\ reads' \in Seq(Reads)
         /\ tx_control_fifo' \in Seq(Marks)
         /\ \E n \in Nat :
              /\ Moved(Stream, Stream', n, Got(io), Issue(io), x)
              /\ Moved(tx_control_fifo, tx_control_fifo', n, Got(io), Issue(io), y)
<1>1. PICK g, v, i \in BOOLEAN : g = Got(io) /\ v = io.valid /\ i = Issue(io)
  BY DEF Got, Issue, IO
<1>2. PICK d, r \in Seq(Reads), c \in Seq(Marks) :
        d = tx_data_fifo /\ r = reads /\ c = tx_control_fifo
  BY DEF QueueType
<1>3. (g => d # <<>> /\ c # <<>>) /\ (v => r # <<>>)
  BY <1>1, <1>2 DEF Got, tx_align_valid, TxEdge
<1>4. i => x \in Reads
  <2>1. i => tx_desc_q \in Descs /\ Tells(tx_desc_q)
    BY <1>1, EdgeIssue DEF Base, Control
  <2> QED BY <2>1 DEF Reads, Descs, Tells
<1>5. y \in Marks
  BY DEF Marks, Base, HwType, tx_eop
<1>6. PICK h : h = Head(r)
  OBVIOUS
<1>7. v => h \in Reads /\ h = r[1]
  BY <1>3, <1>6, HeadTailProperties
<1>8. PICK d1, r1, c1 : /\ d1 = Pop(g, d) \o Opt(v, h)
                        /\ r1 = Pop(v, r) \o Opt(i, x)
                        /\ c1 = Pop(g, c) \o Opt(i, y)
  OBVIOUS
<1>9. d1 = tx_data_fifo' /\ r1 = reads' /\ c1 = tx_control_fifo'
  <2>1. d1 = tx_data_fifo'
    BY <1>1, <1>2, <1>6, <1>8, Zenon DEF TxEdge, Pop, Opt, Got, Issue
  <2>2. r1 = reads'
    BY <1>1, <1>2, <1>8, Zenon DEF TxEdge, Pop, Opt, Issue
  <2>3. c1 = tx_control_fifo'
    BY <1>1, <1>2, <1>8, Zenon DEF TxEdge, Pop, Opt, Got, Issue
  <2> QED BY <2>1, <2>2, <2>3
<1>10. d1 \in Seq(Reads) /\ \E m \in Nat : Moved(d, d1, m, g, v, h)
  BY <1>3, <1>7, <1>8, QueueStep
<1>11. r1 \in Seq(Reads) /\ \E k \in Nat : Moved(r, r1, k, v, i, x)
  BY <1>3, <1>4, <1>8, QueueStep
<1>12. c1 \in Seq(Marks) /\ \E l \in Nat : Moved(c, c1, l, g, i, y)
  BY <1>3, <1>5, <1>8, QueueStep
<1>13. PICK m, k, l \in Nat : /\ Moved(d, d1, m, g, v, h)
                              /\ Moved(r, r1, k, v, i, x)
                              /\ Moved(c, c1, l, g, i, y)
  BY <1>10, <1>11, <1>12
<1>14. Moved(d, d1, m, g, v, r[1])
  BY <1>7, <1>13 DEF Moved
<1>15. PICK n \in Nat : Moved(d \o r, d1 \o r1, n, g, i, x)
  BY <1>10, <1>11, <1>13, <1>14, JoinStep
<1>16. Stream = d \o r /\ Stream' = d1 \o r1
  BY <1>2, <1>9 DEF Stream
<1>17. n = l
  <2>1. Len(c) = Len(d \o r)
    BY <1>2, <1>16
  <2> QED BY <1>13, <1>15, <2>1 DEF Moved
<1> QED BY <1>1, <1>2, <1>9, <1>10, <1>11, <1>12, <1>13, <1>15, <1>16, <1>17

(* A clock edge keeps the stream, whatever the driver does with it. *)
LEMMA EdgeFlow ==
  ASSUME Base, Control, Flow, NEW csr, NEW io \in IO, TxEdge(csr, io), dev' = dev
  PROVE  Flow'
<1>1. PICK x, y : /\ x = [skb |-> tx_desc_q.skb, word |-> tx_desc_q.word]
                  /\ y = [sop |-> tx_sop, eop |-> tx_eop]
  OBVIOUS
<1>2. PICK g, i \in BOOLEAN : g = Got(io) /\ i = Issue(io)
  BY DEF Got, Issue
<1>3. QueueType /\ WireOk(wire) /\ Chain(wire, Stream, tx_control_fifo)
  BY DEF Flow, WireInv, StreamInv
<1>4. Len(tx_control_fifo) = Len(Stream)
  BY <1>3 DEF Chain
<1>5. /\ tx_data_fifo' \in Seq(Reads) /\ reads' \in Seq(Reads)
      /\ tx_control_fifo' \in Seq(Marks)
  BY <1>1, <1>3, <1>4, EdgeQueues
<1>6. PICK n \in Nat : /\ Moved(Stream, Stream', n, g, i, x)
                       /\ Moved(tx_control_fifo, tx_control_fifo', n, g, i, y)
  BY <1>1, <1>2, <1>3, <1>4, EdgeQueues
<1>7. wire \in Wires
  BY <1>3 DEF QueueType
<1>8. /\ wire' \in Wires /\ WireOk(wire')
      /\ AfterOf(wire', Stream', tx_control_fifo', 0)
           = AfterOf(wire, Stream, tx_control_fifo, IF g THEN 1 ELSE 0)
  <2>1. CASE g
    <3>1. tx_data_fifo # <<>> /\ tx_control_fifo # <<>>
      BY <1>2, <2>1 DEF Got, tx_align_valid
    <3>2. PICK r \in Reads : r = Head(tx_data_fifo) /\ r = Stream[1]
      <4>1. Head(tx_data_fifo) \in Reads /\ Head(tx_data_fifo) = tx_data_fifo[1]
        BY <1>3, <3>1, HeadTailProperties DEF QueueType
      <4>2. Len(tx_data_fifo) \in Nat \ {0} /\ Len(reads) \in Nat
        BY <1>3, <3>1, EmptySeq, LenProperties DEF QueueType
      <4>3. \A j \in 1 .. Len(tx_data_fifo) + Len(reads) :
              Stream[j] = IF j <= Len(tx_data_fifo) THEN tx_data_fifo[j]
                          ELSE reads[j - Len(tx_data_fifo)]
        BY <1>3, ConcatProperties DEF QueueType, Stream
      <4>4. Stream[1] = tx_data_fifo[1]
        BY <4>2, <4>3
      <4> QED BY <4>1, <4>4
    <3>3. PICK c \in Marks : c = Head(tx_control_fifo) /\ c = tx_control_fifo[1]
      BY <1>3, <3>1, HeadTailProperties DEF QueueType
    <3>4. Len(tx_control_fifo) \in Nat \ {0}
      BY <1>3, <3>1, EmptySeq DEF QueueType
    <3>5. 1 \in 1 .. Len(Stream) /\ 1 - 1 = 0
      BY <1>4, <3>4
    <3>6. /\ Marked(r, c)
          /\ Follows(AfterOf(wire, Stream, tx_control_fifo, 0), r)
      BY <1>3, <3>2, <3>3, <3>5 DEF Chain
    <3>7. /\ wire.open => r.skb = wire.words[1].skb /\ r.word = Len(wire.words)
          /\ ~wire.open => r.word = 0
      BY <1>3, <1>7, <3>6, AfterWire DEF Follows, AfterOf
    <3>8. PICK ws : ws = IF wire.open THEN wire.words ELSE <<>>
      OBVIOUS
    <3>9. wire' = [open |-> ~c.eop, broken |-> (c.sop = wire.open),
                   words |-> Append(ws, r)]
      <4>1. wire' = Wire(TRUE)
        BY <1>2, <2>1 DEF TxEdge, Got
      <4>2. (IF wire.open THEN wire ELSE NoWire).words = ws
        BY <3>8 DEF NoWire
      <4>3. (IF wire.open THEN wire ELSE NoWire).open = wire.open
        BY <1>7 DEF NoWire, Wires
      <4> QED BY <3>2, <3>3, <4>1, <4>2, <4>3, Zenon DEF Wire
    <3>10. WordsOf(r.skb) \in Nat
      <4>1. r.skb \in SKBs
        BY DEF Reads
      <4>2. PICK o, l \in Nat : o = Offset0[r.skb] /\ l = Len0[r.skb]
        BY <4>1, FrameSize
      <4>3. PICK b \in Nat \ {0} : b = BUS_BYTES
        BY LengthSize
      <4>4. PICK z \in Nat : z = o + l + b - 1
        OBVIOUS
      <4>5. z \div b \in Nat
        BY Z3
      <4> QED BY <4>2, <4>3, <4>4, <4>5 DEF WordsOf
    <3>11. /\ wire' \in Wires /\ WireOk(wire')
           /\ wire'.open = ~c.eop
           /\ wire'.words[1].skb = r.skb /\ Len(wire'.words) = r.word + 1
      <4>1. PICK w \in Wires : w = wire
        BY <1>7
      <4>10. PICK w1 : w1 = wire'
        OBVIOUS
      <4>5. PICK o, b : o = ~c.eop /\ b = (c.sop = w.open)
        OBVIOUS
      <4>2. /\ w1 = [open |-> o, broken |-> b, words |-> Append(ws, r)]
            /\ ws = IF w.open THEN w.words ELSE <<>>
        BY <3>8, <3>9, <4>1, <4>5, <4>10
      <4>3. /\ WireOk(w) /\ Marked(r, c) /\ WordsOf(r.skb) \in Nat
            /\ w.open => r.skb = w.words[1].skb /\ r.word = Len(w.words)
            /\ ~w.open => r.word = 0
        BY <1>3, <3>6, <3>7, <3>10, <4>1
      <4>4. /\ w1 \in Wires /\ WireOk(w1)
            /\ w1.open = o
            /\ w1.words[1].skb = r.skb /\ Len(w1.words) = r.word + 1
        BY <4>2, <4>3, <4>5, WireStep
      <4> QED BY <4>1, <4>4, <4>5, <4>10
    <3>12. AfterOf(wire', Stream', tx_control_fifo', 0)
             = Successor(r, c)
      BY <3>11 DEF AfterOf, Successor
    <3>13. AfterOf(wire, Stream, tx_control_fifo, 1)
             = Successor(r, c)
      BY <3>2, <3>3 DEF AfterOf
    <3> QED BY <2>1, <3>11, <3>12, <3>13
  <2>2. CASE ~g
    <3>1. wire' = IF wire.open THEN wire ELSE NoWire
      BY <1>2, <2>2 DEF TxEdge, Wire, Got
    <3>2. NoWire \in Wires /\ WireOk(NoWire) /\ ~NoWire.open
      BY EmptySeq DEF NoWire, Wires, WireOk
    <3> QED BY <1>3, <1>7, <2>2, <3>1, <3>2 DEF AfterOf
  <2> QED BY <2>1, <2>2
<1>9. ASSUME i
      PROVE  /\ Marked(x, y) /\ Running
             /\ Follows(AfterOf(wire, Stream, tx_control_fifo, Len(Stream)), x)
             /\ Len(tx_control_fifo) # TX_FIFO_DEPTH
  <2>1. /\ tx_desc_q.hw /\ tcontrol.ena /\ tx_desc_q \in Descs /\ Tells(tx_desc_q)
        /\ Len(tx_control_fifo) # TX_FIFO_DEPTH
        /\ tx_eop <=> Rest(tx_desc_q) <= BUS_BYTES
    BY <1>2, <1>9, EdgeIssue DEF Base, Control
  <2>2. Running /\ (tx_sop <=> tx_desc_q.word = 0)
    BY <2>1 DEF Control, TaskInv, WordInv
  <2>3. /\ tx_eop <=> tx_desc_q.word + 1 = WordsOf(tx_desc_q.skb)
        /\ tx_desc_q.word + 1 <= WordsOf(tx_desc_q.skb)
    BY <2>1, LastWord
  <2>4. /\ x.skb = tx_desc_q.skb /\ x.word = tx_desc_q.word
        /\ y.sop = tx_sop /\ y.eop = tx_eop
    BY <1>1
  <2>5. Marked(x, y)
    BY <2>2, <2>3, <2>4 DEF Marked
  <2>6. Follows(AfterOf(wire, Stream, tx_control_fifo, Len(Stream)), x)
    BY <1>1, <2>2, <2>4 DEF Flow, StreamInv, After, Follows
  <2> QED BY <2>1, <2>2, <2>5, <2>6
<1>10. /\ Chain(wire', Stream', tx_control_fifo')
       /\ i => AfterOf(wire', Stream', tx_control_fifo', Len(Stream')) = Successor(x, y)
       /\ ~i => AfterOf(wire', Stream', tx_control_fifo', Len(Stream'))
                  = AfterOf(wire, Stream, tx_control_fifo, Len(Stream))
  <2>1. PICK s, c, s1, c1, w, w1 :
          /\ s = Stream /\ c = tx_control_fifo /\ w = wire
          /\ s1 = Stream' /\ c1 = tx_control_fifo' /\ w1 = wire'
    OBVIOUS
  <2>2. Advances(w, s, c, w1, s1, c1, n, g, i, x, y)
    BY <1>3, <1>6, <1>8, <1>9, <2>1 DEF Advances
  <2>3. Chain(w1, s1, c1)
    BY <2>2, ChainStep
  <2>4. EndsAt(w, s, c, w1, s1, c1, i, x, y)
    BY <2>2, ChainStep
  <2> QED BY <2>1, <2>3, <2>4 DEF EndsAt
<1>11. Len(tx_control_fifo') <= TX_FIFO_DEPTH
  <2>1. PICK f \in Nat : f = TX_FIFO_DEPTH
    BY TxParams
  <2>2. n + (IF g THEN 1 ELSE 0) <= f
    BY <1>6, <2>1 DEF Flow, StreamInv, Moved
  <2>3. i => n + (IF g THEN 1 ELSE 0) # f
    BY <1>6, <1>9, <2>1 DEF Moved
  <2>4. n + (IF i THEN 1 ELSE 0) <= f
    BY <2>2, <2>3
  <2> QED BY <1>6, <2>1, <2>4 DEF Moved
<1>12. ASSUME Running
       PROVE  /\ tx_sop' <=> After(Len(Stream))' = Start
              /\ ~tx_sop' => After(Len(Stream))' = [skb |-> tx_desc_q'.skb,
                                                    word |-> tx_desc_q'.word]
  <2>1. After(Len(Stream))' = AfterOf(wire', Stream', tx_control_fifo', Len(Stream'))
    BY DEF After
  <2>2. CASE i
    <3>1. tx_sop' = tx_eop /\ y.eop = tx_eop /\ x.skb = tx_desc_q.skb
          /\ x.word = tx_desc_q.word
      BY <1>1, <1>2, <2>2 DEF TxEdge, Issue
    <3>2. tx_desc_q \in Descs
      BY <1>2, <2>2, EdgeIssue DEF Base, Control
    <3>3. [skb |-> x.skb, word |-> x.word + 1] # Start
      BY <3>1, <3>2 DEF Start, Descs
    <3>4. ~tx_eop => /\ tx_desc_q'.skb = x.skb
                     /\ tx_desc_q'.word = x.word + 1
      BY <1>2, <1>12, <2>2, <3>1, EdgeCur
    <3> QED BY <1>10, <2>1, <2>2, <3>1, <3>3, <3>4 DEF Successor
  <2>3. CASE ~i
    <3>1. tx_sop' = tx_sop
      BY <1>2, <2>3, EdgeNoIssue DEF Base
    <3>2. ~tx_sop => tx_desc_q' = tx_desc_q
      BY <1>2, <1>12, <2>3, EdgeCur
    <3> QED BY <1>10, <1>12, <2>1, <2>3, <3>1, <3>2 DEF Flow, StreamInv, After
  <2> QED BY <2>2, <2>3
<1>13. StreamInv'
  BY <1>10, <1>11, <1>12 DEF StreamInv, Running
<1>14. QueueType' /\ WireInv'
  BY <1>5, <1>8 DEF QueueType, WireInv
<1>15. EmptyInv'
  <2> SUFFICES ASSUME dev = "closed"
               PROVE  /\ reads' = <<>> /\ tx_data_fifo' = <<>>
                      /\ tx_control_fifo' = <<>> /\ wire' = NoWire
    BY DEF EmptyInv
  <2>1. reads = <<>> /\ tx_data_fifo = <<>> /\ tx_control_fifo = <<>> /\ wire = NoWire
    BY DEF Flow, EmptyInv
  <2>2. ~i /\ ~g
    BY <1>2, <1>9, <2>1 DEF Running, Got, tx_align_valid
  <2>3. ~io.valid
    BY <2>1 DEF TxEdge
  <2>4. <<>> \o <<>> = <<>>
    BY EmptySeq, ConcatEmptySeq
  <2>5. reads' = <<>> /\ tx_data_fifo' = <<>> /\ tx_control_fifo' = <<>>
    BY <1>2, <2>1, <2>2, <2>3, <2>4, Zenon DEF TxEdge, Issue, Got
  <2>6. wire' = Wire(FALSE)
    BY <1>2, <2>2 DEF TxEdge, Got
  <2>7. wire' = NoWire
    BY <2>1, <2>6 DEF Wire
  <2> QED BY <2>5, <2>7
<1> QED BY <1>13, <1>14, <1>15 DEF Flow

(* Steps that leave the queues and the engine's place in its frame alone. *)
LEMMA FlowKeeps ==
  ASSUME Flow, UNCHANGED <<reads, tx_data_fifo, tx_control_fifo, wire>>,
         dev' = "closed" => dev = "closed",
         Running' => /\ Running /\ tx_sop' = tx_sop
                     /\ ~tx_sop => tx_desc_q' = tx_desc_q
  PROVE  Flow'
<1>1. Stream' = Stream
  BY DEF Stream
<1>2. Chain(wire', Stream', tx_control_fifo') /\ After(Len(Stream))' = After(Len(Stream))
  BY <1>1 DEF Flow, StreamInv, After
<1>3. Running' => /\ tx_sop' <=> After(Len(Stream))' = Start
                  /\ ~tx_sop' => After(Len(Stream))' = [skb |-> tx_desc_q'.skb,
                                                        word |-> tx_desc_q'.word]
  BY <1>2 DEF Flow, StreamInv
<1>4. StreamInv'
  BY <1>2, <1>3 DEF Flow, StreamInv
<1>5. QueueType' /\ WireInv' /\ EmptyInv'
  BY DEF Flow, QueueType, WireInv, EmptyInv
<1> QED BY <1>4, <1>5 DEF Flow

(* Empty queues are in order. *)
LEMMA FlowEmpty ==
  ASSUME QueueType, reads = <<>>, tx_data_fifo = <<>>, tx_control_fifo = <<>>,
         wire = NoWire, tx_sop = TRUE
  PROVE  Flow
<1>1. Stream = <<>> /\ Len(Stream) = 0 /\ Len(tx_control_fifo) = 0
  BY EmptySeq, ConcatEmptySeq DEF Stream
<1>2. After(Len(Stream)) = Start
  BY <1>1 DEF After, AfterOf, NoWire
<1>3. Chain(wire, Stream, tx_control_fifo)
  BY <1>1 DEF Chain
<1>4. StreamInv
  BY <1>1, <1>2, <1>3, TxParams DEF StreamInv
<1>5. WireInv
  BY EmptySeq DEF WireInv, WireOk, NoWire
<1>6. EmptyInv
  BY DEF EmptyInv
<1> QED BY <1>4, <1>5, <1>6 DEF Flow

LEMMA FlowInit ==
  ASSUME Init
  PROVE  Flow
<1>1. NoWire \in Wires
  BY EmptySeq DEF NoWire, Wires
<1>2. QueueType
  BY <1>1, EmptySeq DEF Init, QueueType
<1> QED BY <1>2, FlowEmpty DEF Init

LEMMA FlowStep ==
  ASSUME Base, Control, Flow, [Next]_vars
  PROVE  Flow'
<1>1. CASE ClockStep
  <2>1. dev' = dev
    BY <1>1 DEF ClockStep, Clock, TxIsr, TcIe, drvvars
  <2>2. \/ UNCHANGED hwvars
        \/ \E csr \in {"none", "ie_off", "ie_on"}, io \in IO : TxEdge(csr, io)
    BY <1>1 DEF ClockStep, Clock, TxIsr, TcIe
  <2>3. CASE UNCHANGED hwvars
    BY <2>1, <2>3, FlowKeeps DEF hwvars, Running, tx_desc_q
  <2>4. CASE \E csr \in {"none", "ie_off", "ie_on"}, io \in IO : TxEdge(csr, io)
    BY <2>1, <2>4, EdgeFlow
  <2> QED BY <2>2, <2>3, <2>4
<1>2. CASE TcAck
  BY <1>2, EdgeFlow DEF TcAck
<1>3. CASE FlagStep
  <2>1. UNCHANGED hwvars
    BY <1>3, FlagControl
  <2>2. (dev' = "closed" => dev = "closed") /\ (Running' => Running)
    BY <1>3 DEF FlagStep, XmitBusy, TxIrqTaken, TxIsrSchedule, TxTimeout, TcStart,
                TcCheck, TcFree, TcWake, StopIrq, StopKill, StopKilled, Running
  <2> QED BY <2>1, <2>2, FlowKeeps DEF hwvars, tx_desc_q
<1>4. CASE Open
  <2>1. /\ UNCHANGED <<reads, tx_data_fifo, tx_control_fifo, wire>>
        /\ tx_sop' = TRUE /\ dev = "closed"
    BY <1>4 DEF Open, TxSoftReset
  <2>2. reads = <<>> /\ tx_data_fifo = <<>> /\ tx_control_fifo = <<>> /\ wire = NoWire
    BY <2>1 DEF Flow, EmptyInv
  <2>3. QueueType'
    BY <2>1 DEF Flow, QueueType
  <2>4. Chain(wire', Stream', tx_control_fifo') /\ WireInv'
    BY <2>1 DEF Flow, StreamInv, WireInv, Stream
  <2>5. Stream' = <<>> /\ Len(Stream') = 0
    BY <2>1, <2>2, EmptySeq, ConcatEmptySeq DEF Stream
  <2>6. After(Len(Stream))' = Start
    BY <2>1, <2>2, <2>5 DEF After, AfterOf, NoWire
  <2>7. StreamInv'
    BY <2>1, <2>4, <2>6 DEF Flow, StreamInv
  <2>8. EmptyInv'
    BY <2>1, <2>2 DEF EmptyInv
  <2> QED BY <2>3, <2>4, <2>7, <2>8 DEF Flow
<1>5. CASE StopDma
  BY <1>5, FlowKeeps DEF StopDma, TxSoftReset, Running
<1>6. CASE XmitFill
  <2>1. /\ dev' = dev /\ UNCHANGED <<reads, tx_data_fifo, tx_control_fifo, wire, tx_sop>>
    BY <1>6 DEF XmitFill
  <2>2. tx_desc_q.hw => tx_desc_q' = tx_desc_q
    BY <1>6, FillControl
  <2> QED BY <2>1, <2>2, FlowKeeps DEF Running, Control, WordInv
<1>7. CASE XmitGive
  <2>1. /\ dev' = dev /\ UNCHANGED <<reads, tx_data_fifo, tx_control_fifo, wire, tx_sop>>
    BY <1>7 DEF XmitGive
  <2>2. tx_desc_q.hw => tx_desc_q' = tx_desc_q
    BY <1>7, GiveControl
  <2> QED BY <2>1, <2>2, FlowKeeps DEF Running, Control, WordInv
<1>8. CASE UNCHANGED vars
  BY <1>8, FlowKeeps DEF vars, hwvars, drvvars, Running, tx_desc_q
<1> QED BY <1>1, <1>2, <1>3, <1>4, <1>5, <1>6, <1>7, <1>8, StepKinds

LEMMA TxFlow == Spec => [](Base /\ Control /\ Flow)
<1>1. Init => Flow
  BY FlowInit
<1>2. (Base /\ Control) /\ Flow /\ [Next]_vars => Flow'
  BY FlowStep
<1> QED BY <1>1, <1>2, TxControl, PTL DEF Spec

(* Every variable keeps its type: tx_queued never leaves the ring's size and *)
(* the counter of completions never wraps.                                   *)
THEOREM TxTypeSafety == Spec => []TypeOK
<1>1. Base /\ Control /\ Flow => TypeOK
  BY TypeSplit DEF Types, Base, Flow
<1> QED BY <1>1, TxFlow, PTL

(* What leaves for the MAC is what yatse_start_xmit queued, for every ring,  *)
(* FIFO depth, bus width and set of frames: a buffer lives until its last    *)
(* read is issued, the data FIFO has room for every read under way, and the  *)
(* words of a frame arrive in order, each once, between its marks.           *)
THEOREM TxDataSafety == Spec => []TxDataSafe
<1>1. ASSUME Base, Control PROVE TxBuffersLive
  <2> SUFFICES ASSUME NEW i \in Ring, tx_desc[i].hw
               PROVE  /\ tx_desc[i].skb = tx_skbs[i]
                      /\ tx_skbs[i] \notin Idle \cup {tc_skb}
    BY DEF TxBuffersLive
  <2>1. dev # "closed"
    BY <1>1 DEF Control, ClosedInv
  <2>2. PICK k \in 0 .. tx_queued : InStep(k)
    BY <1>1, <2>1 DEF Control, RingInv
  <2>3. Taken(i)
    <3>1. PICK a \in 0 .. N - 1 : a = Ahead(i)
      BY <1>1, AheadType DEF Base
    <3>2. a < tx_queued /\ tx_queued \in Nat
      BY <1>1, <2>2, <3>1, Size DEF InStep, Base, DrvType
    <3> QED BY <3>1, <3>2, Size DEF Taken
  <2>4. tx_skbs[i] \in Queued
    BY <1>1, <2>3, QueuedIs DEF Base
  <2> QED BY <1>1, <2>1, <2>3, <2>4 DEF Control, OwnerInv, Idle
<1>2. ASSUME Flow PROVE DataFifoFits
  <2>1. /\ Len(tx_data_fifo) \in Nat /\ Len(reads) \in Nat
        /\ Len(Stream) = Len(tx_data_fifo) + Len(reads)
    BY <1>2, ConcatProperties, LenProperties DEF Flow, QueueType, Stream
  <2>2. Len(tx_control_fifo) = Len(Stream) /\ Len(tx_control_fifo) <= TX_FIFO_DEPTH
    BY <1>2 DEF Flow, StreamInv, Chain
  <2>3. TX_FIFO_DEPTH \in Nat
    BY TxParams
  <2> QED BY <2>1, <2>2, <2>3 DEF DataFifoFits
<1>3. ASSUME Flow PROVE TxFramesWhole
  BY <1>3, Zenon DEF Flow, WireInv, WireOk, TxFramesWhole
<1>4. Base /\ Control /\ Flow => TxDataSafe
  BY <1>1, <1>2, <1>3 DEF TxDataSafe
<1> QED BY <1>4, TxFlow, PTL
=============================================================================
