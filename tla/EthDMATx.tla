------------------------------ MODULE EthDMATx ------------------------------
(***************************************************************************)
(* The transmit half of eth_dma.vhd: the engine reads the words of the     *)
(* current descriptor's buffer, remembers the frame borders of the reads   *)
(* under way in tx_control_fifo, and passes the words that memory returns  *)
(* in tx_data_fifo on to the MAC, one control word with one data word.     *)
(* A frame is given back (HW clear, tx_irq_count up) with the issue of its *)
(* last read.  The shifter eth_align moves bytes within a frame and keeps  *)
(* the order and the borders of the words; it is left out.                 *)
(*                                                                         *)
(* TxEdge(csr, io) is one rising clock edge; io says whether memory takes  *)
(* a read, whether it returns a word, and whether the MAC takes one.       *)
(***************************************************************************)
EXTENDS Naturals, Sequences

CONSTANTS
  TX_RING_BITS,    \* log2 of the number of descriptors
  TX_FIFO_DEPTH,   \* words of either FIFO
  BUS_BYTES,       \* bytes per bus word
  LENGTH_BITS      \* width of a descriptor's length

ASSUME TxParams ==
  /\ TX_RING_BITS \in Nat \ {0} /\ TX_FIFO_DEPTH \in Nat \ {0}
  /\ BUS_BYTES \in Nat \ {0} /\ LENGTH_BITS \in Nat \ {0}

\* The powers of two behind the widths of the counters; a length has room for
\* a bus word.
ASSUME TxRingSize ==
  /\ 2^TX_RING_BITS \in Nat /\ 2^TX_RING_BITS >= 2
  /\ 2^(TX_RING_BITS + 1) = 2 * 2^TX_RING_BITS
ASSUME TxLengthSize == 2^LENGTH_BITS \in Nat /\ BUS_BYTES < 2^LENGTH_BITS

VARIABLES
  tx_desc,          \* descriptor RAM: HW, bytes left, buffer, next word
  tx_desc_curaddr, tx_done, tx_sop, tx_irq_count, tx_irq_done,
  tcontrol,         \* TXENA, TXIE and TXIS
  reads,            \* reads memory has taken and not answered
  tx_data_fifo, tx_control_fifo,
  wire              \* the words of the frame the MAC is taking

hwvars == <<tx_desc, tx_desc_curaddr, tx_done, tx_sop, tx_irq_count,
            tx_irq_done, tcontrol, reads, tx_data_fifo, tx_control_fifo,
            wire>>

Ring == 0 .. 2^TX_RING_BITS - 1
\* Slip: the ring has no end.
RingNextNoWrap(i) == i + 1

RingNext(i) == (i + 1) % 2^TX_RING_BITS

tx_desc_q == tx_desc[tx_desc_curaddr]
tx_control_full == Len(tx_control_fifo) = TX_FIFO_DEPTH
txd_rd == tcontrol.ena /\ tx_desc_q.hw /\ ~tx_control_full

\* Slip: the offset of the buffer in its first word is forgotten.
tx_unal_lenNoOffset == tx_desc_q.len

\* The bytes left from the start of the next bus word on.  The length goes
\* below zero with the last read but one of a frame that begins off a word
\* border; the sum comes out right modulo 2^LENGTH_BITS.
tx_unal_len == (tx_desc_q.len + tx_desc_q.offset) % 2^LENGTH_BITS
tx_eop == tx_unal_len <= BUS_BYTES

\* tx_update_desc: every read moves the descriptor on by one word.
UpdateDesc(issue) ==
  IF ~issue THEN tx_desc_q
  ELSE [tx_desc_q EXCEPT !.word = @ + 1, !.hw = ~tx_eop,
            !.len = (@ + 2^LENGTH_BITS - BUS_BYTES) % 2^LENGTH_BITS]

\* Slip: an acknowledge hides a completion of the same clock.
IrqCountDownWins(up, down) ==
  LET w == 2^(TX_RING_BITS + 1)
  IN  CASE down -> (tx_irq_count + w - 1) % w
        [] up /\ ~down -> (tx_irq_count + 1) % w
        [] OTHER -> tx_irq_count

IrqCount(up, down) ==
  LET w == 2^(TX_RING_BITS + 1)
  IN  CASE up /\ ~down -> (tx_irq_count + 1) % w
        [] ~up /\ down -> (tx_irq_count + w - 1) % w
        [] OTHER -> tx_irq_count

tx_align_valid == tx_data_fifo # <<>> /\ tx_control_fifo # <<>>

\* The frame at the MAC (external), kept for one clock after its last word.
\* broken: a frame begins inside another, or a word comes outside a frame.
NoWire == [open |-> FALSE, words |-> <<>>, broken |-> FALSE]
Wire(got) ==
  LET now == IF wire.open THEN wire ELSE NoWire
      c == Head(tx_control_fifo)
  IN  IF ~got THEN now
      ELSE [open |-> ~c.eop, broken |-> (c.sop = now.open),
            words |-> Append(now.words, Head(tx_data_fifo))]

\* csr: "ack" writes csr.tx, "ie_on" and "ie_off" write tcontrol back with
\* TXIE changed.
IO == [halt : BOOLEAN, valid : BOOLEAN, ready : BOOLEAN]

TxEdge(csr, io) ==
  LET issue == txd_rd /\ ~io.halt
      last == issue /\ tx_eop
      got == io.ready /\ tx_align_valid
  IN  /\ tx_done' = last
      /\ tx_sop' = IF issue THEN tx_eop ELSE tx_sop
      /\ tx_irq_count' = IrqCount(last, tx_irq_done)
      /\ tx_irq_done' = (csr = "ack")
      /\ tx_desc_curaddr' = IF tx_done THEN RingNext(tx_desc_curaddr)
                            ELSE tx_desc_curaddr
      /\ tcontrol' = [tcontrol EXCEPT !.ie = CASE csr = "ie_on" -> TRUE
                                               [] csr = "ie_off" -> FALSE
                                               [] OTHER -> @,
                                      !.is = tx_irq_count # 0]
      /\ tx_desc' = [tx_desc EXCEPT ![tx_desc_curaddr] = UpdateDesc(issue)]
      /\ io.valid => reads # <<>>
      /\ reads' = (IF io.valid THEN Tail(reads) ELSE reads)
                    \o (IF issue THEN <<[skb |-> tx_desc_q.skb,
                                         word |-> tx_desc_q.word]>>
                        ELSE <<>>)
      /\ tx_data_fifo' = (IF got THEN Tail(tx_data_fifo) ELSE tx_data_fifo)
                           \o (IF io.valid THEN <<Head(reads)>> ELSE <<>>)
      /\ tx_control_fifo' =
           (IF got THEN Tail(tx_control_fifo) ELSE tx_control_fifo)
             \o (IF issue THEN <<[sop |-> tx_sop, eop |-> tx_eop]>>
                 ELSE <<>>)
      /\ wire' = Wire(got)

\* tx_soft_reset: the FIFOs and the reads under way stay.
TxSoftReset ==
  /\ tx_desc_curaddr' = 0 /\ tx_done' = FALSE /\ tx_sop' = TRUE
  /\ tx_irq_count' = 0 /\ tx_irq_done' = FALSE
  /\ UNCHANGED <<reads, tx_data_fifo, tx_control_fifo, wire>>

TxOff == [ena |-> FALSE, ie |-> FALSE, is |-> FALSE]

tx_irq == tcontrol.ie /\ tcontrol.is
=============================================================================
