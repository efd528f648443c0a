------------------------------ MODULE EthDMARx ------------------------------
(***************************************************************************)
(* The receive half of the Ethernet DMA engine, eth_dma.vhd: a ring of     *)
(* descriptors in dual-port RAM, the engine that writes the MAC's beats to *)
(* the buffer of the current descriptor, the count of completions the      *)
(* driver has not acknowledged, and the control register.                  *)
(*                                                                         *)
(* RxEdge(csr, halt) is one rising clock edge.  csr is what the processor  *)
(* does to the control registers in that clock, halt the memory's wait     *)
(* request.  The descriptor RAM's registered output rx_desc_q is           *)
(* rx_desc[rx_desc_curaddr]: the engine writes only descriptors whose HW   *)
(* bit it sees set and the driver only those whose HW bit it sees clear,   *)
(* so the one-clock delay of the driver's writes shows nowhere else.       *)
(***************************************************************************)
EXTENDS Naturals, FiniteSets

CONSTANTS
  RX_RING_BITS,   \* log2 of the number of descriptors
  BUS_BYTES,      \* bytes per beat
  RXLEN,          \* the length the driver puts in a descriptor
  FrameKinds,     \* the frames the MAC passes on: length, and an error or not
  SKBs,           \* receive buffers
  NoFrame         \* the MAC presents no frame

ASSUME RxParams ==
  /\ RX_RING_BITS \in Nat \ {0}
  /\ BUS_BYTES \in Nat \ {0} /\ RXLEN \in Nat
  /\ FrameKinds \subseteq [len : Nat \ {0}, error : BOOLEAN]

\* The powers of two behind the widths of the counters.
ASSUME RxRingSize ==
  /\ 2^RX_RING_BITS \in Nat /\ 2^RX_RING_BITS >= 2
  /\ 2^(RX_RING_BITS + 1) = 2 * 2^RX_RING_BITS

VARIABLES
  rx_desc,          \* descriptor RAM
  rx_desc_curaddr,  \* descriptor the engine works on
  rx_offset,        \* where the next beat goes in its buffer
  rx_running,       \* inside a frame
  rx_done,          \* a frame ended in the clock before
  rx_irq_count,     \* completions not acknowledged
  rx_irq_done,      \* an acknowledge was written in the clock before
  rcontrol,         \* RXENA, RXIE and RXIS
  mac,              \* the frame the MAC presents and its next beat
  mem               \* per buffer: the frame begun in it, the beats in place

hwvars == <<rx_desc, rx_desc_curaddr, rx_offset, rx_running, rx_done,
            rx_irq_count, rx_irq_done, rcontrol, mac, mem>>

Ring == 0 .. 2^RX_RING_BITS - 1
\* Slip: the ring has no end.
RingNextNoWrap(i) == i + 1

RingNext(i) == (i + 1) % 2^RX_RING_BITS

Beats(len) == {o \in 0 .. len - 1 : o % BUS_BYTES = 0}
Frames == [len : Nat, pos : Nat, error : BOOLEAN]
ASSUME NoFrameParam == NoFrame \notin Frames

\* The MAC (external): store-and-forward, so a frame once begun has a beat
\* valid in every clock until its last one is taken.
rxs_valid == mac # NoFrame
rxs_sop == rxs_valid /\ mac.pos = 0
rxs_eop == rxs_valid /\ mac.pos + BUS_BYTES >= mac.len
rxs_empty == IF rxs_eop THEN mac.pos + BUS_BYTES - mac.len ELSE 0
rxs_error == rxs_eop /\ mac.error

rx_desc_q == rx_desc[rx_desc_curaddr]
rxs_ready(halt) == rx_desc_q.hw /\ ~halt /\ ~rx_done
Taken(halt) == rxs_ready(halt) /\ rxs_valid
rx_len_hit == rx_offset + BUS_BYTES = rx_desc_q.len
rx_start(halt) == rcontrol.ena /\ rxs_sop /\ Taken(halt)
rx_run(halt) == rx_start(halt) \/ rx_running
rx_end(halt) == rx_run(halt) /\ ((rxs_eop /\ Taken(halt)) \/ rx_len_hit)

\* rx_update_desc: the MAC's error is kept, the end of a frame gives the
\* descriptor back with the length received.
UpdateDesc(halt) ==
  [rx_desc_q EXCEPT
     !.error = @ \/ (Taken(halt) /\ rxs_error),
     !.hw = @ /\ ~rx_end(halt),
     !.len = IF rx_end(halt) THEN rx_offset + BUS_BYTES - rxs_empty ELSE @]

\* rxd_wr: what a beat written at rx_offset does to the buffer.
WriteBeat(m) ==
  CASE rxs_sop /\ rx_offset = 0 -> [len |-> mac.len, got |-> {0}]
    [] ~rxs_sop /\ mac.pos = rx_offset -> [m EXCEPT !.got = @ \cup {rx_offset}]
    [] OTHER -> [m EXCEPT !.got = @ \ {rx_offset}]

\* Slip: a completion hides an acknowledge of the same clock.
IrqCountUpWins(up, down) ==
  LET w == 2^(RX_RING_BITS + 1)
  IN  CASE up -> (rx_irq_count + 1) % w
        [] ~up /\ down -> (rx_irq_count + w - 1) % w
        [] OTHER -> rx_irq_count

\* The two irq_count branches: a completion and an acknowledge in the same
\* clock cancel out.  The counter is RX_RING_BITS + 1 wide.
IrqCount(up, down) ==
  LET w == 2^(RX_RING_BITS + 1)
  IN  CASE up /\ ~down -> (rx_irq_count + 1) % w
        [] ~up /\ down -> (rx_irq_count + w - 1) % w
        [] OTHER -> rx_irq_count

\* csr: "ack" writes csr.rx, "ie_on" and "ie_off" write rcontrol back with
\* RXIE changed, "none" is a clock without a write.

RxEdge(csr, halt) ==
  /\ rx_running' = (rx_run(halt) /\ ~rx_end(halt))
  /\ rx_offset' = IF rx_end(halt) THEN 0
                  ELSE IF rx_run(halt) /\ ~halt THEN rx_offset + BUS_BYTES
                  ELSE rx_offset
  /\ rx_done' = rx_end(halt)
  /\ rx_irq_count' = IrqCount(rx_end(halt), rx_irq_done)
  /\ rx_irq_done' = (csr = "ack")
  /\ rx_desc_curaddr' = IF rx_done THEN RingNext(rx_desc_curaddr)
                        ELSE rx_desc_curaddr
  /\ rcontrol' = [rcontrol EXCEPT !.ie = CASE csr = "ie_on" -> TRUE
                                           [] csr = "ie_off" -> FALSE
                                           [] OTHER -> @,
                                  !.is = rx_irq_count # 0]
  /\ rx_desc' = [rx_desc EXCEPT ![rx_desc_curaddr] = UpdateDesc(halt)]
  /\ mac' = CASE ~Taken(halt) -> mac
              [] Taken(halt) /\ rxs_eop -> NoFrame
              [] OTHER -> [mac EXCEPT !.pos = @ + BUS_BYTES]
  /\ mem' = IF Taken(halt)
            THEN [mem EXCEPT ![rx_desc_q.skb] = WriteBeat(@)] ELSE mem

\* rx_soft_reset, and csrs clearing rcontrol: one handshake of
\* yatse_dma_reset, which holds both locks and polls RXRST until it is over.
RxSoftReset ==
  /\ rx_desc_curaddr' = 0 /\ rx_offset' = 0
  /\ rx_running' = FALSE /\ rx_done' = FALSE
  /\ rx_irq_count' = 0 /\ rx_irq_done' = FALSE

RxOff == [ena |-> FALSE, ie |-> FALSE, is |-> FALSE]

\* The MAC begins to present a frame.
MacFrame ==
  /\ mac = NoFrame
  /\ \E f \in FrameKinds :
        mac' = [len |-> f.len, pos |-> 0, error |-> f.error]
  /\ UNCHANGED <<rx_desc, rx_desc_curaddr, rx_offset, rx_running, rx_done,
                 rx_irq_count, rx_irq_done, rcontrol, mem>>

rx_irq == rcontrol.ie /\ rcontrol.is
=============================================================================
