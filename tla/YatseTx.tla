------------------------------- MODULE YatseTx -------------------------------
(***************************************************************************)
(* The transmit side of the yatse driver over the DMA engine of EthDMATx:  *)
(* yatse_start_xmit called by the packet scheduler, yatse_tx_isr, the      *)
(* tasklet yatse_tx_complete, the watchdog's yatse_tx_timeout, and what    *)
(* yatse_open and yatse_stop do to this side.  tx_lock is held in the      *)
(* steps of Locked; the handler's locked region is one step.               *)
(***************************************************************************)
EXTENDS EthDMATx, FiniteSets

CONSTANTS
  SKBs,     \* frames to send
  Len0,     \* their lengths in bytes
  Offset0,  \* their offsets from a word border
  NoSkb     \* a null sk_buff pointer

ASSUME TxDriverParams ==
  /\ NoSkb \notin SKBs
  /\ Len0 \in [SKBs -> 1 .. 2^LENGTH_BITS - 1]
  /\ Offset0 \in [SKBs -> 0 .. BUS_BYTES - 1]

\* A frame of the configured MTU is far shorter than the 16 bits of a length.
ASSUME TxLenFits == \A s \in SKBs : Len0[s] + Offset0[s] < 2^LENGTH_BITS

VARIABLES
  dev,             \* how far yatse_open or yatse_stop has come
  tx_skbs,         \* the skb of every descriptor
  tx_insert, tx_remove, tx_queued,
  queue_stopped,   \* netif_stop_queue
  xmit,            \* step of yatse_start_xmit
  isr,             \* step of yatse_tx_isr
  tasklet_sched,   \* TASKLET_STATE_SCHED
  tasklet_list,    \* the tasklet is on a processor's list
  tc, tc_skb       \* step of yatse_tx_complete (its TASKLET_STATE_RUN), skb

drvvars == <<dev, tx_skbs, tx_insert, tx_remove, tx_queued, queue_stopped,
             xmit, isr,
                 tasklet_sched, tasklet_list, tc, tc_skb>>
vars == <<hwvars, drvvars>>

Locked == xmit = "give" \/ tc \in {"ack", "ie"}

\* The n-th descriptor from tx_remove on, and the frames in the ring: the
\* pointers of tx_skbs outside of it are stale.
Nth(n) == (tx_remove + n) % 2^TX_RING_BITS
Queued == {tx_skbs[Nth(n)] :
             n \in 0 .. (IF xmit = "give" THEN tx_queued ELSE tx_queued - 1)}

\* The frames the driver does not have.
Idle == SKBs \ (Queued \cup {tc_skb})

Init ==
  /\ tx_desc = [i \in Ring |-> [hw |-> FALSE, len |-> 0, offset |-> 0,
                                skb |-> NoSkb, word |-> 0]]
  /\ tx_desc_curaddr = 0 /\ tx_done = FALSE /\ tx_sop = TRUE
  /\ tx_irq_count = 0 /\ tx_irq_done = FALSE
  /\ tcontrol = TxOff
  /\ reads = <<>> /\ tx_data_fifo = <<>> /\ tx_control_fifo = <<>>
  /\ wire = NoWire
  /\ dev = "closed"
  /\ tx_skbs = [i \in Ring |-> NoSkb]
  /\ tx_insert = 0 /\ tx_remove = 0 /\ tx_queued = 0
  /\ queue_stopped = TRUE
  /\ xmit = "idle"
  /\ isr = "idle"
  /\ tasklet_sched = FALSE /\ tasklet_list = FALSE
  /\ tc = "idle" /\ tc_skb = NoSkb

\* yatse_dma_init clears the status of every descriptor and turns transmit
\* on; netif_start_queue ends yatse_open.
Open ==
  /\ dev = "closed"
  /\ TxSoftReset
  /\ tx_desc' = [i \in Ring |-> [tx_desc[i] EXCEPT !.hw = FALSE]]
  /\ tcontrol' = [TxOff EXCEPT !.ena = TRUE, !.ie = TRUE]
  /\ tx_insert' = 0 /\ tx_remove' = 0
  /\ tx_skbs' = [i \in Ring |-> NoSkb]
  /\ queue_stopped' = FALSE
  /\ dev' = "up"
  /\ UNCHANGED <<tx_queued, xmit, isr, tasklet_sched, tasklet_list,
                 tc, tc_skb>>

-----------------------------------------------------------------------------
(* yatse_start_xmit                                                        *)

\* sch_direct_xmit calls it with a frame when the queue is not stopped; none
\* but this function stops it until dev_close has waited for the scheduler,
\* so that the check and the first locked step are one here.
CanXmit == dev = "up" /\ xmit = "idle" /\ ~queue_stopped /\ ~Locked

\* The descriptor is busy or the ring full: the queue is stopped and the
\* scheduler keeps the frame.
XmitBusy ==
  /\ CanXmit /\ Idle # {}
  /\ tx_desc[tx_insert].hw \/ tx_queued = 2^TX_RING_BITS
  /\ queue_stopped' = TRUE
  /\ UNCHANGED <<hwvars, dev, tx_skbs, tx_insert, tx_remove, tx_queued, xmit,
                 isr, tasklet_sched, tasklet_list, tc, tc_skb>>

\* The descriptor's address and length.
XmitFill ==
  /\ CanXmit
  /\ ~tx_desc[tx_insert].hw /\ tx_queued # 2^TX_RING_BITS
  /\ \E s \in Idle :
        /\ tx_skbs' = [tx_skbs EXCEPT ![tx_insert] = s]
        /\ tx_desc' = [tx_desc EXCEPT ![tx_insert] =
                         [hw |-> FALSE, len |-> Len0[s], skb |-> s,
                          offset |-> Offset0[s], word |-> 0]]
  /\ xmit' = "give"
  /\ UNCHANGED <<tx_desc_curaddr, tx_done, tx_sop, tx_irq_count, tx_irq_done,
                 tcontrol, reads, tx_data_fifo, tx_control_fifo, wire,
                 dev, tx_insert, tx_remove, tx_queued, queue_stopped,
                 isr, tasklet_sched, tasklet_list, tc, tc_skb>>

\* Its status; the queue is stopped with the last free descriptor.
XmitGive ==
  /\ xmit = "give"
  /\ tx_desc' = [tx_desc EXCEPT ![tx_insert].hw = TRUE]
  /\ tx_insert' = RingNext(tx_insert)
  /\ tx_queued' = tx_queued + 1
  /\ queue_stopped' = (queue_stopped \/ tx_queued' = 2^TX_RING_BITS)
  /\ xmit' = "idle"
  /\ UNCHANGED <<tx_desc_curaddr, tx_done, tx_sop, tx_irq_count, tx_irq_done,
                 tcontrol, reads, tx_data_fifo, tx_control_fifo, wire,
                 dev, tx_skbs, tx_remove, isr, tasklet_sched, tasklet_list,
                 tc, tc_skb>>

-----------------------------------------------------------------------------
(* yatse_tx_isr, yatse_tx_timeout                                          *)

TxIrqTaken ==
  /\ tx_irq /\ dev = "up" /\ isr = "idle"
  /\ isr' = "taken"
  /\ UNCHANGED <<hwvars, dev, tx_skbs, tx_insert, tx_remove, tx_queued,
                 queue_stopped, xmit, tasklet_sched, tasklet_list,
                 tc, tc_skb>>

TxIsr ==
  /\ isr = "taken" /\ ~Locked
  /\ IF tcontrol.is
     THEN /\ \E io \in IO : TxEdge("ie_off", io)
          /\ isr' = "schedule"
     ELSE isr' = "idle" /\ UNCHANGED hwvars
  /\ UNCHANGED <<dev, tx_skbs, tx_insert, tx_remove, tx_queued,
                 queue_stopped, xmit, tasklet_sched, tasklet_list,
                 tc, tc_skb>>

tasklet_schedule ==
  /\ tasklet_sched' = TRUE
  /\ tasklet_list' = (tasklet_list \/ ~tasklet_sched)

TxIsrSchedule ==
  /\ isr = "schedule"
  /\ tasklet_schedule
  /\ isr' = "idle"
  /\ UNCHANGED <<hwvars, dev, tx_skbs, tx_insert, tx_remove, tx_queued,
                 queue_stopped, xmit, tc, tc_skb>>

\* dev_watchdog finds the queue stopped for too long.
TxTimeout ==
  /\ dev = "up" /\ queue_stopped
  /\ tasklet_schedule
  /\ UNCHANGED <<hwvars, dev, tx_skbs, tx_insert, tx_remove, tx_queued,
                 queue_stopped, xmit, isr, tc, tc_skb>>

-----------------------------------------------------------------------------
(* yatse_tx_complete, run by tasklet_action                                *)

TcStart ==
  /\ tasklet_list /\ tc = "idle"
  /\ tasklet_list' = FALSE /\ tasklet_sched' = FALSE
  /\ tc' = "check"
  /\ UNCHANGED <<hwvars, dev, tx_skbs, tx_insert, tx_remove, tx_queued,
                 queue_stopped, xmit, isr, tc_skb>>

\* Slip: an empty ring is not noticed.
TcCheckAnyDesc ==
  /\ tc = "check" /\ ~Locked
  /\ tc' = IF ~tx_desc[tx_remove].hw THEN "ack" ELSE "ie"
  /\ UNCHANGED <<hwvars, dev, tx_skbs, tx_insert, tx_remove, tx_queued,
                 queue_stopped, xmit, isr, tasklet_sched,
                 tasklet_list, tc_skb>>

\* The lock, the loop condition and the read of the descriptor's status.
TcCheck ==
  /\ tc = "check" /\ ~Locked
  /\ tc' = IF tx_queued > 0 /\ ~tx_desc[tx_remove].hw THEN "ack" ELSE "ie"
  /\ UNCHANGED <<hwvars, dev, tx_skbs, tx_insert, tx_remove, tx_queued,
                 queue_stopped, xmit, isr, tasklet_sched,
                 tasklet_list, tc_skb>>

TcAck ==
  /\ tc = "ack"
  /\ \E io \in IO : TxEdge("ack", io)
  /\ tc_skb' = tx_skbs[tx_remove]
  /\ tx_remove' = RingNext(tx_remove)
  /\ tx_queued' = tx_queued - 1
  /\ tc' = "free"
  /\ UNCHANGED <<dev, tx_skbs, tx_insert, queue_stopped, xmit, isr,
                 tasklet_sched, tasklet_list>>

\* dev_kfree_skb, outside the lock.
TcFree ==
  /\ tc = "free"
  /\ tc_skb' = NoSkb
  /\ tc' = "check"
  /\ UNCHANGED <<hwvars, dev, tx_skbs, tx_insert, tx_remove, tx_queued,
                 queue_stopped, xmit, isr, tasklet_sched,
                 tasklet_list>>

TcIe ==
  /\ tc = "ie"
  /\ \E io \in IO : TxEdge("ie_on", io)
  /\ tc' = "wake"
  /\ UNCHANGED <<dev, tx_skbs, tx_insert, tx_remove, tx_queued,
                 queue_stopped, xmit, isr, tasklet_sched,
                 tasklet_list, tc_skb>>

\* netif_wake_queue, after the lock was dropped.
TcWake ==
  /\ tc = "wake"
  /\ queue_stopped' = FALSE
  /\ tc' = "idle"
  /\ UNCHANGED <<hwvars, dev, tx_skbs, tx_insert, tx_remove, tx_queued, xmit, isr,
                 tasklet_sched, tasklet_list, tc_skb>>

-----------------------------------------------------------------------------
(* yatse_stop                                                              *)

\* dev_close has waited for the scheduler (external); disable_irq waits for a
\* handler that is running; netif_stop_queue.
StopIrq ==
  /\ dev = "up" /\ xmit = "idle" /\ isr = "idle"
  /\ queue_stopped' = TRUE
  /\ dev' = "quiet"
  /\ UNCHANGED <<hwvars, tx_skbs, tx_insert, tx_remove, tx_queued, xmit, isr,
                 tasklet_sched, tasklet_list, tc, tc_skb>>

StopDma ==
  /\ dev = "quiet" /\ ~Locked
  /\ TxSoftReset
  /\ tcontrol' = TxOff
  /\ dev' = "halted"
  /\ UNCHANGED <<tx_desc, tx_skbs, tx_insert, tx_remove, tx_queued,
                 queue_stopped, xmit, isr, tasklet_sched,
                 tasklet_list, tc, tc_skb>>

\* tasklet_kill: take TASKLET_STATE_SCHED, wait for TASKLET_STATE_RUN.
StopKill ==
  /\ dev = "halted"
  /\ ~tasklet_sched
  /\ tasklet_sched' = TRUE
  /\ dev' = "killing"
  /\ UNCHANGED <<hwvars, tx_skbs, tx_insert, tx_remove, tx_queued,
                 queue_stopped, xmit, isr, tasklet_list, tc, tc_skb>>

\* Slip: tasklet_kill does not wait for a tasklet that runs.
StopKilledNoWait ==
  /\ dev = "killing"
  /\ tasklet_sched' = FALSE
  /\ dev' = "stopped"
  /\ UNCHANGED <<hwvars, tx_skbs, tx_insert, tx_remove, tx_queued,
                 queue_stopped, xmit, isr, tasklet_list, tc, tc_skb>>

StopKilled ==
  /\ dev = "killing" /\ tc = "idle"
  /\ tasklet_sched' = FALSE
  /\ dev' = "stopped"
  /\ UNCHANGED <<hwvars, tx_skbs, tx_insert, tx_remove, tx_queued,
                 queue_stopped, xmit, isr, tasklet_list, tc, tc_skb>>

-----------------------------------------------------------------------------
Clock(io) == TxEdge("none", io) /\ UNCHANGED drvvars
Xmit == XmitBusy \/ XmitFill
Isr == TxIsr \/ TxIsrSchedule
Tasklet == TcStart \/ TcCheck \/ TcAck \/ TcFree \/ TcIe \/ TcWake
Stop == StopIrq \/ StopDma \/ StopKill \/ StopKilled

Next == Open \/ Xmit \/ XmitGive \/ TxIrqTaken \/ Isr \/ TxTimeout \/ Tasklet
          \/ Stop \/ \E io \in IO : Clock(io)

Spec == Init /\ [][Next]_vars

\* Memory takes and answers reads and the MAC takes words; a processor takes
\* an interrupt that stays up; handler, tasklet and yatse_start_xmit run to
\* their end.  Nothing is assumed of the watchdog.
Flowing == [halt |-> FALSE, valid |-> reads # <<>>, ready |-> TRUE]
Fairness ==
  /\ WF_vars(Clock(Flowing))
  /\ WF_vars(TxIrqTaken) /\ WF_vars(Isr)
  /\ WF_vars(Tasklet) /\ WF_vars(XmitGive)

FairSpec == Spec /\ Fairness

-----------------------------------------------------------------------------
Reads == [skb : SKBs, word : Nat]

\* Every variable has its type.
TypeOK ==
  /\ tx_desc \in [Ring -> [hw : BOOLEAN, len : 0 .. 2^LENGTH_BITS - 1,
                           offset : 0 .. BUS_BYTES - 1, word : Nat,
                           skb : SKBs \cup {NoSkb}]]
  /\ tx_desc_curaddr \in Ring /\ tx_done \in BOOLEAN /\ tx_sop \in BOOLEAN
  /\ tx_irq_count \in 0 .. 2^(TX_RING_BITS + 1) - 1 /\ tx_irq_done \in BOOLEAN
  /\ tcontrol \in [ena : BOOLEAN, ie : BOOLEAN, is : BOOLEAN]
  /\ reads \in Seq(Reads) /\ tx_data_fifo \in Seq(Reads)
  /\ tx_control_fifo \in Seq([sop : BOOLEAN, eop : BOOLEAN])
  /\ wire \in [open : BOOLEAN, words : Seq(Reads), broken : BOOLEAN]
  /\ dev \in {"closed", "up", "quiet", "halted", "killing", "stopped"}
  /\ tx_skbs \in [Ring -> SKBs \cup {NoSkb}]
  /\ tx_insert \in Ring /\ tx_remove \in Ring
  /\ tx_queued \in 0 .. 2^TX_RING_BITS
  /\ queue_stopped \in BOOLEAN
  /\ xmit \in {"idle", "give"}
  /\ isr \in {"idle", "taken", "schedule"}
  /\ tasklet_sched \in BOOLEAN /\ tasklet_list \in BOOLEAN
  /\ tc \in {"idle", "check", "ack", "free", "ie", "wake"}
  /\ tc_skb \in SKBs \cup {NoSkb}

Running == dev \in {"up", "quiet"}

Completed == {n \in 0 .. tx_queued - 1 : ~tx_desc[Nth(n)].hw}

\* The count of the interrupt logic, less an acknowledge on its way, is the
\* number of frames the engine is done with and yatse_tx_complete has not
\* taken back (eth_dma.vhd 428-432 against yatse_tx.c 45-56).
TxIrqCountExact ==
  Running => tx_irq_count = Cardinality(Completed)
                              + (IF tx_irq_done THEN 1 ELSE 0)

\* Driver and engine walk the ring in step: tx_queued descriptors lie between
\* tx_remove and tx_insert, the engine is done with the first of them and
\* works on the next, and no descriptor outside is marked for it.
TxRingInStep ==
  Running =>
    /\ tx_insert = (tx_remove + tx_queued) % 2^TX_RING_BITS
    /\ Completed = 0 .. Cardinality(Completed) - 1
    /\ (IF tx_done THEN RingNext(tx_desc_curaddr) ELSE tx_desc_curaddr)
         = Nth(Cardinality(Completed))
    /\ {i \in Ring : tx_desc[i].hw}
         = {Nth(n) : n \in (0 .. tx_queued - 1) \ Completed}

\* The driver's place in the ring, tx_queued and the interrupt count agree with
\* what eth_dma.vhd has done, whoever calls yatse_tx_complete and when.
TxInStep == TxIrqCountExact /\ TxRingInStep

\* A frame the engine may still read from has not been freed and is not being
\* freed.
TxBuffersLive ==
  \A i \in Ring : tx_desc[i].hw => tx_desc[i].skb = tx_skbs[i]
                                     /\ tx_skbs[i] \notin Idle \cup {tc_skb}

\* The words of a buffer of len bytes that begins offset bytes into a word.
WordsOf(s) == (Offset0[s] + Len0[s] + BUS_BYTES - 1) \div BUS_BYTES

\* The MAC is given whole frames: the words of one buffer in order, each one
\* once, between a start and an end mark.
TxFramesWhole ==
  /\ ~wire.broken
  /\ wire.words # <<>> =>
       LET s == wire.words[1].skb
       IN  /\ \A k \in 1 .. Len(wire.words) :
                 wire.words[k] = [skb |-> s, word |-> k - 1]
           /\ ~wire.open => Len(wire.words) = WordsOf(s)

\* A read under way has its place in the data FIFO, which has no full check
\* of its own: the control FIFO, as long as the reads under way and the data
\* words together, bounds it.
DataFifoFits ==
  /\ Len(tx_control_fifo) = Len(reads) + Len(tx_data_fifo)
  /\ Len(tx_data_fifo) <= TX_FIFO_DEPTH

\* What leaves for the MAC is what yatse_start_xmit queued: buffers live until
\* they are read, no read finds its FIFO full, frames are whole.
TxDataSafe == TxBuffersLive /\ DataFifoFits /\ TxFramesWhole

\* When tasklet_kill has returned yatse_tx_complete neither runs nor is going
\* to.
KilledMeansIdle == dev = "stopped" => tc = "idle" /\ ~tasklet_list

\* A stopped queue is eventually woken without the watchdog's help: no
\* interleaving of a full ring, the interrupt and the tasklet loses the
\* wakeup.
QueueWoken == (dev = "up" /\ queue_stopped) ~> (~queue_stopped \/ dev # "up")

\* A frame handed to the engine is eventually freed.
TxFreed ==
  \A s \in SKBs : (dev = "up" /\ s \in Queued)
                     ~> (s \in Idle \/ dev # "up")

\* Transmission goes on: the queue is woken and its frames are freed.
TxLive == QueueWoken /\ TxFreed
=============================================================================
