------------------------------- MODULE YatseRx -------------------------------
(***************************************************************************)
(* The receive side of the yatse driver over the DMA engine of EthDMARx:   *)
(* yatse_rx_isr, yatse_rx_poll under NAPI (net_rx_action), yatse_open and  *)
(* yatse_stop.  The interrupt handler may run on one processor while the   *)
(* poll runs on another; rx_lock is held by the poll in the steps of       *)
(* Locked, and the handler's locked region is one step.                    *)
(***************************************************************************)
EXTENDS EthDMARx

CONSTANTS
  Weight,     \* NAPI weight: frames one call of yatse_rx_poll may deliver
  NoSkb       \* a null sk_buff pointer

ASSUME RxDriverParams == Weight \in Nat \ {0} /\ NoSkb \notin SKBs

\* There are buffers enough for the ring.
ASSUME RxPool == \E f \in [Ring -> SKBs] : \A i, j \in Ring : f[i] = f[j] => i = j

\* No beat of a frame ends where the length in a descriptor does: NET_IP_ALIGN
\* + ETH_HLEN + max_mtu is 1516, and a beat has 8 bytes.
ASSUME RxLenOffBeat == RXLEN % BUS_BYTES # 0

VARIABLES
  dev,          \* how far yatse_open or yatse_stop has come
  rx_pos,       \* next descriptor the driver looks at
  rx_skbs,      \* the skb of every descriptor
  isr,          \* the interrupt was taken, yatse_rx_isr not yet run
  irq_enabled,  \* disable_irq has not been called
  napi_sched,   \* NAPI_STATE_SCHED
  napi_disable, \* NAPI_STATE_DISABLE
  poll_list,    \* the napi context is on a processor's poll_list
  poll,         \* step of yatse_rx_poll
  budget,       \* frames it may still deliver
  old,          \* old_skb and len, the frame to deliver
  free, stack   \* buffers of the allocator, and of the protocol stack

drvvars == <<dev, rx_pos, rx_skbs, isr, irq_enabled, napi_sched,
             napi_disable, poll_list, poll, budget, old, free, stack>>
vars == <<hwvars, drvvars>>

NoFrameUp == [skb |-> NoSkb, len |-> 0]
Blank == [len |-> 0, got |-> {}]

\* yatse_rx_poll holds rx_lock.
Locked ==
  poll \in {"check", "complete", "ie_on", "unlock", "ack", "take", "give"}

\* The poll has called __napi_complete and not yet returned.
Leaving == poll \in {"ie_on", "unlock"}

\* After yatse_probe: netif_napi_add has set NAPI_STATE_SCHED.
Init ==
  /\ rx_desc = [i \in Ring |-> [hw |-> FALSE, error |-> FALSE, len |-> 0,
                                skb |-> NoSkb]]
  /\ rx_desc_curaddr = 0 /\ rx_offset = 0
  /\ rx_running = FALSE /\ rx_done = FALSE
  /\ rx_irq_count = 0 /\ rx_irq_done = FALSE
  /\ rcontrol = RxOff
  /\ mac = NoFrame
  /\ mem = [s \in SKBs |-> Blank]
  /\ dev = "closed"
  /\ rx_pos = 0 /\ rx_skbs = [i \in Ring |-> NoSkb]
  /\ isr = FALSE /\ irq_enabled = TRUE
  /\ napi_sched = TRUE /\ napi_disable = FALSE /\ poll_list = FALSE
  /\ poll = "idle" /\ budget = 0 /\ old = NoFrameUp
  /\ free = SKBs /\ stack = {}

-----------------------------------------------------------------------------
(* yatse_open                                                              *)

\* yatse_rx_alloc_skb (the allocator is external): free buffers are all
\* alike, so which of them it returns does not matter.
FreshSkbs == CHOOSE f \in [Ring -> free] :
               \A i, j \in Ring : f[i] = f[j] => i = j
HwDesc(s) == [hw |-> TRUE, error |-> FALSE, len |-> RXLEN, skb |-> s]

\* yatse_dma_init: reset, a buffer for every descriptor, receive on.  The MAC
\* is still off.
OpenDma ==
  /\ dev = "closed"
  /\ RxSoftReset
  /\ rx_skbs' = FreshSkbs
  /\ rx_desc' = [i \in Ring |-> HwDesc(FreshSkbs[i])]
  /\ free' = free \ {FreshSkbs[i] : i \in Ring}
  /\ rx_pos' = 0
  /\ rcontrol' = [RxOff EXCEPT !.ena = TRUE, !.ie = TRUE]
  /\ dev' = "dma"
  /\ UNCHANGED <<mac, mem, isr, irq_enabled, napi_sched, napi_disable,
                 poll_list, poll, budget, old, stack>>

\* The n-th allocation fails: yatse_dma_free gives the buffers back that were
\* allocated, their descriptors keep the HW bit with receive off.
OpenFails ==
  /\ dev = "closed"
  /\ RxSoftReset
  /\ \E n \in 0 .. 2^RX_RING_BITS :
        /\ rx_desc' = [i \in Ring |-> IF i < n THEN HwDesc(FreshSkbs[i])
                                     ELSE rx_desc[i]]
        /\ rx_pos' = n % 2^RX_RING_BITS
  /\ rcontrol' = RxOff
  /\ UNCHANGED <<mac, mem, dev, rx_skbs, isr, irq_enabled, napi_sched,
                 napi_disable, poll_list, poll, budget, old, free, stack>>

\* yatse_init_mac ends by turning the MAC's receiver on.
OpenMac ==
  /\ dev = "dma"
  /\ dev' = "mac"
  /\ UNCHANGED <<hwvars, rx_pos, rx_skbs, isr, irq_enabled, napi_sched,
                 napi_disable, poll_list, poll, budget, old, free, stack>>

\* napi_enable.
OpenNapi ==
  /\ dev = "mac"
  /\ napi_sched' = FALSE
  /\ dev' = "up"
  /\ UNCHANGED <<hwvars, rx_pos, rx_skbs, isr, irq_enabled, napi_disable,
                 poll_list, poll, budget, old, free, stack>>

-----------------------------------------------------------------------------
(* yatse_rx_isr                                                            *)

\* A processor takes the interrupt: the line is up now, what the handler
\* finds later may differ.
RxIrqTaken ==
  /\ rx_irq /\ irq_enabled /\ ~isr
  /\ isr' = TRUE
  /\ UNCHANGED <<hwvars, dev, rx_pos, rx_skbs, irq_enabled, napi_sched,
                 napi_disable, poll_list, poll, budget, old, free, stack>>

napi_schedule_prep == ~napi_disable /\ ~napi_sched

\* Slip: RXIE goes off although the poll cannot be scheduled.
RxIsrMasksFirst ==
  /\ isr /\ ~Locked
  /\ isr' = FALSE
  /\ IF rcontrol.is
     THEN /\ \E h \in BOOLEAN : RxEdge("ie_off", h)
          /\ napi_sched' = TRUE /\ poll_list' = (poll_list \/ napi_schedule_prep)
     ELSE UNCHANGED <<hwvars, napi_sched, poll_list>>
  /\ UNCHANGED <<dev, rx_pos, rx_skbs, irq_enabled, napi_disable, poll,
                 budget, old, free, stack>>

RxIsr ==
  /\ isr /\ ~Locked
  /\ isr' = FALSE
  /\ IF rcontrol.is /\ napi_schedule_prep
     THEN /\ \E h \in BOOLEAN : RxEdge("ie_off", h)
          /\ napi_sched' = TRUE /\ poll_list' = TRUE
     ELSE UNCHANGED <<hwvars, napi_sched, poll_list>>
  /\ UNCHANGED <<dev, rx_pos, rx_skbs, irq_enabled, napi_disable, poll,
                 budget, old, free, stack>>

-----------------------------------------------------------------------------
(* yatse_rx_poll, called by net_rx_action                                  *)

PollStart ==
  /\ poll = "idle" /\ poll_list /\ napi_sched
  /\ poll' = "check" /\ budget' = Weight
  /\ UNCHANGED <<hwvars, dev, rx_pos, rx_skbs, isr, irq_enabled, napi_sched,
                 napi_disable, poll_list, old, free, stack>>

\* The loop condition and the read of the descriptor's status.
PollCheck ==
  /\ poll = "check"
  /\ poll' = CASE budget = 0 -> "return"
               [] budget > 0 /\ rx_desc[rx_pos].hw -> "complete"
               [] OTHER -> "ack"
  /\ UNCHANGED <<hwvars, dev, rx_pos, rx_skbs, isr, irq_enabled, napi_sched,
                 napi_disable, poll_list, budget, old, free, stack>>

\* __napi_complete: from here on napi_disable may return, rx_lock is still held.
PollComplete ==
  /\ poll = "complete"
  /\ napi_sched' = FALSE /\ poll_list' = FALSE
  /\ poll' = "ie_on"
  /\ UNCHANGED <<hwvars, dev, rx_pos, rx_skbs, isr, irq_enabled, napi_disable,
                 budget, old, free, stack>>

\* RXIE on.
PollIeOn ==
  /\ poll = "ie_on"
  /\ \E h \in BOOLEAN : RxEdge("ie_on", h)
  /\ poll' = "unlock"
  /\ UNCHANGED <<dev, rx_pos, rx_skbs, isr, irq_enabled, napi_sched,
                 napi_disable, poll_list, budget, old, free, stack>>

\* The unlock and the return, which touches nothing shared: net_rx_action
\* leaves a context alone that did less work than its weight.
PollUnlock ==
  /\ poll = "unlock"
  /\ poll' = "idle" /\ budget' = 0
  /\ UNCHANGED <<hwvars, dev, rx_pos, rx_skbs, isr, irq_enabled, napi_sched,
                 napi_disable, poll_list, old, free, stack>>

PollAck ==
  /\ poll = "ack"
  /\ \E h \in BOOLEAN : RxEdge("ack", h)
  /\ poll' = "take"
  /\ UNCHANGED <<dev, rx_pos, rx_skbs, isr, irq_enabled, napi_sched,
                 napi_disable, poll_list, budget, old, free, stack>>

\* The first three writes of yatse_rx_insert_skb; the HW bit stays clear.
InsertSkb(s) ==
  rx_desc' = [rx_desc EXCEPT ![rx_pos] = [HwDesc(s) EXCEPT !.hw = FALSE]]

\* A frame with an error, one longer than the buffer, or no memory for a new
\* buffer: the old buffer goes back and its contents do not count.
PollRecycle ==
  /\ poll = "take"
  /\ InsertSkb(rx_skbs[rx_pos])
  /\ mem' = [mem EXCEPT ![rx_skbs[rx_pos]] = Blank]
  /\ poll' = "give"
  /\ UNCHANGED <<rx_desc_curaddr, rx_offset, rx_running, rx_done,
                 rx_irq_count, rx_irq_done, rcontrol, mac,
                 dev, rx_pos, rx_skbs, isr, irq_enabled, napi_sched,
                 napi_disable, poll_list, budget, old, free, stack>>

\* Slip: the buffer to deliver goes back to the engine.
PollTakeReinserts ==
  /\ poll = "take"
  /\ ~rx_desc[rx_pos].error /\ rx_desc[rx_pos].len <= RXLEN
  /\ free # {}
  /\ LET s == CHOOSE t \in free : TRUE
     IN  /\ InsertSkb(rx_skbs[rx_pos])
         /\ rx_skbs' = [rx_skbs EXCEPT ![rx_pos] = s]
         /\ free' = free \ {s}
  /\ old' = [skb |-> rx_skbs[rx_pos], len |-> rx_desc[rx_pos].len]
  /\ poll' = "give"
  /\ UNCHANGED <<rx_desc_curaddr, rx_offset, rx_running, rx_done,
                 rx_irq_count, rx_irq_done, rcontrol, mac, mem,
                 dev, rx_pos, isr, irq_enabled, napi_sched,
                 napi_disable, poll_list, budget, stack>>

\* A good frame and a new buffer for its descriptor.
PollTake ==
  /\ poll = "take"
  /\ ~rx_desc[rx_pos].error /\ rx_desc[rx_pos].len <= RXLEN
  /\ free # {}
  /\ LET s == CHOOSE t \in free : TRUE
     IN  /\ InsertSkb(s)
         /\ rx_skbs' = [rx_skbs EXCEPT ![rx_pos] = s]
         /\ free' = free \ {s}
  /\ old' = [skb |-> rx_skbs[rx_pos], len |-> rx_desc[rx_pos].len]
  /\ poll' = "give"
  /\ UNCHANGED <<rx_desc_curaddr, rx_offset, rx_running, rx_done,
                 rx_irq_count, rx_irq_done, rcontrol, mac, mem,
                 dev, rx_pos, isr, irq_enabled, napi_sched,
                 napi_disable, poll_list, budget, stack>>

\* The last write of yatse_rx_insert_skb hands the descriptor over; with a
\* frame to deliver the lock is dropped.
PollGive ==
  /\ poll = "give"
  /\ rx_desc' = [rx_desc EXCEPT ![rx_pos].hw = TRUE]
  /\ rx_pos' = RingNext(rx_pos)
  /\ poll' = IF old = NoFrameUp THEN "check" ELSE "deliver"
  /\ UNCHANGED <<rx_desc_curaddr, rx_offset, rx_running, rx_done,
                 rx_irq_count, rx_irq_done, rcontrol, mac, mem,
                 dev, rx_skbs, isr, irq_enabled, napi_sched,
                 napi_disable, poll_list, budget, old, free, stack>>

\* netif_receive_skb, outside the lock.
PollDeliver ==
  /\ poll = "deliver"
  /\ stack' = stack \cup {old.skb}
  /\ old' = NoFrameUp
  /\ budget' = budget - 1
  /\ poll' = "check"
  /\ UNCHANGED <<hwvars, dev, rx_pos, rx_skbs, isr, irq_enabled, napi_sched,
                 napi_disable, poll_list, free>>

\* The budget is used up: net_rx_action keeps the context on its list, or
\* completes it for a napi_disable that waits.
PollReturn ==
  /\ poll = "return"
  /\ poll' = "idle"
  /\ napi_sched' = ~napi_disable /\ poll_list' = ~napi_disable
  /\ UNCHANGED <<hwvars, dev, rx_pos, rx_skbs, isr, irq_enabled,
                 napi_disable, budget, old, free, stack>>

\* kfree_skb: the protocol stack frees a frame it was given when it likes; the
\* memory is anyone's then.
StackFree ==
  /\ \E s \in stack :
        /\ stack' = stack \ {s} /\ free' = free \cup {s}
        /\ mem' = [mem EXCEPT ![s] = Blank]
  /\ UNCHANGED <<rx_desc, rx_desc_curaddr, rx_offset, rx_running, rx_done,
                 rx_irq_count, rx_irq_done, rcontrol, mac, dev, rx_pos, rx_skbs,
                 isr, irq_enabled, napi_sched,
                 napi_disable, poll_list, poll, budget, old>>

-----------------------------------------------------------------------------
(* yatse_stop                                                              *)

\* Both calls of napi_disable: mark, wait for NAPI_STATE_SCHED, take it.
NapiMark == [up |-> "disabling", halted |-> "disabling_again"]
NapiTaken == [disabling |-> "quiet", disabling_again |-> "stopped"]

StopNapiMark ==
  /\ dev \in DOMAIN NapiMark
  /\ dev' = NapiMark[dev]
  /\ napi_disable' = TRUE
  /\ UNCHANGED <<hwvars, rx_pos, rx_skbs, isr, irq_enabled, napi_sched,
                 poll_list, poll, budget, old, free, stack>>

StopNapiWait ==
  /\ dev \in DOMAIN NapiTaken
  /\ ~napi_sched
  /\ dev' = NapiTaken[dev]
  /\ napi_sched' = TRUE /\ napi_disable' = FALSE
  /\ UNCHANGED <<hwvars, rx_pos, rx_skbs, isr, irq_enabled, poll_list, poll,
                 budget, old, free, stack>>

\* disable_irq waits for a handler that is running.
StopIrq ==
  /\ dev = "quiet" /\ irq_enabled
  /\ ~isr
  /\ irq_enabled' = FALSE
  /\ UNCHANGED <<hwvars, dev, rx_pos, rx_skbs, isr, napi_sched, napi_disable,
                 poll_list, poll, budget, old, free, stack>>

\* Slip: yatse_dma_stop without rx_lock.
StopDmaNoLock ==
  /\ dev = "quiet" /\ ~irq_enabled
  /\ RxSoftReset
  /\ rcontrol' = RxOff
  /\ dev' = "halted"
  /\ UNCHANGED <<rx_desc, mac, mem, rx_pos, rx_skbs, isr, irq_enabled,
                 napi_sched, napi_disable, poll_list, poll, budget, old, free,
                 stack>>

\* yatse_dma_stop under rx_lock.  The descriptors keep their HW bits and
\* buffers, and the MAC stays on.
StopDma ==
  /\ dev = "quiet" /\ ~irq_enabled
  /\ ~Locked
  /\ RxSoftReset
  /\ rcontrol' = RxOff
  /\ dev' = "halted"
  /\ UNCHANGED <<rx_desc, mac, mem, rx_pos, rx_skbs, isr, irq_enabled,
                 napi_sched, napi_disable, poll_list, poll, budget, old, free,
                 stack>>

-----------------------------------------------------------------------------
Clock(halt) == RxEdge("none", halt) /\ UNCHANGED drvvars
Frame == dev \notin {"closed", "dma"} /\ MacFrame /\ UNCHANGED drvvars

Poll == PollStart \/ PollCheck \/ PollComplete \/ PollIeOn \/ PollUnlock
          \/ PollAck \/ PollRecycle \/ PollTake \/ PollGive \/ PollDeliver
          \/ PollReturn
Open == OpenDma \/ OpenFails \/ OpenMac \/ OpenNapi
Stop == StopNapiMark \/ StopNapiWait \/ StopIrq \/ StopDma

Next == Open \/ RxIrqTaken \/ RxIsr \/ Poll \/ StackFree \/ Stop \/ Frame
          \/ \E halt \in BOOLEAN : Clock(halt)

Spec == Init /\ [][Next]_vars

\* The clock runs, memory does not stall for ever, a processor takes an
\* interrupt that stays up, the handler and the poll are run to their end.
Fairness ==
  /\ WF_vars(Clock(FALSE))
  /\ WF_vars(RxIrqTaken) /\ WF_vars(RxIsr)
  /\ WF_vars(Poll)

FairSpec == Spec /\ Fairness

-----------------------------------------------------------------------------
Descs == [hw : BOOLEAN, error : BOOLEAN, len : Nat, skb : SKBs \cup {NoSkb}]

\* Every variable has its type.
TypeOK ==
  /\ rx_desc \in [Ring -> Descs]
  /\ rx_desc_curaddr \in Ring /\ rx_offset \in Nat
  /\ rx_running \in BOOLEAN /\ rx_done \in BOOLEAN
  /\ rx_irq_count \in 0 .. 2^(RX_RING_BITS + 1) - 1
  /\ rx_irq_done \in BOOLEAN
  /\ rcontrol \in [ena : BOOLEAN, ie : BOOLEAN, is : BOOLEAN]
  /\ mac \in Frames \cup {NoFrame}
  /\ mem \in [SKBs -> [len : Nat, got : SUBSET Nat]]
  /\ dev \in {"closed", "dma", "mac", "up", "disabling", "quiet", "halted",
              "disabling_again", "stopped"}
  /\ rx_pos \in Ring /\ rx_skbs \in [Ring -> SKBs \cup {NoSkb}]
  /\ isr \in BOOLEAN /\ irq_enabled \in BOOLEAN
  /\ napi_sched \in BOOLEAN /\ napi_disable \in BOOLEAN
  /\ poll_list \in BOOLEAN
  /\ poll \in {"idle", "check", "complete", "ie_on", "unlock", "ack", "take",
               "give", "deliver", "return"}
  /\ budget \in 0 .. Weight
  /\ old \in [skb : SKBs \cup {NoSkb}, len : Nat]
  /\ free \subseteq SKBs /\ stack \subseteq SKBs

Running == dev \notin {"closed", "halted", "disabling_again", "stopped"}
Completed == {i \in Ring : ~rx_desc[i].hw}
\* The driver has acknowledged the descriptor at rx_pos and not yet given it
\* back.
Held == IF poll \in {"take", "give"} THEN 1 ELSE 0

\* The count of the interrupt logic, less an acknowledge on its way, is the
\* number of descriptors the engine completed and the driver has not
\* acknowledged: no completion is lost, none is acknowledged twice, the
\* counter never wraps (eth_dma.vhd 284-288 against yatse_rx.c 92-98).
RxIrqCountExact ==
  Running =>
    rx_irq_count + Held
      = Cardinality(Completed) + (IF rx_irq_done THEN 1 ELSE 0)

\* Driver and engine walk the ring in step: the completed descriptors are
\* those from rx_pos up to the one the engine works on.
RxRingInStep ==
  Running =>
    LET hwpos == IF rx_done THEN RingNext(rx_desc_curaddr)
                 ELSE rx_desc_curaddr
        Ahead(i) == (i + 2^RX_RING_BITS - rx_pos) % 2^RX_RING_BITS
    IN  /\ hwpos = (rx_pos + Cardinality(Completed)) % 2^RX_RING_BITS
        /\ \A i \in Completed : Ahead(i) < Cardinality(Completed)

\* The driver's place in the ring and the interrupt count both agree with what
\* eth_dma.vhd has done, at every clock between yatse_open and yatse_stop.
RxInStep == RxIrqCountExact /\ RxRingInStep

\* A buffer the engine may write to (its descriptor has the HW bit) belongs
\* to that descriptor alone: it is not free, not with the protocol stack, not
\* being delivered, and in no other descriptor.
RxBuffersPrivate ==
  dev # "closed" =>
    \A i \in Ring : rx_desc[i].hw =>
      /\ rx_desc[i].skb \notin free \cup stack \cup {old.skb}
      /\ \A j \in Ring : rx_desc[j].hw /\ rx_desc[j].skb = rx_desc[i].skb
                          => i = j

\* What the protocol stack is given is the whole frame as the MAC presented
\* it, with its length, and stays so while the stack has it.
DeliveredIntact ==
  /\ \A s \in stack \cup ({old.skb} \ {NoSkb}) :
        mem[s].got = Beats(mem[s].len)
  /\ old # NoFrameUp => old.len = mem[old.skb].len

\* yatse_rx_poll and the engine never share a buffer, and frames arrive whole.
RxBuffersSafe == RxBuffersPrivate /\ DeliveredIntact

\* When napi_disable has returned in yatse_stop no poll is scheduled, and one
\* that still runs has left the ring and the buffers: it only turns RXIE on and
\* drops rx_lock (yatse_rx.c 93-147).  When yatse_dma_stop is done not even that
\* is to come: no poll, no handler, and RXIE stays off.
StoppedMeansQuiet ==
  /\ dev \in {"quiet", "halted", "disabling_again"} =>
       ~poll_list /\ (poll = "idle" \/ Leaving)
  /\ dev \in {"halted", "disabling_again"} =>
       poll = "idle" /\ ~isr /\ ~rcontrol.ie

\* A descriptor the engine has filled is eventually given back to it: no
\* interleaving of the interrupt, the poll and the next frame leaves a
\* completed frame in the ring with the interrupt off.
RxServed ==
  \A i \in Ring : (dev = "up" /\ ~rx_desc[i].hw)
                     ~> (rx_desc[i].hw \/ dev # "up")

\* A frame the MAC presents is eventually taken, also when it finds the ring
\* full.
FrameTaken == (dev = "up" /\ mac # NoFrame) ~> (mac = NoFrame \/ dev # "up")

\* Reception goes on: neither the driver's interrupt and poll nor the engine
\* leaves a frame behind.
RxLive == RxServed /\ FrameTaken
=============================================================================
