# Verification of the Z4800 multiprocessor

The Z4800 is a MIPS-compatible soft processor in VHDL. Up to four of them, and
two DMA bridges, share one memory on a DE2-115 board through a snooping bus, and
run Linux. This directory holds TLA+ models of the parts of that system in which
several actors meet: the coherent memory, the interrupt router with the kernel
code above it, the TLBs with theirs, and the Ethernet DMA engine with its
driver; the TLC configurations that check them; and TLAPS proofs about them.

Paths below are relative to the repository (`src/`); `z4800/` stands for
`core/hdl/z4800/`, `yatse/` for `z4800-kernel/drivers/net/yatse/`.

## 1. Inventory

| Component | State | Operations | Interacts through |
|---|---|---|---|
| Snoop arbiter (`z4800/snoop_arbit.vhd`) | rotor, rotvec, frozen grant | one clock: rotate, grant, freeze on wait | request, grant and wait wires |
| Snoop bus (`core/projects/de2_115_smp/prj_de2_115_smp.vhd`) | none; wires | tri-state request, open-drain answers | all agents |
| Cache controller (`z4800/z48cc.vhd`) | 26-state machine, miss register, transfer, writeback FIFO, L2 tags and data | one state per clock; snoop answers | bus; L1 tag and data ports; memory port |
| L1 caches (`z4800/l1.vhd`, `z48cc_restart.vhd`, `z48cc_glue.vhd`) | tags and data (two RAM ports and a snoop copy), request registers, LL link, restart bitmap | load, store, ll, sc, fetch, kill, cache operation | pipeline; controller |
| DMA bridge (`core/hdl/ccdma/ccdma.vhd`) | one line address and its state, six-state machine, read counter | read, write, snoop | bus; memory |
| TLBs (`z4800/jtlb.vhd`, `utlb.vhd`, `cop0.vhd`) | joint and micro entries, state machines | lookup, fill, write, probe, flush | L1, cop0 |
| Kernel TLB code (`z4800-kernel/arch/mips/mm/tlbex.c`, `tlb-r4k.c`) | page tables | refill, update, flush | TLB instructions |
| Interrupt router, mailbox (`z4800/zirqrouter.vhd`, `mbox.vhd`) | route, mask, per-processor flags | route, mask, set, read-to-clear | processors |
| Kernel interrupt and SMP code (`z4800-kernel/arch/mips/z48soc/`, `kernel/irq/`, `kernel/smp.c`, `core/boot/boot_secondary.S`) | descriptor status and depth, call queues, online maps | dispatch, disable, enable, boot, call, wake up | router, mailboxes |
| Ethernet DMA (`core/hdl/eth_dma/eth_dma.vhd`) | two rings, FIFOs, interrupt counts, control registers | receive, transmit, acknowledge, reset | MAC, memory, driver |
| Ethernet driver (`yatse/`) | ring positions, NAPI and tasklet state | open, stop, interrupt, poll, xmit, complete, timeout | engine, network stack |
| Queues (`z4800/z48iqueue.vhd`, `z48rqueue.vhd`) | circular buffers | push, pop, flush | fetch and issue |
| Memory-side cache (`z4800/ecache.vhd`) | tags, data, state machine | read, write, refill, writeback | memory controller |
| Clock crossing (`core/hdl/fast_cc/fast_cc.vhd`, `z4800/fifo.vhd`) | FIFOs | request, response | two clocks |
| Divider, replacement, prediction, peripherals, debug | see `PROJECT.json` | | |
| Rest of `z4800-kernel/` | a vendored Linux tree | | not part of this project's logic |

What is hard in this code:

* **Interleaving.** Six state machines run in lock step and meet only on the
  bus. Each may be snooped in every state, while its own request is waiting,
  on the bus, or being answered. Above them interrupt handlers, polls, tasklets
  and tasks of several processors meet on registers that the hardware changes
  at the same time.
* **Stale copies.** A tag write is seen by the processor's and the snoop port two
  clocks later; micro TLBs hold copies of the joint TLB and of its misses; a
  processor dispatches interrupts from flags it read earlier.
* **Ordering.** A dirty line leaves the tags before it reaches memory; a
  descriptor is rewritten in four steps while the engine watches one bit of it.
* **Abandoned work.** A snoop that needs attention cancels the controller's own
  miss, whose victim then stays locked in its way; a killed access leaves the LL
  link as it was.
* **Lost wake-ups.** Interrupts are counted in hardware and acknowledged in
  software in the same clock; a call to another processor sends no interrupt if
  one should be under way already.
* **Liveness.** The answering agents stop the bus with `wait`; nothing they do
  meanwhile may need the bus. Two processors may call each other and wait.

The hazards are listed one by one, with their lines and the properties that
cover them, in `PROJECT.json`.

## 2. Modules

| Module | Models |
|---|---|
| `CacheState` | line states, lock bit and their tests (`z48common.vhd`) |
| `SnoopArbit` | the arbiter |
| `ArbitEnv` | the arbiter alone, under every load; counts how long one request stands |
| `SnoopBus` | the wires, the request and snoop pipeline registers |
| `L1Cache` | one set of the L1 data and instruction caches: hits, misses, early restart, LL/SC, the miss selection of the glue |
| `Z48CC` | the controller: one operator per state of the source, data path, FIFO, memory port, snoop answers |
| `CCDMA` | the DMA bridge, its read counter and the master behind it |
| `SMP` | the composition, its fairness and its properties |
| `Coherence` | abstract specification: permissions and stores |
| `SMPRefinement` | the mapping under which `SMP` implements `Coherence` |
| `EthDMARx`, `EthDMATx` | the two halves of the Ethernet DMA engine, one clock edge each |
| `YatseRx`, `YatseTx` | the driver's two halves, each over its engine |
| `ZIrqRouter` | the interrupt router |
| `LinuxIRQ` | dispatch, level interrupts, `disable_irq` and `enable_irq`, over the router |
| `LinuxSMP` | mailboxes, boot of the secondaries, function calls and wake-ups, over `LinuxIRQ` |
| `JTLB` | joint TLB, both micro TLBs and the TLB instructions of one processor |
| `LinuxTLB` | refill handler, `__update_tlb` and `local_flush_tlb_page`, over `JTLB` |
| `MCSMP`, `MCYatseRx`, `MCYatseTx`, `MCLinuxSMP`, `MCLinuxTLB` | definitions for TLC |
| `ArbitProofs`, `SMPProofs`, `CoherenceProofs`, `LinuxSMPProofs`, `LinuxTLBProofs`, `YatseRxProofs`, `YatseTxProofs` | theorems about the module of that name, see section 4 |
| `NumberLemmas` | the arithmetic those proofs share: places on a ring, remainders, least numbers |

An operator whose comment begins with "Slip" is the wrong form of the definition
below it, a plausible mistake in that code; `PROJECT.json` (`mutants`) says
which property it breaks. No specification uses one.

### 2.1 The coherent memory

**Time.** All agents share one clock. A clock cycle is a *round*: `bus` holds the wires
of the cycle, each agent takes its clock edge in turn (`turn`) from its own
registers and `bus` alone, and `Settle` clocks the arbiter and computes the
wires of the next cycle. No agent reads a register of another one, so the order
within the round cannot be observed; this keeps the number of states small
without losing an interleaving that the hardware has.

Memory is the one exception: it is shared, and which of two agents it serves
first within a clock is decided by the order of the round. As memory may also
make any agent wait for any number of clocks, every order is still covered.

**State.**

* `st` is the state variable of the process at `z48cc.vhd:401`; `mshr` the record
  of that name, with `oldaddr` apart because it outlives the miss; `inv` is
  `invact`, its address, `explicit_inv` and the way being written back; `run` is
  `transfer.run`.
* `tag` is what the controller has written, `rtag` the RAM and `xtag` the output
  of the other two ports. The controller's own port is stalled on the address it
  works on and sees `tag`.
* `dreq`/`ireq` are `c_req(1)` of the two L1 caches. A new request may appear in
  any clock in which the port is free.
* `link.v` is `LLlocal` and `LLbit`, `link.wait` says that the LL that set them
  still waits for its line. As in `l1.vhd:734`, `c_kill` keeps the link: an access
  annulled by a branch-likely or an exception, and an SC that fails, which raises
  `c_kill` itself (`z48pipe.vhd:498`). One kill drops it: an LL that has waited at
  least a clock is killed by an exception only, whose `eret` clears `LLbit`.
  `link.lost` is a history variable, as is `last`, the value last stored to each
  line.
* A failed `PARANOID` check (and only that) leads to `s_bug`, where the
  controller stops for good as the source does.

**Abstractions.**

* A block is one value. The move of its words is one edge followed by any number
  of clocks, and early restart is possible as soon as the move is done.
* One set of each L1 cache. Different sets share nothing but the controller,
  which serves one request at a time.
* L2 is direct-mapped (its replacement would only choose another victim) and all
  lines in the model fall in one L2 set.
* The replacement algorithm may name any way; `rr_prio` may pick either port.
* Translation is done: requests carry physical, cacheable addresses. The uncached
  path is not modelled.
* Reset is the initial state: all tags INVALID, after `s_reset1` and `s_reset2`.
* `hit_inv` discards a dirty line by design; `last` then falls back to what
  memory holds.
* Memory takes accesses in order, so a read of the bridge has its data when
  memory takes it; the answer comes any number of clocks later and is counted by
  `read_count`.

### 2.2 Ethernet: engine and driver

One step is one clock edge of the engine, or one access of the driver to a
register, a descriptor or a flag another actor looks at. An access to a control
register happens in the clock edge that carries it (`RxEdge("ack", ...)`), so a
completion and an acknowledge in one clock are covered. `isr` is an interrupt a
processor has taken and whose handler has not yet run; handler and poll may run
on different processors, and exclude each other by `rx_lock` (`Locked`). The end
of a poll is three steps, `__napi_complete` (`PollComplete`), the write of RXIE
(`PollIeOn`) and the unlock (`PollUnlock`): `napi_disable` waits for the state
bit only and may return between them, so `yatse_stop` has to take `rx_lock` before
`yatse_dma_stop` (`StopDma`).
NAPI (`napi_schedule_prep`, `__napi_complete`, `net_rx_action`, `napi_disable`)
and tasklets (`tasklet_schedule`, `tasklet_action`, `tasklet_kill`) are modelled
by their state bits. A frame is its length and whether the MAC marks it bad; a
buffer records which beats of which frame it holds. The transmit wire records
the words the MAC has taken.

External: the MAC (store and forward: a frame once begun comes without gaps),
the allocator (it may fail at any call) and the network stack (it frees a frame
at any time). Left out: the byte shifter `eth_align`, which keeps the order and
borders of words, PHY and MDIO, ethtool, probe and remove.

### 2.3 Interrupts, mailboxes and function calls

One step is one clock of a routing machine, one register access, or one region
under a lock. A processor's interrupt context is `irq_pc` with `cascade`, the
flags it read and has not dispatched; a cascade nests once, in the softirqs at
the end of an interrupt. `task` is what runs outside of interrupts. A workload
(`Works`) says which tasks there are; without it every processor would do
everything and the state space would be out of reach. `csd`s are the caller's
own or the one on its stack. External: devices, which raise their line at any
time and drop it when handled.

Left out: `smp_call_function_many` (the processor's queue is the single one),
affinity, `free_irq`, shared handlers, the timer, and starting a
processor that never answers.

### 2.4 TLBs

One step is one clock of cop0, joint TLB and micro TLBs together, or one step of
the kernel between TLB instructions. Ports look up pages in any clock. Page table
entries change at any time, also again before or during their flush (`SetPte`);
whoever changes one has it flushed on this processor afterwards, and `unflushed`
holds what is not flushed yet. A flush of an entry that has not changed is left
out, as it only adds states. Registers
nobody reads any more are reset, which only merges states.

Left out: address space identifiers (one address space), `tlbr`, large pages, the
imprecise flush, more than one way per micro TLB, flushes of ranges, wired
entries.

## 3. Runs

| Run | Instance | Properties |
|---|---|---|
| `smp_refines` | 2 processors, 1 line; store, LL, SC, hit_inv, idx_wb_inv; kills | `TypeOK`, `Coherent`, `DataCurrent`, `ScAtomic`, `ImplementsCoherence` |
| `smp_three` | 3 processors, rotor of 4 values | `Coherent`, `OneDriver` |
| `smp_evict_l2` | 2 processors, 2 lines on 1 way and 1 L2 set | `Coherent`, `DataCurrent` |
| `smp_dma` | 1 processor with hit_wb, 1 bridge, 1 line, 2 outstanding reads, fair | `Coherent`, `DataCurrent`, `ReadsFit`, `AccessServed`, `DMAServed` |
| `smp_live` | 2 processors with instruction caches, 1 line, fair | `Coherent`, `AccessServed`, `FetchServed` |
| `arbit6` | 6 agents, 3-bit rotor, any load | `BoundedWait` |
| `yatse_rx` | ring of 2, 3 buffers, frames shorter than a beat, of exactly the buffer, too long and bad; fair | `TypeOK`, `RxInStep`, `RxBuffersSafe`, `StoppedMeansQuiet`, `RxLive` |
| `yatse_tx` | ring of 2, FIFOs of 1 word, 3 frames on and off word borders; fair | `TypeOK`, `TxInStep`, `TxDataSafe`, `KilledMeansIdle`, `TxLive` |
| `irq_smp` | 2 processors, 2 interrupts, 2 workloads; fair | `TypeOK`, `IrqSafe`, `IpiSafe`, `LineServed`, `CallRuns`, `AllBoot` |
| `tlb` | 2 JTLB entries, 2 mapped page pairs and kseg0, 2 sets; fair | `TypeOK`, `TlbCoherent`, `NoStaleTranslation`, `PortsAnswered`, `InstructionFinishes` |
| `ccdma_request_lost` | 2 processors, 1 bridge | `DMASeesLastStore` violated |
| `idx_wb_two_dirty` | 2 processors, 2 ways, 2 lines | `RefillsSeeLastStore` violated |

Several properties are conjunctions, so that every run checks all that concerns
its instance:

* `Coherent` = `NoMachineCheck`, `SingleWriter`, `OneCopyPerCPU`;
  `DataCurrent` = `LoadsSeeLastStore`, `RefillsSeeLastStore`, `DMASeesLastStore`,
  `NoStoreLost`.
* `RxInStep` = `RxIrqCountExact`, `RxRingInStep`; `RxBuffersSafe` =
  `RxBuffersPrivate`, `DeliveredIntact`; `RxLive` = `RxServed`, `FrameTaken`.
* `TxInStep` = `TxIrqCountExact`, `TxRingInStep`; `TxDataSafe` = `TxBuffersLive`,
  `DataFifoFits`, `TxFramesWhole`; `TxLive` = `QueueWoken`, `TxFreed`.
* `IrqSafe` = `HandlerExclusive`, `NeverStuckMasked`, `DisabledMeansIdle`;
  `IpiSafe` = `QueueHasIpi`, `CsdOnce`, `CallsOnlineOnly`, `WakeUpKept`.
* `TlbCoherent` = `NoDoubleMatch`, `UtlbCoherent`; `PortsAnswered` =
  `DataAnswered`, `FetchAnswered`.

Distinct states: `smp_three` 2.1 M, `smp_refines` 590 k, `smp_evict_l2` 540 k, `tlb`
360 k, `yatse_rx` 390 k, `yatse_tx` 150 k, `smp_dma` 100 k, `smp_live` 72 k, `irq_smp`
60 k, `arbit6` 13 k; each run takes between ten seconds and four minutes.

**Why the bounds are enough to be interesting.**

* *Memory.* Two agents produce every race between a requester and an answerer;
  three are needed for two answerers with different delays and for a third
  requester during a wait. One line suffices for the races on a line; two lines
  on one way force evictions in every state, with the FIFO and L2 in use. Two
  values tell a stale copy from a current one; `smp_three` and `smp_live` check
  control with one value, so there `DataCurrent` is not asked. `MAX_READS` = 2
  lets the counter rise, fall, do both in one clock, and reach its end. Lines
  and values are symmetric. Of the cache operations each run has those that fit
  its size; `hit_wb_inv` is what every exclusive snoop of a dirty line starts, so
  no port issues it. Ports issue requests for ever. A bridge that changes
  lines is not covered by a passing run: with two lines the fair state space is
  too large.
* *Ethernet.* A ring of two is empty, half full and full, and wraps every other
  frame; with three buffers the allocator can run dry. The weight of 1 makes the
  budget run out with every delivered frame. A one-word FIFO is at its limit
  with every read. The four-bit length wraps for the unaligned frame as the
  real one does.
* *Interrupts.* Two processors; one workload has two interrupts meeting on one
  processor while one of them is disabled, the other has both processors
  disabling one interrupt, calling each other with and without waiting, and
  waking each other up.
* *TLB.* The data port uses a page that changes and one of kseg0 that share a set
  of its micro TLB; the instruction port another mapped page. Two entries make
  every `tlbwr` replace something. `Changing` bounds which entry changes.

**Fairness.**

* `SMP`: the clock runs (`WF_vars(Next)`); memory does not halt an agent that
  keeps asking for ever, answers reads, and a transfer that has data moves in the
  end (`SF`, because whether memory is needed changes while it is waited for). No
  fairness is assumed of the arbiter, the bus or the state machines beyond the
  clock: that they serve everyone is what is shown. `AccessServed` and
  `FetchServed` exclude the other port of the same processor, because `rr_prio`
  toggles with the clock and promises nothing between the two.
* `YatseRx`, `YatseTx`: the clock runs and memory and MAC do not stall for ever;
  a processor takes an interrupt that stays up; handler, poll, tasklet and
  `yatse_start_xmit` run to their end. Nothing is assumed of the watchdog, of
  open and stop, or of new frames.
* `LinuxSMP`: the router's clock runs; a processor goes on in an interrupt, in
  the boot ROM and in `start_secondary`; tasks and softirqs that are interrupted
  again and again move in between (`SF`). Nothing is assumed of devices, nor of
  what tasks begin, except that CPU 0 starts the others.
* `LinuxTLB`: the clock runs and the kernel goes on with what it began.

**Arbiter.** `rotor` is declared `range 0 to NAGENTS - 1` and incremented without
a wrap, so the hardware wraps it at a power of two, while `rotvec` turns modulo
`NAGENTS`. For 4 agents the two agree. For the board's 6 they drift apart:
the grant may go to an agent that did not ask or to none. `arbit6` shows that
this costs clocks only: a request that stands is granted within 24 clocks in
which the bus does not wait (the bound is tight). `WaitSafety` proves it for
every number of agents: the two counters agree again after every common multiple
of their periods.

### What the violations show

* `ccdma_request_lost`: the bridge clears its output enables at every clock
  (`ccdma.vhd:199`), the controller only when the bus does not wait
  (`z48cc.vhd:482`). A bridge request that meets a wait disappears before
  anyone samples it; when the wait ends the bridge takes the missing `share`
  answer for "nobody has it" and reads memory behind a MODIFIED copy. It needs
  three agents: one that asks, one that waits, and the bridge.
* `idx_wb_two_dirty`: an index writeback of two dirty ways sets `mshr.oldaddr` to
  the second one (`z48cc.vhd:943`) while the first is in the FIFO; `s_fifowait`
  no longer recognises the first and lets a refill read memory too early. A
  build with `NO_WRITEBACK_SNOOPING` makes every snoop wait for the FIFO.

### Observations

Met while modelling; no comment or document of the repository says otherwise, so
they are not findings, or they do not change what the properties speak about.

* *Caches.* The icache share hint is inverted against its description
  (`z48cc_glue.vhd:159`, `z4800_hw.tcl:183`): `HINT_ICACHE_SHARE` true suppresses
  it. Coherence is not affected; `smp_live` runs with the constant off, that is,
  with the hint given.
* *Driver, stop.* `yatse_stop` calls `napi_disable` twice (`yatse/yatse_drv.c:261`
  and `282`) with no `napi_enable` between; the second call never returns, so the
  model never reaches `"stopped"` on the receive side. Buffers are not freed on
  stop, `disable_irq` is never undone, `tx_queued` is not reset by open, and
  `netif_wake_queue` may still follow `netif_stop_queue`.
* *Driver, open.* The interrupt enable goes on before `napi_enable`: a frame in
  between makes the interrupt come back until then. A failing PHY or MAC
  initialisation leaves the DMA on.
* *Engine, receive.* `rx_len_hit` tests for equality; with an 8 byte bus and a
  length of 1516 it is never true, and a longer frame is written past its
  buffer, which the driver notices afterwards. With a length that is a multiple of
  the bus width it would be true one clock early while memory halts the last
  beat, and the descriptor would be given back with a beat missing; TLC shows
  `RxBuffersSafe` violated there, so the model assumes the length the driver
  uses (`RxLenOffBeat`). A write is not gated by `RXENA`.
  Frames with errors do not use up the poll's budget.
* *Engine, transmit.* A frame is given back when its last read is issued, not
  when it has been answered. That is safe as long as memory serves a read it has
  taken before any later write; `TxBuffersLive` is about reads not yet issued.
* *Router.* `cpu + 1` wraps at a power of two only; an interrupt may be handed to a
  processor that has not been started. A processor takes its mailbox (IP3) before
  the router's line, and the router waits for it, which is why `LineServed` has
  its last escape.
* *TLB.* `do_nack` raises `cop_ack` also for cop0 (`jtlb.vhd:205`), so `cop_nack` is
  never seen, bit 31 of `Index` is never set, and the `idx < 0` branches of the
  kernel are dead: after a probe that fails the kernel overwrites the entry the
  last probe or write left in `ent_addr`. The properties hold all the same,
  since any entry may be replaced. With `CAM_LATENCY` 0 the CAM would be read
  too early (hence `TlbParams`).

## 4. Proofs

Each theorem is about the specification the runs check, for every value of its
constants. Every invariant is the conjunction of named parts; TLC has checked each
inductive invariant on the instances of the runs. The parts are grouped in layers,
where a later layer is proved from the earlier ones, which keeps each proof to
one lemma per action.

* `ArbitProofs`. `ArbitTypeSafety`: the registers stay in range, for any number
  of agents and rotor width.
  `WaitSafety`: with any rotor, `BoundedWait` holds if the bound exceeds a common
  multiple m of the two periods. A clock is due when
  the watched agent has the highest priority and the rotation is undone for it
  (`Due(0)`): then it is granted if it asks. `AgeInv` says that a due clock is k
  clocks without wait ahead, and that the age and k together are at most m.
* `SMPProofs`. `OneDriverSafety`: at a clock boundary at most one agent drives
  the request wires, for any instance of `SMP`. The inductive invariant
  `DriveInv` speaks about the middle of a round: if the bus waits, drivers only
  keep what they have; if not, the agents that have had their edge drive only if
  they were granted, and the others are at most one. It uses one lemma per kind
  of agent (`ControllerDrive`, `BridgeDrive`) that sums up what all its states do
  to the enables. `ReadsFitSafety`: the read counter of every bridge stays
  between 0 and `MAX_READS`; it is inductive once stated of the counters as one
  function (`ReadsInv`).
  `SMPTypeSafety`: `TypeOK`. It is not inductive: what a state writes to tags,
  FIFO, memory and bus has its type only because of what earlier states left in
  the registers. `ControllerInv` (`Fits`) says for every state of the controller
  which of the miss register, the invalidation and the victim's address it may
  rely on, that an entry that is not INVALID has an address, and that L2 holds no
  locked entry; `BridgeInv` that a bridge asks for the bus only with an access
  its line does not cover. `ControllerMoves` sums up a clock of the state
  machine, with one lemma per group of states.
  `CoherentSafety`, for any number of processors and any geometry of the caches,
  without bridges: `Coherent`. What has to be exclusive is what a snoop port
  *answers for* (`Sees`): the tags as they leave the two stages of the tag
  pipeline, or the miss register once its request has been answered. Those lag
  behind the tags, so the invariant `CohInv` has a part per controller
  (`LocalInv`): a line is in one place (`OneCopy`), what the tags hold the delayed
  tags or the miss register hold too (`Covered`), and each state of the state
  machine knows what is in the pipeline and which ways it has locked; and a part
  per pair: who asks drives the wires (`AsksDriven`, `WireDriven`), the other
  controllers have sampled that request or will at their edge of this round
  (`WireSampled`, `Heard`), the asker's own snoop register is masked
  (`OwnMasked`), and when the bus stops waiting everyone has given up what was
  asked for (`Granted`). From these, `OneWriter` is preserved by every
  edge: a line becomes writable only in the clock in which an answer is taken.
  `ImplementsCoherenceSafety`: under the same hypotheses every step is a step of
  `Coherence` or a stutter, so `CoherenceProofs` speaks about every
  multiprocessor without bridges.
  `ScAtomicSafety`: `ScAtomic`. The invariant adds `LinkInv`: a link whose
  LL has completed asks the bus for nothing that is still open, and after a foreign
  store the linked line is not dirty in any stage of the pipeline and not asked
  for (`LinkQuiet`). So an SC misses and fails, however many killed accesses and
  failed SCs have kept the link; to bring the line back takes a load, a store
  or an LL that is not killed, and each of them drops the link or sets it anew.
  `DataCurrentSafety`: `DataCurrent`, loads, fetches, refills and memory itself.
  `DataInv` adds to the two invariants above, per controller: which L1 way
  and which L2 set must hold the last store to a line (`Claims`, `L2Claims`), from
  the moment a transfer has moved the block, not from when the tags say so
  (`DataRight`); what the FIFO holds is no longer writable in any stage of the
  pipeline (`FifoClean`); a dirty line that a port still sees is dirty in the tags
  too, is being copied by an invalidation, or is being dropped by `hit_inv`
  (`PipeDirty` in `CtlInv`); and the FIFO's block is at `mshr.oldaddr` or the
  snoop that waits is (`FifoAddr`). Between controllers: memory has the last
  store unless someone holds it dirty or in a FIFO (`MemRight`), nobody else
  sees a line that is in a FIFO (`FifoRight`), and a request that is granted finds
  its line in no FIFO (`WaitDriven`, `FifoGranted`). A clock is first reduced to
  what it does to tags (`TagStep`), control (`CtlStep`) and data (`DataStep`), one
  lemma per group of states; the rest of the proof uses those three only.
* `CoherenceProofs`. The abstract memory has one writer or many readers, and a
  holder never misses a store. `ImplementsCoherenceSafety` carries both over to
  the multiprocessor.
* `LinuxSMPProofs`, for any number of processors, interrupts and workloads.
  `TypeSafety`, `IrqSafety`, `IpiSafety`. Layers: control state (`StackInv`,
  `ControlInv`: a processor is between the halves of `handle_level_irq` exactly
  while the interrupt is in progress); `IrqInv` (the depth counts the tasks that
  have the interrupt disabled; mask, depth and progress fit together); `BootInv`
  (a processor that is not online sleeps with an empty mailbox, unless it is the
  one being started); `CallInv` and `CsdInv` (calls and wake-ups are for online
  processors; a csd is queued or on a handler's list, once).
* `YatseRxProofs`, for any ring, bus width, buffer length off the beat, frames and
  allocator. `RxTypeSafety`, `StopSafety`, `RxStepSafety`, `RxBufferSafety`.
  `StopSafety` says that after `napi_disable` a poll at most turns RXIE on and
  unlocks, and after `yatse_dma_stop` not even that is to come.
  Layers: types; control (`NapiInv`, `StopInv`, `PollInv`, `FrameInv`, `ClosedInv`, and
  `OwnerInv`: every buffer is with the ring, the allocator, the stack or the
  poll); `RingInv` (the distance between the driver's and the engine's place is
  the number of completions not yet acknowledged or counted, stated without
  remainders); `ContentInv` (which beats of which frame a buffer holds).
* `YatseTxProofs`, for any ring, FIFO depth, bus width and frames. `KilledSafety`,
  `TxStepSafety`, `TxTypeSafety`, `TxDataSafety`. The first layer has control
  state, ring, owners and `WordInv` (only the frame the engine is in has been
  begun); the second follows the words from the descriptors to the MAC: the
  reads under way and the data FIFO, taken together (`Stream`), are whole frames
  up to where the engine is, each with the control word that marks it.
* `LinuxTLBProofs`, for any size of the TLBs. `TlbTypeSafety`, `TlbCoherence`,
  `StaleSafety`. The control part ties the joint TLB's state to the request it
  serves (`JInv`, `RequestInv`, `UInv`, `KernelInv`). The content part says what
  a probe has found so far (`ProbeInv`), that a micro TLB may differ from the
  joint TLB only in sets that are still to be flushed (`SetInv`), and what the
  kernel knows of the entries for its address (`TargetInv`), which is why a refill
  without a probe makes no second entry.

**Assumptions** are those named in the modules; TLC evaluates each of them on every
run that uses the module. Most say what a constant is. The others:

* `RxRingSize`, `TxRingSize`, `TxLengthSize`: facts about powers of two, which
  the provers do not know of `^`;
* `RxPool`: there are at least as many buffers as descriptors, without which
  `yatse_open` fails and the system never starts;
* `RxLenOffBeat`: the buffer length is no multiple of the bus width. The driver
  writes `NET_IP_ALIGN + ETH_HLEN + max_mtu` = 1516, the bus has 8 bytes. The
  theorem is false without it (see Observations);
* `TxLenFits`: a frame with its offset is shorter than the length register can
  hold, 65535 bytes;
* `TlbPages`, `NoneParam`, `NoFrameParam`, `RequestAssumption`, `NoneAssumption`:
  model values are distinct (the last two: `None` is no request of the snoop bus,
  no invalidation and no block in a FIFO).

Four theorems have hypotheses about the instance.
`CoherentSafety`, `ImplementsCoherenceSafety`, `ScAtomicSafety` and
`DataCurrentSafety` assume `DMAs = {}` and `NAGENTS >= 2`. With a bridge beside two
processors `Coherent` is false (run `ccdma_request_lost`); a processor alone on the
bus gets no acknowledge, and its first miss ends in the machine check of
`z48cc.vhd`. The instances of `smp_refines`, `smp_three`, `smp_evict_l2` and
`smp_live` satisfy both.
`DataCurrentSafety` also assumes `NO_WRITEBACK_SNOOPING` (a generic of
`z48cc.vhd`, off by default) or `OneDirtyWay`: no index writeback is issued, or the
data cache has one way. That is what keeps `mshr.oldaddr` at the block in the
FIFO, and exactly what the run `idx_wb_two_dirty` does without: there the property
is false. `smp_refines` and `smp_evict_l2` satisfy it.

**Only model-checked.** `Coherent` and `DataCurrent` on instances with a bridge
(`smp_dma`); beside two processors a bridge breaks them (`ccdma_request_lost`), so
a proof would be about one processor and one bridge. All liveness: this prover
does not reach fairness and `ENABLED`.

## 5. Plan

1. Proofs next: `Coherent` and `DataCurrent` with one processor and one bridge.
2. Models after that: `ecache`, the instruction and result queues, the parallel
   port DMA, the sequential divider and the replacement algorithms against
   reference definitions; `smp_call_function_many`; address spaces in `LinuxTLB`;
   uncached accesses in `SMP`.

## 6. Not modelled

* Instruction decoding, the ALU and the pipeline's forwarding: their correctness
  is the MIPS instruction set, which the repository does not state.
* Pin-level peripherals, debug and trace: they observe, or their content is pin
  timing.
* `fast_cc` and the vendor FIFOs: their safety is metastability timing.
* The boot of CPU 0: straight-line code.
* The rest of `z4800-kernel/`: some 30,000 files of a vendored Linux tree
  (other architectures, drivers and file systems for hardware this system does
  not have). Only the files the board's own code calls into for interrupts,
  function calls, TLB handling and the yatse driver are part of the models. This
  is also why the share of all source lines that the models cover is small.
