------------------------------ MODULE LinuxSMP ------------------------------
(***************************************************************************)
(* The mailboxes of the processors (mbox.vhd) and what the kernel does     *)
(* with them: the start of the secondaries (z48soc_boot_secondary against  *)
(* the boot ROM), function calls from one processor to another             *)
(* (smp_call_function_single, z48soc_mailbox_interrupt) and wake-ups, all  *)
(* beside the device interrupts of LinuxIRQ.  A region under the lock of   *)
(* a call queue is one step.                                               *)
(***************************************************************************)
EXTENDS LinuxIRQ, FiniteSets

CONSTANTS
  NoCPU,   \* no processor
  Works    \* what the processors are given to do: a set of workloads

(***************************************************************************)
(* A workload: the interrupts that are used, who disables which of them,   *)
(* who calls others (waiting for the end or not) and who sends wake-ups.   *)
(* One is chosen at the start; it bounds what tasks begin.                 *)
(***************************************************************************)
Workloads == [irqs : SUBSET Irqs, disables : SUBSET (CPUs \X Irqs),
              calls : SUBSET (CPUs \X BOOLEAN), wakes : SUBSET CPUs]

ASSUME LinuxSMPParams == NoCPU \notin CPUs /\ Works \subseteq Workloads

VARIABLES
  mbox,                \* per processor: flags of its mailbox
  boot_args,           \* processor number in the boot ROM's argument words
  stage,               \* per processor: "rom", "start", "kernel"
  cpu_callin_map, cpu_online_map,
  call_single_queue,   \* per processor: csds queued for it
  csd_lock,            \* csds with CSD_FLAG_LOCK
  list,                \* per processor: csds its handler took off the queue
  action,              \* per processor: mailbox flags its handler read
  call,                \* per processor: the call its task makes
  resched,             \* processors asked to reschedule and not yet told so
  work                 \* the workload

smpvars == <<mbox, boot_args, stage, cpu_callin_map, cpu_online_map,
             call_single_queue, csd_lock, list, action, call, resched, work>>
vars == <<routervars, irqvars, taskvars, smpvars>>

MboxFlags == {"call", "resched"}

\* The csd of a call: on the caller's stack when it waits for the end of the
\* call (FALSE: the caller's csd_data).
Csd == CPUs \X BOOLEAN
Calls == [cpu : CPUs, wait : BOOLEAN]
NoCall == [cpu |-> NoCPU, wait |-> FALSE]
CsdOf(c) == <<c, call[c].wait>>

Init ==
  /\ RouterInit /\ LinuxIRQInit
  /\ mbox = [c \in CPUs |-> {}] /\ boot_args = NoCPU
  /\ stage = [c \in CPUs |-> IF c = 0 THEN "kernel" ELSE "rom"]
  /\ cpu_callin_map = {0} /\ cpu_online_map = {0}
  /\ call_single_queue = [c \in CPUs |-> {}] /\ csd_lock = {}
  /\ list = [c \in CPUs |-> {}] /\ action = [c \in CPUs |-> {}]
  /\ call = [c \in CPUs |-> NoCall] /\ resched = {}
  /\ work \in Works

\* The kernel runs with interrupts on: local_irq_enable of smp_finish is past.
InKernel(c) == stage[c] = "kernel"

-----------------------------------------------------------------------------
(* Start of the secondaries: smp_init, before any driver                   *)

bootvars == <<boot_args, stage, cpu_callin_map, cpu_online_map>>
callvars == <<call_single_queue, csd_lock, list, action, call, resched, work>>

\* Slip: the argument words are not written.
BootSecondaryNoArgs(d) ==
  /\ InTask(0) /\ task[0] = "idle" /\ d \notin cpu_online_map
  /\ boot_args' = boot_args
  /\ mbox' = [mbox EXCEPT ![d] = MboxFlags]
  /\ task' = [task EXCEPT ![0] = "boot"]
  /\ UNCHANGED <<routervars, irqvars, about, stage, cpu_callin_map,
                 cpu_online_map, callvars>>

\* __cpu_up, z48soc_boot_secondary: the argument words, then every flag.
BootSecondary(d) ==
  /\ InTask(0) /\ task[0] = "idle" /\ d \notin cpu_online_map
  /\ boot_args' = d
  /\ mbox' = [mbox EXCEPT ![d] = MboxFlags]
  /\ task' = [task EXCEPT ![0] = "boot"]
  /\ UNCHANGED <<routervars, irqvars, about, stage, cpu_callin_map,
                 cpu_online_map, callvars>>

\* boot_secondary.S: the mailbox interrupt ends the wait, the mailbox of the
\* processor named in the argument words is read and so cleared, interrupts
\* go off and the kernel is entered.
RomGotIpi(c) ==
  /\ stage[c] = "rom" /\ mbox[c] # {} /\ boot_args # NoCPU
  /\ mbox' = [mbox EXCEPT ![boot_args] = {}]
  /\ stage' = [stage EXCEPT ![c] = "start"]
  /\ UNCHANGED <<routervars, irqvars, taskvars, boot_args, cpu_callin_map,
                 cpu_online_map, callvars>>

\* start_secondary: interrupts are on before the processor calls in.
SmpFinish(c) ==
  /\ stage[c] = "start"
  /\ stage' = [stage EXCEPT ![c] = "kernel"]
  /\ UNCHANGED <<routervars, irqvars, taskvars, mbox, boot_args,
                 cpu_callin_map, cpu_online_map, callvars>>

CallIn(c) ==
  /\ InKernel(c) /\ InTask(c) /\ c \notin cpu_callin_map
  /\ cpu_callin_map' = cpu_callin_map \cup {c}
  /\ UNCHANGED <<routervars, irqvars, taskvars, mbox, boot_args, stage,
                 cpu_online_map, callvars>>

\* __cpu_up has seen the processor call in.
CpuUp ==
  /\ InTask(0) /\ task[0] = "boot" /\ boot_args \in cpu_callin_map
  /\ cpu_online_map' = cpu_online_map \cup {boot_args}
  /\ task' = [task EXCEPT ![0] = "idle"]
  /\ UNCHANGED <<routervars, irqvars, about, mbox, boot_args, stage,
                 cpu_callin_map, callvars>>

\* A processor whose idle task runs, past start_secondary.
Idle(c) == InKernel(c) /\ c \in cpu_callin_map /\ InTask(c) /\ task[c] = "idle"

-----------------------------------------------------------------------------
(* Calls and wake-ups, sending side                                        *)

\* What a caller does when its call is queued and signalled: csd_lock_wait.
AfterExec(c) == task' = [task EXCEPT ![c] = "csd_lock_wait"]

\* smp_call_function_single waits for its csd (csd_lock) and locks it, which
\* concerns nobody else; generic_exec_single queues it.  Only the first csd of
\* a queue needs an interrupt.
CallSingle(c, cl) ==
  LET csd == <<c, cl.wait>> IN
  /\ Idle(c) /\ cl.cpu # c /\ cl.cpu \in cpu_online_map
  /\ csd \in work.calls \ csd_lock
  /\ csd_lock' = csd_lock \cup {csd}
  /\ call' = [call EXCEPT ![c] = cl]
  /\ call_single_queue' = [call_single_queue EXCEPT ![cl.cpu] = @ \cup {csd}]
  /\ IF call_single_queue[cl.cpu] = {}
     THEN task' = [task EXCEPT ![c] = "ipi"]
     ELSE AfterExec(c)
  /\ UNCHANGED <<routervars, irqvars, about, mbox, bootvars, list, action,
                 resched, work>>

\* z48soc_send_ipi_single
SendIpi(c) ==
  /\ InTask(c) /\ task[c] = "ipi"
  /\ mbox' = [mbox EXCEPT ![call[c].cpu] = @ \cup {"call"}]
  /\ AfterExec(c)
  /\ UNCHANGED <<routervars, irqvars, about, bootvars, callvars>>

CsdLockWait(c) ==
  /\ InTask(c) /\ task[c] = "csd_lock_wait"
  /\ call[c].wait => CsdOf(c) \notin csd_lock
  /\ task' = [task EXCEPT ![c] = "idle"]
  /\ call' = [call EXCEPT ![c] = NoCall]
  /\ UNCHANGED <<routervars, irqvars, about, mbox, bootvars,
                 call_single_queue, csd_lock, list, action, resched, work>>

\* smp_send_reschedule
SendReschedule(c, d) ==
  /\ c \in work.wakes /\ Idle(c) /\ d # c /\ d \in cpu_online_map \ resched
  /\ resched' = resched \cup {d}
  /\ mbox' = [mbox EXCEPT ![d] = @ \cup {"resched"}]
  /\ UNCHANGED <<routervars, irqvars, taskvars, bootvars, call_single_queue,
                 csd_lock, list, action, call, work>>

-----------------------------------------------------------------------------
(* Calls and wake-ups, receiving side                                      *)

\* Slip: a caller waits with interrupts off.
MailboxInterruptTaskOnly(c) ==
  /\ InKernel(c) /\ IrqsOn(c) /\ task[c] # "csd_lock_wait" /\ mbox[c] # {}
  /\ action' = [action EXCEPT ![c] = mbox[c]]
  /\ mbox' = [mbox EXCEPT ![c] = {}]
  /\ irq_pc' = [irq_pc EXCEPT ![c] = IF "call" \in mbox[c]
                                     THEN "call" ELSE "run"]
  /\ UNCHANGED <<routervars, inprogress, depth, cascade, cur, taskvars,
                 bootvars, call_single_queue, csd_lock, list, call, resched, work>>

\* z48soc_mailbox_interrupt: the read clears the flags.
MailboxInterrupt(c) ==
  /\ InKernel(c) /\ IrqsOn(c) /\ mbox[c] # {}
  /\ action' = [action EXCEPT ![c] = mbox[c]]
  /\ mbox' = [mbox EXCEPT ![c] = {}]
  /\ irq_pc' = [irq_pc EXCEPT ![c] = IF "call" \in mbox[c]
                                     THEN "call" ELSE "run"]
  /\ UNCHANGED <<routervars, inprogress, depth, cascade, cur, taskvars,
                 bootvars, call_single_queue, csd_lock, list, call, resched, work>>

\* generic_smp_call_function_single_interrupt takes the whole queue...
TakeQueue(c) ==
  /\ irq_pc[c] = "call"
  /\ list' = [list EXCEPT ![c] = call_single_queue[c]]
  /\ call_single_queue' = [call_single_queue EXCEPT ![c] = {}]
  /\ irq_pc' = [irq_pc EXCEPT ![c] = "run"]
  /\ UNCHANGED <<routervars, inprogress, depth, cascade, cur, taskvars, mbox,
                 bootvars, csd_lock, action, call, resched, work>>

\* ... and runs and unlocks one csd after the other.
RunCsd(c, d) ==
  /\ irq_pc[c] = "run" /\ d \in list[c]
  /\ list' = [list EXCEPT ![c] = @ \ {d}]
  /\ csd_lock' = csd_lock \ {d}
  /\ UNCHANGED <<routervars, irqvars, taskvars, mbox, bootvars,
                 call_single_queue, action, call, resched, work>>

\* Slip: the flags are cleared at the end of the interrupt, not by the read.
SchedulerIpiClears(c) ==
  /\ irq_pc[c] = "run" /\ list[c] = {}
  /\ resched' = IF "resched" \in action[c] THEN resched \ {c} ELSE resched
  /\ mbox' = [mbox EXCEPT ![c] = {}]
  /\ action' = [action EXCEPT ![c] = {}]
  /\ irq_pc' = [irq_pc EXCEPT ![c] = Resume(cascade[c])]
  /\ UNCHANGED <<routervars, inprogress, depth, cascade, cur, taskvars,
                 bootvars, call_single_queue, csd_lock, list, call, work>>

\* scheduler_ipi if it was asked for; the end of the interrupt.
SchedulerIpi(c) ==
  /\ irq_pc[c] = "run" /\ list[c] = {}
  /\ resched' = IF "resched" \in action[c] THEN resched \ {c} ELSE resched
  /\ action' = [action EXCEPT ![c] = {}]
  /\ irq_pc' = [irq_pc EXCEPT ![c] = Resume(cascade[c])]
  /\ UNCHANGED <<routervars, inprogress, depth, cascade, cur, taskvars, mbox,
                 bootvars, call_single_queue, csd_lock, list, call, work>>

-----------------------------------------------------------------------------
\* irq_ffs takes the mailbox (IP3) before the cascade (IP4).
Dispatch(c) == InKernel(c) /\ mbox[c] = {} /\ TakeCascade(c) /\ UNCHANGED smpvars
Softirq(c) == SoftirqEnd(c) /\ UNCHANGED smpvars

Interrupt(c) ==
  \/ /\ \/ \E i \in Irqs : LevelStart(c, i)
        \/ Handler(c) \/ LevelEnd(c) \/ DispatchEnd(c)
     /\ UNCHANGED smpvars
  \/ MailboxInterrupt(c) \/ TakeQueue(c)
  \/ \E d \in Csd : RunCsd(c, d)
  \/ SchedulerIpi(c)

\* What a task starts on its own (drivers load once all processors run) ...
Begin(c) ==
  \/ /\ Idle(c) /\ cpu_online_map = CPUs
     /\ \E i \in work.irqs :
          \/ RequestIrq(c, i)
          \/ <<c, i>> \in work.disables /\ DisableIrq(c, i)
     /\ UNCHANGED smpvars
  \/ \E cl \in Calls : CallSingle(c, cl)
  \/ \E d \in CPUs : SendReschedule(c, d)

\* ... and what it goes on with.
Continue(c) ==
  \/ (SynchronizeIrq(c) \/ EnableIrq(c)) /\ UNCHANGED smpvars
  \/ SendIpi(c) \/ CsdLockWait(c)
  \/ CallIn(c)
  \/ c = 0 /\ (CpuUp \/ \E d \in CPUs : BootSecondary(d))

Start(c) == RomGotIpi(c) \/ SmpFinish(c)

Router == RouterClock /\ UNCHANGED <<irqvars, taskvars, smpvars>>

Next ==
  \/ Router
  \/ \E i \in work.irqs : Raise(i) /\ UNCHANGED smpvars
  \/ \E c \in CPUs : Interrupt(c) \/ Begin(c) \/ Continue(c) \/ Start(c)
  \/ \E c \in CPUs : Dispatch(c) \/ Softirq(c)

Spec == Init /\ [][Next]_vars

(***************************************************************************)
(* The router's clock runs and a processor does not stop in an interrupt,  *)
(* in the boot ROM or in start_secondary.  Nothing is assumed of devices   *)
(* and of what tasks begin, except that CPU 0 starts the others.  Strong   *)
(* fairness: a task or softirq that is interrupted again and again moves   *)
(* in between.                                                             *)
(***************************************************************************)
FairSpec ==
  /\ Spec
  /\ WF_vars(Router)
  /\ \A c \in CPUs :
       /\ WF_vars(Interrupt(c)) /\ WF_vars(Start(c)) /\ SF_vars(Continue(c))
       /\ WF_vars(Dispatch(c)) /\ SF_vars(Softirq(c))
-----------------------------------------------------------------------------
(* Properties                                                              *)

\* Every variable has its type; cascades nest at most twice (irq_exit).
TypeOK ==
  /\ irqs_in \subseteq Irqs /\ irq_mask \subseteq Irqs
  /\ route_cpu \in [Irqs -> CPUs]
  /\ percpu_irq_flags \in [CPUs -> SUBSET Irqs]
  /\ inprogress \subseteq Irqs /\ depth \in [Irqs -> 0 .. NCPUS]
  /\ irq_pc \in [CPUs -> {"none", "softirq", "cascade", "handler", "end",
                          "call", "run"}]
  /\ \A c \in CPUs : Len(cascade[c]) <= 2
  /\ cur \in [CPUs -> Irqs \cup {NoIrq}]
  /\ task \in [CPUs -> {"idle", "sync", "disabled", "boot", "ipi",
                        "csd_lock_wait"}]
  /\ about \in [CPUs -> Irqs \cup {NoIrq}]
  /\ mbox \in [CPUs -> SUBSET MboxFlags]
  /\ boot_args \in CPUs \cup {NoCPU}
  /\ stage \in [CPUs -> {"rom", "start", "kernel"}]
  /\ cpu_callin_map \subseteq CPUs /\ cpu_online_map \subseteq CPUs
  /\ call_single_queue \in [CPUs -> SUBSET Csd] /\ csd_lock \subseteq Csd
  /\ list \in [CPUs -> SUBSET Csd] /\ action \in [CPUs -> SUBSET MboxFlags]
  /\ call \in [CPUs -> Calls \cup {NoCall}] /\ resched \subseteq CPUs
  /\ work \in Works

\* handle_level_irq: a handler runs on one processor at a time, although two
\* processors may hold the same interrupt in what they read of the flags.
HandlerExclusive ==
  /\ \A c, d \in CPUs : c # d /\ cur[c] = cur[d] => cur[c] = NoIrq
  /\ inprogress = {cur[c] : c \in CPUs} \ {NoIrq}

\* An enabled interrupt is masked only while its handler runs: whoever leaves
\* it masked because another processor handles it can count on that one, and
\* enable_irq undoes what a disabled interrupt that fired left behind.
NeverStuckMasked ==
  \A i \in Irqs : depth[i] = 0 /\ i \notin irq_mask => i \in inprogress

\* disable_irq returns when no handler of the interrupt runs, and none starts
\* before enable_irq, whatever flags the processors have read.
DisabledMeansIdle ==
  \A c, d \in CPUs : task[c] = "disabled" => cur[d] # about[c]

\* Device interrupts: handlers exclude each other and disable_irq, and no mask
\* stays on by accident, whatever flags the processors read from the router.
IrqSafe == HandlerExclusive /\ NeverStuckMasked /\ DisabledMeansIdle

\* generic_exec_single sends no interrupt for a queue that is not empty: such
\* a queue has one set, about to be sent, or read by a handler that has not
\* yet taken the queue.
QueueHasIpi ==
  \A c \in CPUs : call_single_queue[c] # {} =>
    \/ "call" \in mbox[c]
    \/ irq_pc[c] = "call"
    \/ \E s \in CPUs : task[s] = "ipi" /\ call[s].cpu = c

\* A csd is locked exactly while it is in one place: in one queue or on the
\* list of one handler.  It is not used twice at once and its
\* function is not run twice.
CsdOnce ==
  \A d \in Csd :
    Cardinality({c \in CPUs : d \in call_single_queue[c]})
      + Cardinality({c \in CPUs : d \in list[c]})
    = IF d \in csd_lock THEN 1 ELSE 0

\* "Shouldn't receive this interrupt on a cpu that is not yet online"
\* (generic_smp_call_function_single_interrupt): the flags that started a
\* secondary are gone when it turns interrupts on.
CallsOnlineOnly ==
  \A c \in CPUs : irq_pc[c] = "call" => c \in cpu_online_map

\* A wake-up is not lost when its flag meets that of a call: until the
\* processor is told, its mailbox or its handler holds the flag.
WakeUpKept == \A c \in resched : "resched" \in mbox[c] \cup action[c]

\* Mailbox interrupts: whatever flags meet in a mailbox, calls and wake-ups
\* reach an online processor, each of them once.
IpiSafe == QueueHasIpi /\ CsdOnce /\ CallsOnlineOnly /\ WakeUpKept

\* An interrupt line that is up is served, unless tasks disable the interrupt
\* again and again, or send to a mailbox again and again: the processor the
\* router chose takes its mailbox first, and the router chooses no other.
LineServed ==
  \A i \in Irqs :
    \/ []<>(i \notin irqs_in) \/ []<>(depth[i] > 0)
    \/ \E c \in CPUs : []<>(mbox[c] # {})

\* A call is run, also when both processors call each other and wait.
CallRuns == \A d \in Csd : d \in csd_lock ~> d \notin csd_lock

\* Every processor comes up.
AllBoot == <>(cpu_online_map = CPUs)
=============================================================================
