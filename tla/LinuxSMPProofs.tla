--------------------------- MODULE LinuxSMPProofs ---------------------------
(***************************************************************************)
(* What holds of the interrupt router, the mailboxes and the kernel code   *)
(* above them for every number of processors, every set of interrupts and  *)
(* every workload.  The inductive invariant comes in four layers, each of  *)
(* which is proved with the help of the ones before it: types and control  *)
(* state, device interrupts, the start of the secondaries, calls and       *)
(* wake-ups.                                                               *)
(***************************************************************************)
EXTENDS LinuxSMP, FiniteSetTheorems, SequenceTheorems, TLAPS

(* The stack of a processor has the depth that its step in do_IRQ implies. *)
StackInv ==
  \A c \in CPUs :
    /\ irq_pc[c] = "none" => cascade[c] = <<>>
    /\ irq_pc[c] = "softirq" => Len(cascade[c]) = 1
    /\ irq_pc[c] \in {"cascade", "handler", "end"} =>
         Len(cascade[c]) = 1 \/ Len(cascade[c]) = 2
    /\ irq_pc[c] \in {"call", "run"} => cascade[c] = <<>> \/ Len(cascade[c]) = 1

(* The types, save for the bounds on desc->depth and on the stack that the   *)
(* other parts of the invariant give.                                        *)
TypeInv ==
  /\ irqs_in \subseteq Irqs /\ irq_mask \subseteq Irqs
  /\ route_cpu \in [Irqs -> CPUs]
  /\ percpu_irq_flags \in [CPUs -> SUBSET Irqs]
  /\ inprogress \subseteq Irqs /\ depth \in [Irqs -> Int]
  /\ irq_pc \in [CPUs -> {"none", "softirq", "cascade", "handler", "end",
                          "call", "run"}]
  /\ cascade \in [CPUs -> Seq(SUBSET Irqs)]
  /\ cur \in [CPUs -> Irqs \cup {NoIrq}]
  /\ task \in [CPUs -> {"idle", "sync", "disabled", "boot", "ipi",
                        "csd_lock_wait"}]
  /\ about \in [CPUs -> Irqs \cup {NoIrq}]
  /\ mbox \in [CPUs -> SUBSET MboxFlags]
  /\ boot_args \in CPUs \cup {NoCPU}
  /\ stage \in [CPUs -> {"rom", "start", "kernel"}]
  /\ cpu_callin_map \subseteq CPUs /\ cpu_online_map \subseteq CPUs
  /\ call_single_queue \in [CPUs -> SUBSET Csd] /\ csd_lock \subseteq Csd
  /\ list \in [CPUs -> SUBSET Csd] /\ action \in [CPUs -> SUBSET MboxFlags]
  /\ call \in [CPUs -> Calls \cup {NoCall}] /\ resched \subseteq CPUs
  /\ work \in Works

(* A processor is in handle_level_irq with an interrupt exactly between its  *)
(* two halves, and a task has an interrupt disabled exactly between          *)
(* disable_irq and enable_irq.                                               *)
ControlInv ==
  \A c \in CPUs :
    /\ cur[c] # NoIrq <=> irq_pc[c] \in {"handler", "end"}
    /\ about[c] # NoIrq <=> task[c] \in {"sync", "disabled"}

(* The tasks that have interrupt i disabled. *)
Disablers(i) == {c \in CPUs : about[c] = i}

(* desc->depth counts the tasks that have the interrupt disabled, or is the  *)
(* 1 an interrupt starts with.                                               *)
DepthCounts ==
  \A i \in Irqs : \/ depth[i] = 1 /\ Disablers(i) = {}
                  \/ depth[i] = Cardinality(Disablers(i))

IrqInv ==
  /\ HandlerExclusive /\ NeverStuckMasked /\ DepthCounts
  /\ \A c \in CPUs : task[c] = "disabled" => about[c] \notin inprogress

(* A processor that is not online sleeps in the boot ROM with an empty       *)
(* mailbox, unless it is the one that CPU 0 waits for in __cpu_up; that one  *)
(* has read its mailbox when it leaves the ROM.                              *)
BootInv ==
  /\ 0 \in cpu_online_map /\ cpu_online_map \subseteq cpu_callin_map
  /\ \A c \in cpu_callin_map : InKernel(c)
  /\ task[0] = "boot" => boot_args \in CPUs \ cpu_online_map
  /\ \A c \in CPUs \ cpu_online_map :
       /\ stage[c] # "rom" \/ mbox[c] # {} => task[0] = "boot" /\ boot_args = c
       /\ stage[c] # "rom" => mbox[c] = {}
  /\ CallsOnlineOnly

(* Calls and wake-ups are for processors that are online; a handler keeps    *)
(* the flags it read and the csds it took until it is done with them.        *)
CallInv ==
  /\ resched \subseteq cpu_online_map
  /\ \A c \in CPUs :
       /\ call_single_queue[c] # {} => c \in cpu_online_map
       /\ task[c] = "ipi" => call[c].cpu \in cpu_online_map
       /\ action[c] # {} => irq_pc[c] \in {"call", "run"}
       /\ list[c] # {} => irq_pc[c] = "run"
  /\ QueueHasIpi /\ WakeUpKept

(* Where csd d is: queued for processor c, or on the list of its handler. *)
CsdAt(d, c) == d \in call_single_queue[c] \/ d \in list[c]

(* CsdOnce without counting. *)
CsdInv ==
  \A d \in Csd :
    /\ d \notin csd_lock => \A c \in CPUs : ~CsdAt(d, c)
    /\ d \in csd_lock =>
         \E c \in CPUs : /\ CsdAt(d, c)
                         /\ ~(d \in call_single_queue[c] /\ d \in list[c])
                         /\ \A e \in CPUs \ {c} : ~CsdAt(d, e)

(***************************************************************************)
(* The steps, grouped by the layer they matter to: the router and the      *)
(* devices; do_IRQ; tasks that use an interrupt; the start of a processor; *)
(* the two sides of calls and wake-ups.                                    *)
(***************************************************************************)
DeviceStep == Router \/ \E i \in work.irqs : Raise(i) /\ UNCHANGED smpvars

IrqStep(c) ==
  /\ \/ TakeCascade(c) \/ SoftirqEnd(c) \/ DispatchEnd(c)
     \/ \E i \in Irqs : LevelStart(c, i)
     \/ Handler(c) \/ LevelEnd(c)
  /\ UNCHANGED smpvars

TaskStep(c) ==
  /\ \/ \E i \in Irqs : RequestIrq(c, i) \/ DisableIrq(c, i)
     \/ SynchronizeIrq(c) \/ EnableIrq(c)
  /\ UNCHANGED smpvars

BootStep(c) ==
  \/ RomGotIpi(c) \/ SmpFinish(c) \/ CallIn(c)
  \/ CpuUp \/ \E d \in CPUs : BootSecondary(d)

SendStep(c) ==
  \/ \E cl \in Calls : CallSingle(c, cl)
  \/ \E d \in CPUs : SendReschedule(c, d)
  \/ SendIpi(c) \/ CsdLockWait(c)

ReceiveStep(c) ==
  \/ MailboxInterrupt(c) \/ TakeQueue(c) \/ SchedulerIpi(c)
  \/ \E d \in Csd : RunCsd(c, d)

LEMMA StepGroups ==
  ASSUME TypeInv, Next
  PROVE  \/ DeviceStep
         \/ \E c \in CPUs : \/ IrqStep(c) \/ TaskStep(c) \/ BootStep(c)
                            \/ SendStep(c) \/ ReceiveStep(c)
<1>1. work.irqs \subseteq Irqs
  BY LinuxSMPParams DEF TypeInv, Workloads
<1>2. ASSUME NEW c \in CPUs, Interrupt(c) \/ Dispatch(c) \/ Softirq(c)
      PROVE  IrqStep(c) \/ ReceiveStep(c)
  BY <1>2 DEF Interrupt, Dispatch, Softirq, IrqStep, ReceiveStep
<1>3. ASSUME NEW c \in CPUs, Begin(c) \/ Continue(c) \/ Start(c)
      PROVE  TaskStep(c) \/ BootStep(c) \/ SendStep(c)
  BY <1>1, <1>3 DEF Begin, Continue, Start, TaskStep, BootStep, SendStep
<1> QED BY <1>2, <1>3 DEF Next, DeviceStep

-----------------------------------------------------------------------------
(* Layer 1: types and control state                                        *)

TypeControl == TypeInv /\ StackInv /\ ControlInv

(* The interrupts read by a nested dispatch go on top of the stack. *)
LEMMA Push ==
  ASSUME NEW T, NEW s \in Seq(T), NEW e \in T
  PROVE  /\ <<e>> \o s \in Seq(T)
         /\ Len(<<e>> \o s) = Len(s) + 1
         /\ <<e>> \o s # <<>>
<1>1. <<e>> \in Seq(T) /\ Len(<<e>>) = 1
  OBVIOUS
<1>2. <<e>> \o s \in Seq(T) /\ Len(<<e>> \o s) = Len(s) + 1
  BY <1>1, ConcatProperties
<1> QED BY <1>2, LenProperties, EmptySeq

(* What is left of a dispatch and of the stack below it. *)
LEMMA Pop ==
  ASSUME NEW T, NEW s \in Seq(T), s # <<>>
  PROVE  /\ Head(s) \in T /\ Tail(s) \in Seq(T)
         /\ Len(Tail(s)) = Len(s) - 1
         /\ Len(s) = 1 => Tail(s) = <<>>
         /\ Len(s) # 1 => Tail(s) # <<>>
<1>1. Head(s) \in T /\ Tail(s) \in Seq(T) /\ Len(Tail(s)) = Len(s) - 1
  BY HeadTailProperties
<1>2. Len(s) \in Nat /\ Len(Tail(s)) \in Nat
  BY <1>1, LenProperties
<1>3. Tail(s) = <<>> <=> Len(Tail(s)) = 0
  BY <1>1, EmptySeq
<1> QED BY <1>1, <1>2, <1>3

(* A processor in a dispatch has it on its stack. *)
LEMMA DispatchOnStack ==
  ASSUME TypeInv, StackInv, NEW c \in CPUs,
         irq_pc[c] \in {"cascade", "handler", "end"}
  PROVE  /\ cascade[c] \in Seq(SUBSET Irqs) /\ cascade[c] # <<>>
         /\ Len(cascade[c]) = 1 \/ Len(cascade[c]) = 2
<1>1. cascade[c] \in Seq(SUBSET Irqs)
  BY DEF TypeInv
<1>2. Len(cascade[c]) = 1 \/ Len(cascade[c]) = 2
  BY DEF StackInv
<1> QED BY <1>1, <1>2, EmptySeq

(* CPU 0, which starts the others. *)
LEMMA CPU0 == 0 \in CPUs
BY RouterParams DEF CPUs

LEMMA TypeControlInit == Init => TypeControl
<1> SUFFICES ASSUME Init PROVE TypeControl
  OBVIOUS
<1> USE DEF Init, RouterInit, LinuxIRQInit
<1>1. 0 \in CPUs
  BY CPU0
<1>2. TypeInv
  <2>1. cascade \in [CPUs -> Seq(SUBSET Irqs)]
    BY EmptySeq
  <2>2. call \in [CPUs -> Calls \cup {NoCall}]
    OBVIOUS
  <2> QED BY <1>1, <2>1, <2>2 DEF TypeInv
<1>3. StackInv /\ ControlInv
  BY DEF StackInv, ControlInv
<1> QED BY <1>2, <1>3 DEF TypeControl

(* The steps of the router and of the devices. *)
LEMMA TypeControlDevice ==
  ASSUME TypeControl, DeviceStep
  PROVE  TypeControl'
<1> USE DEF TypeControl, smpvars, irqvars, taskvars
<1>1. CASE Router
  <2>1. TypeInv'
    <3>1. \A i \in Irqs : (route_cpu[i] + 1) % NCPUS \in CPUs
      BY RouterParams DEF CPUs, TypeInv
    <3> QED BY <1>1, <3>1 DEF Router, RouterClock, TypeInv
  <2>2. StackInv' /\ ControlInv'
    BY <1>1 DEF Router, StackInv, ControlInv
  <2> QED BY <2>1, <2>2
<1>2. ASSUME NEW i \in work.irqs, Raise(i), UNCHANGED smpvars
      PROVE  TypeControl'
  <2>1. work.irqs \subseteq Irqs
    BY LinuxSMPParams DEF TypeInv, Workloads
  <2> QED BY <1>2, <2>1 DEF Raise, TypeInv, StackInv, ControlInv
<1> QED BY <1>1, <1>2 DEF DeviceStep

(* The steps of plat_irq_dispatch and handle_level_irq. *)
LEMMA TypeControlIrq ==
  ASSUME TypeControl, NEW c \in CPUs, IrqStep(c)
  PROVE  TypeControl'
<1> USE DEF TypeControl, smpvars, taskvars, routervars
<1>0. UNCHANGED smpvars
  BY DEF IrqStep
<1>1. CASE TakeCascade(c)
  <2>1. cascade[c] \in Seq(SUBSET Irqs) /\ percpu_irq_flags[c] \in SUBSET Irqs
    BY DEF TypeInv
  <2>2. /\ <<percpu_irq_flags[c]>> \o cascade[c] \in Seq(SUBSET Irqs)
        /\ Len(<<percpu_irq_flags[c]>> \o cascade[c]) = Len(cascade[c]) + 1
    BY <2>1, Push
  <2>3. cascade[c] = <<>> \/ Len(cascade[c]) = 1
    BY <1>1 DEF TakeCascade, IrqsOn, StackInv, TypeInv
  <2>4. Len(cascade[c]) + 1 = 1 \/ Len(cascade[c]) + 1 = 2
    <3>1. cascade[c] = <<>> => Len(cascade[c]) = 0
      OBVIOUS
    <3>2. Len(cascade[c]) = 0 \/ Len(cascade[c]) = 1
      BY <2>3, <3>1
    <3>3. CASE Len(cascade[c]) = 0
      BY <3>3
    <3>4. CASE Len(cascade[c]) = 1
      BY <3>4
    <3> QED BY <3>2, <3>3, <3>4
  <2>5. TypeInv'
    BY <1>0, <1>1, <2>2 DEF TakeCascade, TypeInv
  <2>6. StackInv'
    BY <1>1, <2>2, <2>4 DEF TakeCascade, StackInv, TypeInv
  <2>7. ControlInv'
    BY <1>1 DEF TakeCascade, IrqsOn, ControlInv, TypeInv
  <2> QED BY <2>5, <2>6, <2>7
<1>2. CASE SoftirqEnd(c)
  BY <1>0, <1>2 DEF SoftirqEnd, TypeInv, StackInv, ControlInv
<1>3. CASE DispatchEnd(c)
  <2>1. irq_pc[c] = "cascade"
    BY <1>3 DEF DispatchEnd
  <2>2. /\ cascade[c] \in Seq(SUBSET Irqs) /\ cascade[c] # <<>>
        /\ Len(cascade[c]) = 1 \/ Len(cascade[c]) = 2
    BY <2>1, DispatchOnStack
  <2>3. /\ Tail(cascade[c]) \in Seq(SUBSET Irqs)
        /\ \/ Tail(cascade[c]) = <<>>
           \/ Tail(cascade[c]) # <<>> /\ Len(Tail(cascade[c])) = 1
    BY <2>2, Pop
  <2>4. irq_pc'[c] = Resume(Tail(cascade[c])) /\ cascade'[c] = Tail(cascade[c])
    BY <1>3 DEF DispatchEnd, TypeInv
  <2>5. TypeInv'
    BY <1>0, <1>3, <2>3 DEF DispatchEnd, TypeInv, Resume
  <2>6. StackInv'
    BY <1>3, <2>3, <2>4 DEF DispatchEnd, StackInv, TypeInv, Resume
  <2>7. ControlInv'
    BY <1>3, <2>1 DEF DispatchEnd, ControlInv, TypeInv, Resume
  <2> QED BY <2>5, <2>6, <2>7
<1>4. ASSUME NEW i \in Irqs, LevelStart(c, i)
      PROVE  TypeControl'
  <2>1. irq_pc[c] = "cascade"
    BY <1>4 DEF LevelStart
  <2>2. /\ cascade[c] \in Seq(SUBSET Irqs) /\ cascade[c] # <<>>
        /\ Len(cascade[c]) = 1 \/ Len(cascade[c]) = 2
    BY <2>1, DispatchOnStack
  <2> DEFINE rest == <<Head(cascade[c]) \ {i}>> \o Tail(cascade[c])
  <2>3. /\ Head(cascade[c]) \ {i} \in SUBSET Irqs
        /\ Tail(cascade[c]) \in Seq(SUBSET Irqs)
        /\ Len(Tail(cascade[c])) + 1 = Len(cascade[c])
    <3>1. Len(cascade[c]) \in Nat
      BY <2>2, LenProperties
    <3> QED BY <2>2, <3>1, Pop
  <2>4. rest \in Seq(SUBSET Irqs) /\ Len(rest) = Len(cascade[c])
    BY <2>3, Push
  <2> HIDE DEF rest
  <2>5. cascade' = [cascade EXCEPT ![c] = rest]
    BY <1>4 DEF LevelStart, rest
  <2>6. \/ /\ irq_pc' = [irq_pc EXCEPT ![c] = "handler"]
           /\ cur' = [cur EXCEPT ![c] = i]
        \/ cur' = cur /\ irq_pc' = [irq_pc EXCEPT ![c] = "cascade"]
        \/ /\ cur' = cur /\ irq_pc' = [irq_pc EXCEPT ![c] = "softirq"]
           /\ Len(cascade[c]) = 1
    BY <1>4 DEF LevelStart, AfterIrq
  <2>7. TypeInv'
    <3>1. /\ irq_mask' \subseteq irq_mask /\ inprogress' \subseteq Irqs
          /\ UNCHANGED <<irqs_in, route_cpu, percpu_irq_flags, depth, taskvars>>
      BY <1>4 DEF LevelStart, TypeInv
    <3>2. cascade' \in [CPUs -> Seq(SUBSET Irqs)]
      BY <2>4, <2>5 DEF TypeInv
    <3>3. cur' = cur \/ cur' = [cur EXCEPT ![c] = i]
      BY <2>6
    <3>4. cur' \in [CPUs -> Irqs \cup {NoIrq}]
      BY <3>3 DEF TypeInv
    <3>5. \E pc \in {"cascade", "softirq", "handler"} :
            irq_pc' = [irq_pc EXCEPT ![c] = pc]
      BY <2>6
    <3>6. irq_pc' \in [CPUs -> {"none", "softirq", "cascade", "handler",
                                "end", "call", "run"}]
      BY <3>5 DEF TypeInv
    <3> QED BY <1>0, <3>1, <3>2, <3>4, <3>6 DEF TypeInv
  <2>8. StackInv'
    BY <2>2, <2>4, <2>5, <2>6 DEF StackInv, TypeInv
  <2>9. ControlInv'
    BY <1>4, <2>1, <2>6, NoIrqParam DEF LevelStart, ControlInv, TypeInv
  <2> QED BY <2>7, <2>8, <2>9
<1>5. CASE Handler(c)
  BY <1>0, <1>5 DEF Handler, TypeInv, StackInv, ControlInv
<1>6. CASE LevelEnd(c)
  <2>1. \/ irq_pc' = [irq_pc EXCEPT ![c] = "cascade"]
        \/ /\ irq_pc' = [irq_pc EXCEPT ![c] = "softirq"]
           /\ Len(cascade[c]) = 1
    BY <1>6 DEF LevelEnd, AfterIrq
  <2>2. cur[c] \in Irqs
    BY <1>6 DEF LevelEnd, ControlInv, TypeInv
  <2>3. TypeInv'
    BY <1>0, <1>6, <2>1, <2>2 DEF LevelEnd, TypeInv
  <2>4. StackInv' /\ ControlInv'
    BY <1>6, <2>1 DEF LevelEnd, StackInv, ControlInv, TypeInv
  <2> QED BY <2>3, <2>4
<1> QED BY <1>1, <1>2, <1>3, <1>4, <1>5, <1>6 DEF IrqStep

(* The tasks that enable and disable interrupts. *)
LEMMA TypeControlTask ==
  ASSUME TypeControl, NEW c \in CPUs, TaskStep(c)
  PROVE  TypeControl'
<1> USE DEF TypeControl, smpvars, taskvars, routervars
<1>0. UNCHANGED smpvars
  BY DEF TaskStep
<1>1. ASSUME NEW i \in Irqs, RequestIrq(c, i) PROVE TypeControl'
  BY <1>0, <1>1 DEF RequestIrq, TypeInv, StackInv, ControlInv
<1>2. ASSUME NEW i \in Irqs, DisableIrq(c, i) PROVE TypeControl'
  <2>1. TypeInv'
    BY <1>0, <1>2 DEF DisableIrq, TypeInv
  <2>2. StackInv' /\ ControlInv'
    BY <1>2, NoIrqParam DEF DisableIrq, StackInv, ControlInv, TypeInv
  <2> QED BY <2>1, <2>2
<1>3. CASE SynchronizeIrq(c)
  BY <1>0, <1>3 DEF SynchronizeIrq, TypeInv, StackInv, ControlInv, irqvars
<1>4. CASE EnableIrq(c)
  <2>1. about[c] \in Irqs
    BY <1>4 DEF EnableIrq, ControlInv, TypeInv
  <2>2. TypeInv'
    BY <1>0, <1>4, <2>1 DEF EnableIrq, TypeInv
  <2>3. StackInv' /\ ControlInv'
    BY <1>4 DEF EnableIrq, StackInv, ControlInv, TypeInv
  <2> QED BY <2>2, <2>3
<1> QED BY <1>1, <1>2, <1>3, <1>4 DEF TaskStep

(* The start of the secondaries. *)
LEMMA TypeControlBoot ==
  ASSUME TypeControl, NEW c \in CPUs, BootStep(c)
  PROVE  TypeControl'
<1> USE DEF TypeControl, taskvars, routervars, irqvars, callvars
<1>1. CASE RomGotIpi(c)
  BY <1>1 DEF RomGotIpi, TypeInv, StackInv, ControlInv
<1>2. CASE SmpFinish(c)
  BY <1>2 DEF SmpFinish, TypeInv, StackInv, ControlInv
<1>3. CASE CallIn(c)
  BY <1>3 DEF CallIn, TypeInv, StackInv, ControlInv
<1>4. CASE CpuUp
  <2>1. boot_args \in CPUs
    BY <1>4 DEF CpuUp, TypeInv
  <2> QED BY <1>4, <2>1 DEF CpuUp, TypeInv, StackInv, ControlInv
<1>5. ASSUME NEW d \in CPUs, BootSecondary(d) PROVE TypeControl'
  BY <1>5 DEF BootSecondary, TypeInv, StackInv, ControlInv
<1> QED BY <1>1, <1>2, <1>3, <1>4, <1>5 DEF BootStep

(* The sending side of calls and wake-ups. *)
LEMMA TypeControlSend ==
  ASSUME TypeControl, NEW c \in CPUs, SendStep(c)
  PROVE  TypeControl'
<1> USE DEF TypeControl, taskvars, routervars, irqvars, bootvars
<1>1. ASSUME NEW cl \in Calls, CallSingle(c, cl) PROVE TypeControl'
  <2>1. cl.cpu \in CPUs /\ <<c, cl.wait>> \in Csd
    BY DEF Calls, Csd
  <2>2. /\ task[c] = "idle"
        /\ \E t \in {"ipi", "csd_lock_wait"} : task' = [task EXCEPT ![c] = t]
    BY <1>1 DEF CallSingle, AfterExec, Idle
  <2>3. TypeInv'
    <3>1. task' \in [CPUs -> {"idle", "sync", "disabled", "boot", "ipi",
                              "csd_lock_wait"}]
      BY <2>2 DEF TypeInv
    <3>2. /\ call_single_queue' \in [CPUs -> SUBSET Csd]
          /\ csd_lock' \subseteq Csd /\ call' \in [CPUs -> Calls \cup {NoCall}]
      BY <1>1, <2>1 DEF CallSingle, TypeInv
    <3> QED BY <1>1, <3>1, <3>2 DEF CallSingle, TypeInv
  <2>4. StackInv' /\ ControlInv'
    BY <1>1, <2>2 DEF CallSingle, StackInv, ControlInv, TypeInv
  <2> QED BY <2>3, <2>4
<1>2. ASSUME NEW d \in CPUs, SendReschedule(c, d) PROVE TypeControl'
  BY <1>2 DEF SendReschedule, TypeInv, StackInv, ControlInv, MboxFlags
<1>3. CASE SendIpi(c)
  BY <1>3 DEF SendIpi, AfterExec, callvars, TypeInv, StackInv, ControlInv,
              MboxFlags
<1>4. CASE CsdLockWait(c)
  BY <1>4 DEF CsdLockWait, TypeInv, StackInv, ControlInv
<1> QED BY <1>1, <1>2, <1>3, <1>4 DEF SendStep

(* The mailbox interrupt. *)
LEMMA TypeControlReceive ==
  ASSUME TypeControl, NEW c \in CPUs, ReceiveStep(c)
  PROVE  TypeControl'
<1> USE DEF TypeControl, taskvars, routervars, bootvars
<1>1. CASE MailboxInterrupt(c)
  <2>1. cascade[c] = <<>> \/ Len(cascade[c]) = 1
    BY <1>1 DEF MailboxInterrupt, IrqsOn, StackInv, TypeInv
  <2>2. TypeInv'
    BY <1>1 DEF MailboxInterrupt, TypeInv
  <2>3. StackInv' /\ ControlInv'
    BY <1>1, <2>1 DEF MailboxInterrupt, IrqsOn, StackInv, ControlInv, TypeInv
  <2> QED BY <2>2, <2>3
<1>2. CASE TakeQueue(c)
  BY <1>2 DEF TakeQueue, TypeInv, StackInv, ControlInv
<1>3. CASE SchedulerIpi(c)
  <2>1. cascade[c] = <<>> \/ Len(cascade[c]) = 1
    BY <1>3 DEF SchedulerIpi, StackInv, TypeInv
  <2>2. TypeInv'
    BY <1>3 DEF SchedulerIpi, TypeInv, Resume
  <2>3. StackInv' /\ ControlInv'
    BY <1>3, <2>1 DEF SchedulerIpi, StackInv, ControlInv, TypeInv, Resume
  <2> QED BY <2>2, <2>3
<1>4. ASSUME NEW d \in Csd, RunCsd(c, d) PROVE TypeControl'
  BY <1>4 DEF RunCsd, irqvars, TypeInv, StackInv, ControlInv
<1> QED BY <1>1, <1>2, <1>3, <1>4 DEF ReceiveStep

(* No step of the router, the devices, the interrupt code or the tasks       *)
(* disturbs the types or the control state.                                  *)
LEMMA TypeControlInvariant == Spec => []TypeControl
<1>1. TypeControl /\ [Next]_vars => TypeControl'
  <2> SUFFICES ASSUME TypeControl, [Next]_vars PROVE TypeControl'
    OBVIOUS
  <2>1. CASE Next
    BY <2>1, StepGroups, TypeControlDevice, TypeControlIrq, TypeControlTask,
       TypeControlBoot, TypeControlSend, TypeControlReceive DEF TypeControl
  <2>2. CASE UNCHANGED vars
    BY <2>2 DEF vars, routervars, irqvars, taskvars, smpvars, TypeControl,
                TypeInv, StackInv, ControlInv
  <2> QED BY <2>1, <2>2
<1> QED BY <1>1, TypeControlInit, PTL DEF Spec

-----------------------------------------------------------------------------
(* Layer 2: device interrupts                                              *)

LEMMA CPUsFinite == IsFiniteSet(CPUs) /\ Cardinality(CPUs) = NCPUS
<1>1. 0 \in Int /\ NCPUS - 1 \in Int /\ ~(0 > NCPUS - 1)
  BY RouterParams
<1>2. IsFiniteSet(CPUs) /\ Cardinality(CPUs) = (NCPUS - 1) - 0 + 1
  BY <1>1, FS_Interval DEF CPUs
<1> QED BY <1>2, RouterParams

(* The tasks that have an interrupt disabled can be counted. *)
LEMMA DisablersFinite ==
  ASSUME NEW i
  PROVE  /\ IsFiniteSet(Disablers(i))
         /\ Cardinality(Disablers(i)) \in 0 .. NCPUS
<1>1. Disablers(i) \in SUBSET CPUs
  BY DEF Disablers
<1>2. IsFiniteSet(Disablers(i)) /\ Cardinality(Disablers(i)) <= NCPUS
  BY <1>1, CPUsFinite, FS_Subset
<1>3. Cardinality(Disablers(i)) \in Nat
  BY <1>2, FS_CardinalityType
<1> QED BY <1>2, <1>3, RouterParams

(* disable_irq and enable_irq move a task into and out of the count. *)
LEMMA DisablersStep ==
  ASSUME TypeInv, NEW c \in CPUs, NEW i \in Irqs
  PROVE  /\ about[c] = NoIrq /\ about' = [about EXCEPT ![c] = i] =>
              /\ Disablers(i)' = Disablers(i) \cup {c} /\ c \notin Disablers(i)
              /\ \A j \in Irqs \ {i} : Disablers(j)' = Disablers(j)
         /\ about[c] = i /\ about' = [about EXCEPT ![c] = NoIrq] =>
              /\ Disablers(i)' = Disablers(i) \ {c} /\ c \in Disablers(i)
              /\ \A j \in Irqs \ {i} : Disablers(j)' = Disablers(j)
BY NoIrqParam DEF TypeInv, Disablers

(* An interrupt with depth 0 is disabled by nobody. *)
LEMMA DepthZero ==
  ASSUME DepthCounts, NEW i \in Irqs, depth[i] = 0
  PROVE  Disablers(i) = {}
<1>1. depth[i] = Cardinality(Disablers(i))
  BY DEF DepthCounts
<1> QED BY <1>1, DisablersFinite, FS_EmptySet

LEMMA IrqInit == Init => IrqInv
<1> SUFFICES ASSUME Init PROVE IrqInv
  OBVIOUS
<1> USE DEF Init, RouterInit, LinuxIRQInit
<1>1. HandlerExclusive /\ NeverStuckMasked
  BY DEF HandlerExclusive, NeverStuckMasked
<1>2. DepthCounts
  BY NoIrqParam DEF DepthCounts, Disablers
<1> QED BY <1>1, <1>2 DEF IrqInv

(* A step that leaves masks, depths and handlers alone and ends no wait in   *)
(* synchronize_irq.                                                          *)
LEMMA IrqInvFrame ==
  ASSUME IrqInv, UNCHANGED <<irq_mask, inprogress, depth, cur, about>>,
         \A d \in CPUs : task'[d] = "disabled" => task[d] = "disabled"
  PROVE  IrqInv'
<1>1. HandlerExclusive' /\ NeverStuckMasked'
  BY DEF IrqInv, HandlerExclusive, NeverStuckMasked
<1>2. DepthCounts'
  BY DEF IrqInv, DepthCounts, Disablers
<1> QED BY <1>1, <1>2 DEF IrqInv

(* handle_level_irq.  The second half of the invariant, about the tasks that *)
(* wait in synchronize_irq, rests on the depth: a handler that starts has    *)
(* seen 0, so nobody has the interrupt disabled.                             *)
LEMMA IrqInvLevel ==
  ASSUME TypeControl, IrqInv, NEW c \in CPUs, IrqStep(c)
  PROVE  IrqInv'
<1> USE DEF TypeControl, taskvars, routervars
<1>1. CASE TakeCascade(c) \/ SoftirqEnd(c) \/ DispatchEnd(c) \/ Handler(c)
  <2>1. UNCHANGED <<irq_mask, inprogress, depth, cur, about, task>>
    BY <1>1 DEF TakeCascade, SoftirqEnd, DispatchEnd, Handler
  <2> QED BY <2>1, IrqInvFrame
<1>2. ASSUME NEW i \in Irqs, LevelStart(c, i) PROVE IrqInv'
  <2>1. UNCHANGED <<depth, task, about>> /\ irq_mask' = irq_mask \ {i}
    BY <1>2 DEF LevelStart
  <2>2. DepthCounts'
    BY <2>1 DEF IrqInv, DepthCounts, Disablers
  <2>3. CASE (i \in inprogress \/ depth[i] > 0) /\ UNCHANGED <<inprogress, cur>>
    <3>1. NeverStuckMasked'
      BY <2>1, <2>3 DEF IrqInv, NeverStuckMasked, TypeInv
    <3> QED BY <2>1, <2>2, <2>3, <3>1 DEF IrqInv, HandlerExclusive
  <2>4. CASE /\ i \notin inprogress /\ depth[i] = 0
             /\ inprogress' = inprogress \cup {i}
             /\ cur' = [cur EXCEPT ![c] = i]
    <3>1. Disablers(i) = {}
      BY <2>4, DepthZero DEF IrqInv
    <3>2. cur[c] = NoIrq
      BY <1>2 DEF LevelStart, ControlInv
    <3>3. HandlerExclusive'
      BY <2>4, <3>2, NoIrqParam DEF IrqInv, HandlerExclusive, TypeInv
    <3>4. NeverStuckMasked'
      BY <2>1, <2>4 DEF IrqInv, NeverStuckMasked
    <3>5. \A d \in CPUs : task'[d] = "disabled" => about'[d] \notin inprogress'
      BY <2>1, <2>4, <3>1 DEF IrqInv, Disablers
    <3> QED BY <2>2, <3>3, <3>4, <3>5 DEF IrqInv
  <2> QED BY <1>2, <2>3, <2>4 DEF LevelStart
<1>3. CASE LevelEnd(c)
  <2>1. cur[c] \in Irqs
    BY <1>3 DEF LevelEnd, ControlInv, TypeInv
  <2>2. /\ UNCHANGED <<depth, task, about>>
        /\ inprogress' = inprogress \ {cur[c]}
        /\ irq_mask' = IF depth[cur[c]] = 0 THEN irq_mask \cup {cur[c]}
                       ELSE irq_mask
        /\ cur' = [cur EXCEPT ![c] = NoIrq]
    BY <1>3 DEF LevelEnd
  <2>3. HandlerExclusive'
    BY <2>1, <2>2, NoIrqParam DEF IrqInv, HandlerExclusive, TypeInv
  <2>4. NeverStuckMasked'
    BY <2>1, <2>2 DEF IrqInv, NeverStuckMasked
  <2>5. DepthCounts'
    BY <2>2 DEF IrqInv, DepthCounts, Disablers
  <2>6. \A d \in CPUs : task'[d] = "disabled" => about'[d] \notin inprogress'
    BY <2>2 DEF IrqInv
  <2> QED BY <2>3, <2>4, <2>5, <2>6 DEF IrqInv
<1> QED BY <1>1, <1>2, <1>3 DEF IrqStep

(* setup_irq, disable_irq, synchronize_irq and enable_irq. *)
LEMMA IrqInvTask ==
  ASSUME TypeControl, IrqInv, NEW c \in CPUs, TaskStep(c)
  PROVE  IrqInv'
<1> USE DEF TypeControl, routervars
<1>1. ASSUME NEW i \in Irqs, RequestIrq(c, i) PROVE IrqInv'
  <2>1. /\ UNCHANGED <<task, about, cur, inprogress>>
        /\ depth' = [depth EXCEPT ![i] = 0] /\ irq_mask' = irq_mask \cup {i}
        /\ \A d \in CPUs : about[d] # i
    BY <1>1 DEF RequestIrq, taskvars
  <2>2. DepthCounts'
    <3>1. Disablers(i) = {} /\ \A j \in Irqs : Disablers(j)' = Disablers(j)
      BY <2>1 DEF Disablers
    <3> QED BY <2>1, <3>1, FS_EmptySet DEF IrqInv, DepthCounts, TypeInv
  <2>3. NeverStuckMasked'
    BY <2>1 DEF IrqInv, NeverStuckMasked, TypeInv
  <2> QED BY <2>1, <2>2, <2>3 DEF IrqInv, HandlerExclusive
<1>2. ASSUME NEW i \in Irqs, DisableIrq(c, i) PROVE IrqInv'
  <2>1. /\ UNCHANGED <<irq_mask, cur, inprogress>>
        /\ depth' = [depth EXCEPT ![i] = @ + 1]
        /\ task' = [task EXCEPT ![c] = "sync"]
        /\ about' = [about EXCEPT ![c] = i]
        /\ depth[i] = 0 \/ Disablers(i) # {}
    BY <1>2 DEF DisableIrq, Disablers
  <2>2. about[c] = NoIrq
    BY <1>2 DEF DisableIrq, ControlInv
  <2>3. /\ Disablers(i)' = Disablers(i) \cup {c} /\ c \notin Disablers(i)
        /\ \A j \in Irqs \ {i} : Disablers(j)' = Disablers(j)
    BY <2>1, <2>2, DisablersStep
  <2>4. depth[i] = Cardinality(Disablers(i))
    BY <2>1 DEF IrqInv, DepthCounts
  <2>5. Cardinality(Disablers(i)') = Cardinality(Disablers(i)) + 1
    BY <2>3, DisablersFinite, FS_AddElement
  <2>6. DepthCounts'
    BY <2>1, <2>3, <2>4, <2>5 DEF IrqInv, DepthCounts, TypeInv
  <2>7. NeverStuckMasked'
    <3>1. depth[i] + 1 # 0
      BY <2>4, DisablersFinite
    <3> QED BY <2>1, <3>1 DEF IrqInv, NeverStuckMasked, TypeInv
  <2>8. \A d \in CPUs : task'[d] = "disabled" => about'[d] \notin inprogress'
    BY <2>1 DEF IrqInv, TypeInv
  <2> QED BY <2>1, <2>6, <2>7, <2>8 DEF IrqInv, HandlerExclusive
<1>3. CASE SynchronizeIrq(c)
  <2>1. /\ UNCHANGED <<irq_mask, inprogress, depth, cur, about>>
        /\ about[c] \notin inprogress
        /\ task' = [task EXCEPT ![c] = "disabled"]
    BY <1>3 DEF SynchronizeIrq, irqvars
  <2>2. HandlerExclusive' /\ NeverStuckMasked'
    BY <2>1 DEF IrqInv, HandlerExclusive, NeverStuckMasked
  <2>3. DepthCounts'
    BY <2>1 DEF IrqInv, DepthCounts, Disablers
  <2>4. \A d \in CPUs : task'[d] = "disabled" => about'[d] \notin inprogress'
    BY <2>1 DEF IrqInv, TypeInv
  <2> QED BY <2>2, <2>3, <2>4 DEF IrqInv
<1>4. CASE EnableIrq(c)
  <2>1. PICK i \in Irqs : about[c] = i
    BY <1>4 DEF EnableIrq, ControlInv, TypeInv
  <2>2. /\ UNCHANGED <<cur, inprogress>>
        /\ depth' = [depth EXCEPT ![i] = @ - 1]
        /\ irq_mask' = IF depth[i] = 1 THEN irq_mask \cup {i} ELSE irq_mask
        /\ task' = [task EXCEPT ![c] = "idle"]
        /\ about' = [about EXCEPT ![c] = NoIrq]
    BY <1>4, <2>1 DEF EnableIrq
  <2>3. /\ Disablers(i)' = Disablers(i) \ {c} /\ c \in Disablers(i)
        /\ \A j \in Irqs \ {i} : Disablers(j)' = Disablers(j)
    BY <2>1, <2>2, DisablersStep
  <2>4. depth[i] = Cardinality(Disablers(i))
    BY <2>1, <2>3 DEF IrqInv, DepthCounts
  <2>5. Cardinality(Disablers(i)') = Cardinality(Disablers(i)) - 1
    BY <2>3, DisablersFinite, FS_RemoveElement
  <2>6. DepthCounts'
    BY <2>1, <2>2, <2>3, <2>4, <2>5 DEF IrqInv, DepthCounts, TypeInv
  <2>7. NeverStuckMasked'
    BY <2>1, <2>2 DEF IrqInv, NeverStuckMasked, TypeInv
  <2>8. \A d \in CPUs : task'[d] = "disabled" => about'[d] \notin inprogress'
    BY <2>2 DEF IrqInv, TypeInv
  <2> QED BY <2>2, <2>6, <2>7, <2>8 DEF IrqInv, HandlerExclusive
<1> QED BY <1>1, <1>2, <1>3, <1>4 DEF TaskStep

(* The steps that have nothing to do with masks and handlers. *)
LEMMA IrqInvOther ==
  ASSUME TypeControl, IrqInv, NEW c \in CPUs,
         DeviceStep \/ BootStep(c) \/ SendStep(c) \/ ReceiveStep(c)
  PROVE  IrqInv'
<1> USE DEF taskvars, irqvars, routervars
<1>1. CASE DeviceStep
  BY <1>1, IrqInvFrame DEF DeviceStep, Router, RouterClock, Raise
<1>2. CASE BootStep(c)
  <2>1. UNCHANGED <<irq_mask, inprogress, depth, cur, about>>
    BY <1>2 DEF BootStep, RomGotIpi, SmpFinish, CallIn, CpuUp, BootSecondary
  <2>2. task' = task \/ \E t \in {"idle", "boot"} : task' = [task EXCEPT ![0] = t]
    BY <1>2 DEF BootStep, RomGotIpi, SmpFinish, CallIn, CpuUp, BootSecondary
  <2> QED BY <2>1, <2>2, IrqInvFrame DEF TypeControl, TypeInv
<1>3. CASE SendStep(c)
  <2>1. UNCHANGED <<irq_mask, inprogress, depth, cur, about>>
    BY <1>3 DEF SendStep, CallSingle, SendReschedule, SendIpi, CsdLockWait
  <2>2. \/ task' = task
        \/ \E t \in {"idle", "ipi", "csd_lock_wait"} :
             task' = [task EXCEPT ![c] = t]
    BY <1>3 DEF SendStep, CallSingle, SendReschedule, SendIpi, CsdLockWait,
                AfterExec
  <2> QED BY <2>1, <2>2, IrqInvFrame DEF TypeControl, TypeInv
<1>4. CASE ReceiveStep(c)
  BY <1>4, IrqInvFrame
     DEF ReceiveStep, MailboxInterrupt, TakeQueue, SchedulerIpi, RunCsd
<1> QED BY <1>1, <1>2, <1>3, <1>4

LEMMA IrqInvariant == Spec => []IrqInv
<1>1. TypeControl /\ IrqInv /\ [Next]_vars => IrqInv'
  <2> SUFFICES ASSUME TypeControl, IrqInv, [Next]_vars PROVE IrqInv'
    OBVIOUS
  <2>1. CASE Next
    <3>1. 0 \in CPUs
      BY CPU0
    <3> QED BY <2>1, <3>1, StepGroups, IrqInvLevel, IrqInvTask, IrqInvOther
            DEF TypeControl
  <2>2. CASE UNCHANGED vars
    BY <2>2, IrqInvFrame DEF vars, routervars, irqvars, taskvars
  <2> QED BY <2>1, <2>2
<1> QED BY <1>1, IrqInit, TypeControlInvariant, PTL DEF Spec

(* Every variable keeps its type, for any number of processors, interrupts   *)
(* and workloads: desc->depth counts tasks and so stays within the number of *)
(* processors, and irq_exit runs no softirqs within softirqs, so that        *)
(* plat_irq_dispatch nests at most twice.                                    *)
THEOREM TypeSafety == Spec => []TypeOK
<1>1. TypeControl /\ IrqInv => TypeOK
  <2> SUFFICES ASSUME TypeControl, IrqInv PROVE TypeOK
    OBVIOUS
  <2>1. \A i \in Irqs : depth[i] \in 0 .. NCPUS
    BY DisablersFinite, RouterParams DEF IrqInv, DepthCounts
  <2>2. \A c \in CPUs : Len(cascade[c]) <= 2
    <3> SUFFICES ASSUME NEW c \in CPUs PROVE Len(cascade[c]) <= 2
      OBVIOUS
    <3>1. \/ cascade[c] = <<>> \/ Len(cascade[c]) = 1 \/ Len(cascade[c]) = 2
      BY DEF TypeControl, TypeInv, StackInv
    <3>2. cascade[c] = <<>> => Len(cascade[c]) = 0
      OBVIOUS
    <3>3. Len(cascade[c]) \in {0, 1, 2}
      BY <3>1, <3>2
    <3>4. \A n \in {0, 1, 2} : n <= 2
      OBVIOUS
    <3> QED BY <3>3, <3>4
  <2> QED BY <2>1, <2>2 DEF TypeControl, TypeInv, TypeOK
<1> QED BY <1>1, TypeControlInvariant, IrqInvariant, PTL

(* Device interrupts are safe, for any number of processors and interrupts:  *)
(* handle_level_irq runs a handler on one processor at a time although       *)
(* several may have read the same flag from the router; an enabled interrupt *)
(* is masked only while its handler runs; and from the end of disable_irq to *)
(* enable_irq no handler of the interrupt runs (chip.c, manage.c,            *)
(* zirqrouter.vhd).                                                          *)
THEOREM IrqSafety == Spec => []IrqSafe
<1>1. TypeControl /\ IrqInv => IrqSafe
  <2> SUFFICES ASSUME TypeControl, IrqInv PROVE IrqSafe
    OBVIOUS
  <2>1. DisabledMeansIdle
    <3> SUFFICES ASSUME NEW c \in CPUs, NEW d \in CPUs, task[c] = "disabled"
                 PROVE  cur[d] # about[c]
      BY DEF DisabledMeansIdle
    <3>1. about[c] # NoIrq
      BY DEF TypeControl, ControlInv
    <3>2. about[c] \notin inprogress
      BY DEF IrqInv
    <3>3. cur[d] # NoIrq => cur[d] \in inprogress
      BY DEF IrqInv, HandlerExclusive
    <3> QED BY <3>1, <3>2, <3>3
  <2> QED BY <2>1 DEF IrqInv, IrqSafe
<1> QED BY <1>1, TypeControlInvariant, IrqInvariant, PTL

-----------------------------------------------------------------------------
(* Layer 3: the start of the secondaries                                   *)

LEMMA BootInit == Init => BootInv
<1> SUFFICES ASSUME Init PROVE BootInv
  OBVIOUS
<1>1. 0 \in CPUs
  BY CPU0
<1> QED BY <1>1 DEF Init, RouterInit, LinuxIRQInit, BootInv, InKernel,
                    CallsOnlineOnly

(* z48soc_boot_secondary, the boot ROM, start_secondary and __cpu_up. *)
LEMMA BootInvBoot ==
  ASSUME TypeControl, BootInv, NEW c \in CPUs, BootStep(c)
  PROVE  BootInv'
<1> USE DEF TypeControl, taskvars, irqvars, callvars
<1>0. 0 \in CPUs
  BY CPU0
<1>1. CASE RomGotIpi(c)
  <2>1. c \notin cpu_online_map
    BY <1>1 DEF RomGotIpi, BootInv, InKernel
  <2>2. boot_args = c
    BY <1>1, <2>1 DEF RomGotIpi, BootInv
  <2>3. /\ mbox' = [mbox EXCEPT ![c] = {}]
        /\ stage' = [stage EXCEPT ![c] = "start"]
        /\ UNCHANGED <<task, irq_pc, boot_args, cpu_callin_map, cpu_online_map>>
    BY <1>1, <2>2 DEF RomGotIpi
  <2>4. c \notin cpu_callin_map
    BY <1>1 DEF RomGotIpi, BootInv, InKernel
  <2> QED BY <1>1, <2>1, <2>2, <2>3, <2>4
          DEF RomGotIpi, BootInv, InKernel, CallsOnlineOnly, TypeInv
<1>2. CASE SmpFinish(c)
  BY <1>2 DEF SmpFinish, BootInv, InKernel, CallsOnlineOnly, TypeInv
<1>3. CASE CallIn(c)
  BY <1>3 DEF CallIn, BootInv, InKernel, CallsOnlineOnly, TypeInv
<1>4. CASE CpuUp
  BY <1>0, <1>4 DEF CpuUp, BootInv, InKernel, CallsOnlineOnly, TypeInv
<1>5. ASSUME NEW d \in CPUs, BootSecondary(d) PROVE BootInv'
  BY <1>0, <1>5 DEF BootSecondary, BootInv, InKernel, CallsOnlineOnly, TypeInv
<1> QED BY <1>1, <1>2, <1>3, <1>4, <1>5 DEF BootStep

(* Flags are set only in the mailboxes of processors that are online, and a  *)
(* processor that takes the mailbox interrupt is online.                     *)
LEMMA BootInvOther ==
  ASSUME TypeControl, BootInv, CallInv, NEW c \in CPUs,
         \/ DeviceStep \/ IrqStep(c) \/ TaskStep(c)
         \/ SendStep(c) \/ ReceiveStep(c)
  PROVE  BootInv'
<1> USE DEF TypeControl, taskvars, irqvars, routervars, bootvars, smpvars
<1>1. UNCHANGED <<stage, cpu_callin_map, cpu_online_map, boot_args>>
  <2>1. CASE DeviceStep \/ IrqStep(c) \/ TaskStep(c)
    BY <2>1 DEF DeviceStep, Router, IrqStep, TaskStep
  <2>2. CASE SendStep(c)
    BY <2>2 DEF SendStep, CallSingle, SendReschedule, SendIpi, CsdLockWait
  <2>3. CASE ReceiveStep(c)
    BY <2>3 DEF ReceiveStep, MailboxInterrupt, TakeQueue, RunCsd, SchedulerIpi
  <2> QED BY <2>1, <2>2, <2>3
<1>2. \A d \in CPUs \ cpu_online_map : mbox'[d] = mbox[d] \/ mbox'[d] = {}
  <2>1. CASE DeviceStep \/ IrqStep(c) \/ TaskStep(c)
    BY <2>1 DEF DeviceStep, Router, IrqStep, TaskStep
  <2>2. CASE SendStep(c)
    <3>1. CASE SendIpi(c)
      <4>1. call[c].cpu \in cpu_online_map
        BY <3>1 DEF SendIpi, CallInv
      <4> QED BY <3>1, <4>1 DEF SendIpi, TypeInv
    <3>2. ASSUME NEW d \in CPUs, SendReschedule(c, d)
          PROVE  \A e \in CPUs \ cpu_online_map : mbox'[e] = mbox[e]
      BY <3>2 DEF SendReschedule, TypeInv
    <3>3. CASE CsdLockWait(c) \/ \E cl \in Calls : CallSingle(c, cl)
      BY <3>3 DEF CsdLockWait, CallSingle
    <3> QED BY <2>2, <3>1, <3>2, <3>3 DEF SendStep
  <2>3. CASE ReceiveStep(c)
    BY <2>3 DEF ReceiveStep, MailboxInterrupt, TakeQueue, RunCsd, SchedulerIpi,
                TypeInv
  <2> QED BY <2>1, <2>2, <2>3
<1>3. task'[0] = "boot" <=> task[0] = "boot"
  <2>0. 0 \in CPUs
    BY CPU0
  <2>1. CASE DeviceStep \/ IrqStep(c)
    BY <2>1 DEF DeviceStep, Router, Raise, IrqStep, TakeCascade, SoftirqEnd,
                DispatchEnd, LevelStart, Handler, LevelEnd
  <2>2. CASE TaskStep(c)
    BY <2>0, <2>2 DEF TaskStep, RequestIrq, DisableIrq, SynchronizeIrq,
                      EnableIrq, TypeInv
  <2>3. CASE SendStep(c)
    <3>1. \/ task' = task
          \/ /\ task[c] # "boot"
             /\ \E t \in {"idle", "ipi", "csd_lock_wait"} :
                  task' = [task EXCEPT ![c] = t]
      BY <2>3 DEF SendStep, CallSingle, SendReschedule, SendIpi, CsdLockWait,
                  AfterExec, Idle
    <3> QED BY <2>0, <3>1 DEF TypeInv
  <2>4. CASE ReceiveStep(c)
    BY <2>4 DEF ReceiveStep, MailboxInterrupt, TakeQueue, RunCsd, SchedulerIpi
  <2> QED BY <2>1, <2>2, <2>3, <2>4
<1>4. CallsOnlineOnly'
  <2>1. ASSUME NEW d \in CPUs, irq_pc'[d] = "call"
        PROVE  \/ irq_pc[d] = "call"
               \/ InKernel(d) /\ mbox[d] # {}
    <3>1. CASE DeviceStep \/ TaskStep(c) \/ SendStep(c)
      BY <2>1, <3>1
         DEF DeviceStep, Router, Raise, TaskStep, RequestIrq, DisableIrq,
             SynchronizeIrq, EnableIrq, SendStep, CallSingle, SendReschedule,
             SendIpi, CsdLockWait
    <3>2. CASE IrqStep(c)
      BY <2>1, <3>2
         DEF IrqStep, TakeCascade, SoftirqEnd, DispatchEnd, LevelStart, Handler,
             LevelEnd, AfterIrq, Resume, TypeInv
    <3>3. CASE ReceiveStep(c)
      BY <2>1, <3>3 DEF ReceiveStep, MailboxInterrupt, TakeQueue, RunCsd,
                        SchedulerIpi, Resume, TypeInv
    <3> QED BY <3>1, <3>2, <3>3
  <2> QED BY <1>1, <2>1 DEF BootInv, CallsOnlineOnly, InKernel
<1> QED BY <1>1, <1>2, <1>3, <1>4 DEF BootInv, InKernel

-----------------------------------------------------------------------------
(* Layer 4: calls and wake-ups                                             *)

LEMMA CallInit == Init => CallInv /\ CsdInv
<1> SUFFICES ASSUME Init PROVE CallInv /\ CsdInv
  OBVIOUS
<1>1. CallInv
  BY DEF Init, RouterInit, LinuxIRQInit, CallInv, QueueHasIpi, WakeUpKept
<1>2. CsdInv
  BY DEF Init, CsdInv, CsdAt
<1> QED BY <1>1, <1>2

(* A step outside the mailbox interrupt that adds to mailboxes at most. *)
LEMMA CallInvFrame ==
  ASSUME TypeInv, CallInv,
         UNCHANGED <<call_single_queue, list, action, resched>>,
         cpu_online_map \subseteq cpu_online_map',
         \A c \in CPUs :
           /\ task'[c] = "ipi" <=> task[c] = "ipi"
           /\ task[c] = "ipi" => call'[c] = call[c]
           /\ c \in cpu_online_map => mbox[c] \subseteq mbox'[c]
           /\ irq_pc[c] \in {"call", "run"} \/ irq_pc'[c] \in {"call", "run"}
                => irq_pc'[c] = irq_pc[c]
  PROVE  CallInv'
<1>1. QueueHasIpi'
  <2> SUFFICES ASSUME NEW c \in CPUs, call_single_queue[c] # {}
               PROVE  \/ "call" \in mbox'[c]
                      \/ irq_pc'[c] = "call"
                      \/ \E s \in CPUs : task'[s] = "ipi" /\ call'[s].cpu = c
    BY DEF QueueHasIpi
  <2>1. c \in cpu_online_map
    BY DEF CallInv
  <2>2. \/ "call" \in mbox[c]
        \/ irq_pc[c] = "call"
        \/ \E s \in CPUs : task[s] = "ipi" /\ call[s].cpu = c
    BY DEF CallInv, QueueHasIpi
  <2> QED BY <2>1, <2>2
<1>2. WakeUpKept'
  BY DEF CallInv, WakeUpKept, TypeInv
<1>3. \A c \in CPUs : /\ call_single_queue'[c] # {} => c \in cpu_online_map'
                      /\ task'[c] = "ipi" => call'[c].cpu \in cpu_online_map'
                      /\ action'[c] # {} => irq_pc'[c] \in {"call", "run"}
                      /\ list'[c] # {} => irq_pc'[c] = "run"
  BY DEF CallInv
<1>4. resched' \subseteq cpu_online_map'
  BY DEF CallInv
<1> QED BY <1>1, <1>2, <1>3, <1>4 DEF CallInv

(* Device interrupts. *)
LEMMA CallInvIrq ==
  ASSUME TypeControl, CallInv, NEW c \in CPUs,
         DeviceStep \/ IrqStep(c) \/ TaskStep(c)
  PROVE  CallInv'
<1> USE DEF TypeControl, taskvars, irqvars, routervars, smpvars
<1>1. UNCHANGED <<call_single_queue, list, action, resched, cpu_online_map, mbox,
                  call>>
  BY DEF DeviceStep, Router, IrqStep, TaskStep
<1>2. \A d \in CPUs : irq_pc[d] \in {"call", "run"} \/ irq_pc'[d] \in {"call", "run"}
                        => irq_pc'[d] = irq_pc[d]
  <2>1. CASE DeviceStep \/ TaskStep(c)
    BY <2>1 DEF DeviceStep, Router, Raise, TaskStep, RequestIrq, DisableIrq,
                SynchronizeIrq, EnableIrq
  <2>2. CASE IrqStep(c)
    <3>1. /\ irq_pc[c] \notin {"call", "run"}
          /\ \E pc \in {"none", "softirq", "cascade", "handler", "end"} :
               irq_pc' = [irq_pc EXCEPT ![c] = pc]
      BY <2>2 DEF IrqStep, TakeCascade, IrqsOn, SoftirqEnd, DispatchEnd,
                  LevelStart, Handler, LevelEnd, AfterIrq, Resume
    <3> QED BY <3>1 DEF TypeInv
  <2> QED BY <2>1, <2>2
<1>3. \A d \in CPUs : task'[d] = "ipi" <=> task[d] = "ipi"
  <2>1. CASE DeviceStep \/ IrqStep(c)
    BY <2>1 DEF DeviceStep, Router, Raise, IrqStep, TakeCascade, SoftirqEnd,
                DispatchEnd, LevelStart, Handler, LevelEnd
  <2>2. CASE TaskStep(c)
    <3>1. \/ task' = task
          \/ /\ task[c] # "ipi"
             /\ \E t \in {"idle", "sync", "disabled"} :
                  task' = [task EXCEPT ![c] = t]
      BY <2>2 DEF TaskStep, RequestIrq, DisableIrq, SynchronizeIrq, EnableIrq
    <3> QED BY <3>1 DEF TypeInv
  <2> QED BY <2>1, <2>2
<1> QED BY <1>1, <1>2, <1>3, CallInvFrame

(* The start of a secondary: the boot ROM clears a mailbox, but that of a    *)
(* processor to which nobody sends yet.                                      *)
LEMMA CallInvBoot ==
  ASSUME TypeControl, BootInv, CallInv, NEW c \in CPUs, BootStep(c)
  PROVE  CallInv'
<1> USE DEF TypeControl, taskvars, irqvars, routervars, callvars
<1>1. /\ UNCHANGED <<call_single_queue, list, action, resched, call, irq_pc>>
      /\ cpu_online_map \subseteq cpu_online_map'
  BY DEF BootStep, RomGotIpi, SmpFinish, CallIn, CpuUp, BootSecondary
<1>2. \A d \in CPUs : task'[d] = "ipi" <=> task[d] = "ipi"
  <2>1. \/ task' = task
        \/ /\ task[0] # "ipi"
           /\ \E t \in {"idle", "boot"} : task' = [task EXCEPT ![0] = t]
    BY DEF BootStep, RomGotIpi, SmpFinish, CallIn, CpuUp, BootSecondary
  <2> QED BY <2>1 DEF TypeInv
<1>3. \A d \in cpu_online_map : mbox[d] \subseteq mbox'[d]
  <2>1. CASE RomGotIpi(c)
    <3>1. c \notin cpu_online_map
      BY <2>1 DEF RomGotIpi, BootInv, InKernel
    <3>2. boot_args = c
      BY <2>1, <3>1 DEF RomGotIpi, BootInv
    <3> QED BY <2>1, <3>1, <3>2 DEF RomGotIpi, TypeInv
  <2>2. CASE SmpFinish(c) \/ CallIn(c) \/ CpuUp
    BY <2>2 DEF SmpFinish, CallIn, CpuUp
  <2>3. ASSUME NEW d \in CPUs, BootSecondary(d)
        PROVE  \A e \in cpu_online_map : mbox[e] \subseteq mbox'[e]
    BY <2>3 DEF BootSecondary, TypeInv
  <2> QED BY <2>1, <2>2, <2>3 DEF BootStep
<1> QED BY <1>1, <1>2, <1>3, CallInvFrame

(* generic_exec_single, z48soc_send_ipi_single and smp_send_reschedule. *)
LEMMA CallInvSend ==
  ASSUME TypeControl, CallInv, NEW c \in CPUs, SendStep(c)
  PROVE  CallInv'
<1> USE DEF TypeControl, taskvars, irqvars, routervars, bootvars
<1>1. ASSUME NEW cl \in Calls, CallSingle(c, cl) PROVE CallInv'
  <2>1. cl.cpu \in CPUs /\ cl.cpu \in cpu_online_map /\ task[c] = "idle"
    BY <1>1 DEF CallSingle, Idle, Calls
  <2>2. /\ UNCHANGED <<list, action, resched, cpu_online_map, mbox, irq_pc>>
        /\ call' = [call EXCEPT ![c] = cl]
        /\ \E d \in Csd : call_single_queue' =
             [call_single_queue EXCEPT ![cl.cpu] = @ \cup {d}]
        /\ IF call_single_queue[cl.cpu] = {}
           THEN task' = [task EXCEPT ![c] = "ipi"]
           ELSE task' = [task EXCEPT ![c] = "csd_lock_wait"]
    BY <1>1 DEF CallSingle, AfterExec, Csd, Calls
  <2>3. QueueHasIpi'
    <3> SUFFICES ASSUME NEW d \in CPUs, call_single_queue'[d] # {}
                 PROVE  \/ "call" \in mbox'[d]
                        \/ irq_pc'[d] = "call"
                        \/ \E s \in CPUs : task'[s] = "ipi" /\ call'[s].cpu = d
      BY DEF QueueHasIpi
    <3>1. CASE d = cl.cpu /\ call_single_queue[d] = {}
      <4>1. task'[c] = "ipi" /\ call'[c].cpu = d
        BY <2>2, <3>1 DEF TypeInv
      <4> QED BY <4>1
    <3>2. CASE call_single_queue[d] # {}
      <4>1. \/ "call" \in mbox[d]
            \/ irq_pc[d] = "call"
            \/ \E s \in CPUs : task[s] = "ipi" /\ call[s].cpu = d
        BY <3>2 DEF CallInv, QueueHasIpi
      <4>2. ASSUME NEW s \in CPUs, task[s] = "ipi"
            PROVE  task'[s] = "ipi" /\ call'[s] = call[s]
        BY <2>1, <2>2, <4>2 DEF TypeInv
      <4> QED BY <2>2, <4>1, <4>2
    <3> QED BY <2>2, <3>1, <3>2 DEF TypeInv
  <2>4. WakeUpKept'
    BY <2>2 DEF CallInv, WakeUpKept
  <2>5. \A d \in CPUs : call_single_queue'[d] # {} => d \in cpu_online_map'
    BY <2>1, <2>2 DEF CallInv, TypeInv
  <2>6. \A d \in CPUs : task'[d] = "ipi" => call'[d].cpu \in cpu_online_map'
    BY <2>1, <2>2 DEF CallInv, TypeInv
  <2> QED BY <2>2, <2>3, <2>4, <2>5, <2>6 DEF CallInv
<1>2. ASSUME NEW d \in CPUs, SendReschedule(c, d) PROVE CallInv'
  <2>1. /\ UNCHANGED <<list, action, call_single_queue, cpu_online_map, irq_pc,
                       task, call>>
        /\ resched' = resched \cup {d} /\ d \in cpu_online_map
        /\ mbox' = [mbox EXCEPT ![d] = @ \cup {"resched"}]
    BY <1>2 DEF SendReschedule
  <2>2. QueueHasIpi'
    BY <2>1 DEF CallInv, QueueHasIpi, TypeInv
  <2>3. WakeUpKept'
    BY <2>1 DEF CallInv, WakeUpKept, TypeInv
  <2> QED BY <2>1, <2>2, <2>3 DEF CallInv
<1>3. CASE SendIpi(c)
  <2>1. /\ UNCHANGED <<list, action, call_single_queue, cpu_online_map, irq_pc,
                       call, resched>>
        /\ mbox' = [mbox EXCEPT ![call[c].cpu] = @ \cup {"call"}]
        /\ task' = [task EXCEPT ![c] = "csd_lock_wait"]
    BY <1>3 DEF SendIpi, AfterExec, callvars
  <2>2. QueueHasIpi'
    BY <2>1 DEF CallInv, QueueHasIpi, TypeInv
  <2>3. WakeUpKept'
    BY <2>1 DEF CallInv, WakeUpKept, TypeInv
  <2> QED BY <2>1, <2>2, <2>3 DEF CallInv, TypeInv
<1>4. CASE CsdLockWait(c)
  <2>1. /\ UNCHANGED <<call_single_queue, list, action, resched, cpu_online_map,
                       mbox, irq_pc>>
        /\ task[c] = "csd_lock_wait" /\ task' = [task EXCEPT ![c] = "idle"]
        /\ call' = [call EXCEPT ![c] = NoCall]
    BY <1>4 DEF CsdLockWait
  <2>2. \A d \in CPUs : /\ task'[d] = "ipi" <=> task[d] = "ipi"
                        /\ task[d] = "ipi" => call'[d] = call[d]
    BY <2>1 DEF TypeInv
  <2> QED BY <2>1, <2>2, CallInvFrame
<1> QED BY <1>1, <1>2, <1>3, <1>4 DEF SendStep

(* z48soc_mailbox_interrupt. *)
LEMMA CallInvReceive ==
  ASSUME TypeControl, CallInv, NEW c \in CPUs, ReceiveStep(c)
  PROVE  CallInv'
<1> USE DEF TypeControl, taskvars, routervars, bootvars
<1>1. CASE MailboxInterrupt(c)
  <2>1. /\ UNCHANGED <<call_single_queue, list, call, task, resched,
                       cpu_online_map>>
        /\ irq_pc[c] \in {"none", "softirq"}
        /\ action' = [action EXCEPT ![c] = mbox[c]]
        /\ mbox' = [mbox EXCEPT ![c] = {}]
        /\ irq_pc' = [irq_pc EXCEPT ![c] =
                        IF "call" \in mbox[c] THEN "call" ELSE "run"]
    BY <1>1 DEF MailboxInterrupt, IrqsOn
  <2>2. action[c] = {} /\ list[c] = {}
    BY <2>1 DEF CallInv
  <2>3. QueueHasIpi'
    BY <2>1 DEF CallInv, QueueHasIpi, TypeInv
  <2>4. WakeUpKept'
    BY <2>1, <2>2 DEF CallInv, WakeUpKept, TypeInv
  <2>5. \A d \in CPUs : /\ action'[d] # {} => irq_pc'[d] \in {"call", "run"}
                        /\ list'[d] # {} => irq_pc'[d] = "run"
    BY <2>1, <2>2 DEF CallInv, TypeInv
  <2> QED BY <2>1, <2>3, <2>4, <2>5 DEF CallInv
<1>2. CASE TakeQueue(c)
  <2>1. /\ UNCHANGED <<call, task, resched, cpu_online_map, mbox, action>>
        /\ irq_pc[c] = "call" /\ irq_pc' = [irq_pc EXCEPT ![c] = "run"]
        /\ list' = [list EXCEPT ![c] = call_single_queue[c]]
        /\ call_single_queue' = [call_single_queue EXCEPT ![c] = {}]
    BY <1>2 DEF TakeQueue
  <2>2. QueueHasIpi'
    BY <2>1 DEF CallInv, QueueHasIpi, TypeInv
  <2>3. WakeUpKept'
    BY <2>1 DEF CallInv, WakeUpKept
  <2> QED BY <2>1, <2>2, <2>3 DEF CallInv, TypeInv
<1>3. CASE SchedulerIpi(c)
  <2>1. /\ UNCHANGED <<call, task, cpu_online_map, mbox, list,
                       call_single_queue>>
        /\ irq_pc[c] = "run" /\ list[c] = {}
        /\ \E pc \in {"none", "softirq"} : irq_pc' = [irq_pc EXCEPT ![c] = pc]
        /\ action' = [action EXCEPT ![c] = {}]
        /\ resched' = IF "resched" \in action[c] THEN resched \ {c} ELSE resched
    BY <1>3 DEF SchedulerIpi, Resume
  <2>2. QueueHasIpi'
    BY <2>1 DEF CallInv, QueueHasIpi, TypeInv
  <2>3. WakeUpKept'
    BY <2>1 DEF CallInv, WakeUpKept, TypeInv
  <2> QED BY <2>1, <2>2, <2>3 DEF CallInv, TypeInv
<1>4. ASSUME NEW d \in Csd, RunCsd(c, d) PROVE CallInv'
  <2>1. /\ UNCHANGED <<call, task, cpu_online_map, mbox, call_single_queue,
                       irq_pc, action, resched>>
        /\ list' = [list EXCEPT ![c] = @ \ {d}]
    BY <1>4 DEF RunCsd, irqvars
  <2>2. QueueHasIpi' /\ WakeUpKept'
    BY <2>1 DEF CallInv, QueueHasIpi, WakeUpKept
  <2> QED BY <2>1, <2>2 DEF CallInv, TypeInv
<1> QED BY <1>1, <1>2, <1>3, <1>4 DEF ReceiveStep

(* A csd is locked, queued, taken and unlocked in one place at a time. *)
LEMMA CsdInvNext ==
  ASSUME TypeControl, CallInv, CsdInv, Next
  PROVE  CsdInv'
<1> USE DEF TypeControl, taskvars, irqvars, routervars, bootvars
<1>1. ASSUME NEW c \in CPUs, NEW cl \in Calls, CallSingle(c, cl) PROVE CsdInv'
  <2>1. /\ cl.cpu \in CPUs /\ <<c, cl.wait>> \notin csd_lock /\ list' = list
        /\ csd_lock' = csd_lock \cup {<<c, cl.wait>>}
        /\ call_single_queue' =
             [call_single_queue EXCEPT ![cl.cpu] = @ \cup {<<c, cl.wait>>}]
    BY <1>1 DEF CallSingle, Calls
  <2>2. \A d \in Csd \ {<<c, cl.wait>>} : \A e \in CPUs :
          /\ d \in call_single_queue'[e] <=> d \in call_single_queue[e]
          /\ d \in csd_lock' <=> d \in csd_lock
    BY <2>1 DEF TypeInv
  <2>3. ASSUME NEW d \in Csd, d = <<c, cl.wait>>
        PROVE  /\ d \in csd_lock' /\ CsdAt(d, cl.cpu)' /\ d \notin list'[cl.cpu]
               /\ \A e \in CPUs \ {cl.cpu} : ~CsdAt(d, e)'
    BY <2>1, <2>3 DEF CsdInv, CsdAt, TypeInv
  <2>4. ASSUME NEW d \in Csd, d # <<c, cl.wait>>
        PROVE  /\ d \notin csd_lock' => \A e \in CPUs : ~CsdAt(d, e)'
               /\ d \in csd_lock' =>
                    \E e \in CPUs :
                      /\ CsdAt(d, e)'
                      /\ ~(d \in call_single_queue'[e] /\ d \in list'[e])
                      /\ \A f \in CPUs \ {e} : ~CsdAt(d, f)'
    BY <2>1, <2>2, <2>4 DEF CsdInv, CsdAt
  <2> QED BY <2>1, <2>3, <2>4 DEF CsdInv
<1>2. ASSUME NEW c \in CPUs, TakeQueue(c) PROVE CsdInv'
  <2>1. /\ irq_pc[c] = "call" /\ csd_lock' = csd_lock
        /\ list' = [list EXCEPT ![c] = call_single_queue[c]]
        /\ call_single_queue' = [call_single_queue EXCEPT ![c] = {}]
    BY <1>2 DEF TakeQueue
  <2>2. list[c] = {}
    BY <2>1 DEF CallInv
  <2>3. \A d \in Csd, e \in CPUs :
          /\ CsdAt(d, e)' <=> CsdAt(d, e)
          /\ ~(d \in call_single_queue[e] /\ d \in list[e])
               => ~(d \in call_single_queue'[e] /\ d \in list'[e])
    BY <2>1, <2>2 DEF CsdAt, TypeInv
  <2> QED BY <2>1, <2>3 DEF CsdInv
<1>3. ASSUME NEW c \in CPUs, NEW d \in Csd, RunCsd(c, d) PROVE CsdInv'
  <2>1. /\ d \in list[c] /\ csd_lock' = csd_lock \ {d}
        /\ list' = [list EXCEPT ![c] = @ \ {d}]
        /\ UNCHANGED call_single_queue
    BY <1>3 DEF RunCsd
  <2>2. d \in csd_lock /\ d \notin call_single_queue[c]
    BY <2>1 DEF CsdInv, CsdAt
  <2>3. \A e \in CPUs \ {c} : ~CsdAt(d, e)
    BY <2>1 DEF CsdInv, CsdAt
  <2>4. \A e \in CPUs : ~CsdAt(d, e)'
    BY <2>1, <2>2, <2>3 DEF CsdAt, TypeInv
  <2>5. \A g \in Csd \ {d}, e \in CPUs :
          /\ g \in list'[e] <=> g \in list[e]
          /\ g \in csd_lock' <=> g \in csd_lock
    BY <2>1 DEF TypeInv
  <2>6. ASSUME NEW g \in Csd \ {d}
        PROVE  /\ g \notin csd_lock' => \A e \in CPUs : ~CsdAt(g, e)'
               /\ g \in csd_lock' =>
                    \E e \in CPUs :
                      /\ CsdAt(g, e)'
                      /\ ~(g \in call_single_queue'[e] /\ g \in list'[e])
                      /\ \A f \in CPUs \ {e} : ~CsdAt(g, f)'
    BY <2>1, <2>5, <2>6 DEF CsdInv, CsdAt
  <2> QED BY <2>1, <2>4, <2>6 DEF CsdInv
<1>4. ASSUME UNCHANGED <<call_single_queue, csd_lock, list>> PROVE CsdInv'
  BY <1>4 DEF CsdInv, CsdAt
<1>5. CASE DeviceStep \/ \E c \in CPUs : IrqStep(c) \/ TaskStep(c)
  BY <1>5, <1>4 DEF DeviceStep, Router, IrqStep, TaskStep, smpvars
<1>6. ASSUME NEW c \in CPUs, BootStep(c) PROVE CsdInv'
  BY <1>6, <1>4 DEF BootStep, RomGotIpi, SmpFinish, CallIn, CpuUp,
                    BootSecondary, callvars
<1>7. ASSUME NEW c \in CPUs, SendStep(c) PROVE CsdInv'
  BY <1>7, <1>1, <1>4 DEF SendStep, SendReschedule, SendIpi, CsdLockWait,
                          callvars
<1>8. ASSUME NEW c \in CPUs, ReceiveStep(c) PROVE CsdInv'
  BY <1>8, <1>2, <1>3, <1>4 DEF ReceiveStep, MailboxInterrupt, SchedulerIpi
<1> QED BY <1>5, <1>6, <1>7, <1>8, StepGroups

LEMMA CallInvariant == Spec => [](BootInv /\ CallInv /\ CsdInv)
<1> DEFINE Inv == BootInv /\ CallInv /\ CsdInv
<1>1. TypeControl /\ Inv /\ [Next]_vars => Inv'
  <2> SUFFICES ASSUME TypeControl, Inv, [Next]_vars PROVE Inv'
    OBVIOUS
  <2>1. CASE Next
    <3>1. 0 \in CPUs
      BY CPU0
    <3>2. BootInv'
      BY <2>1, <3>1, StepGroups, BootInvBoot, BootInvOther DEF TypeControl
    <3>3. CallInv'
      BY <2>1, <3>1, StepGroups, CallInvIrq, CallInvBoot, CallInvSend,
         CallInvReceive DEF TypeControl
    <3>4. CsdInv'
      BY <2>1, CsdInvNext
    <3> QED BY <3>2, <3>3, <3>4
  <2>2. CASE UNCHANGED vars
    <3> USE <2>2 DEF vars, smpvars, irqvars, taskvars
    <3>1. BootInv'
      BY DEF BootInv, InKernel, CallsOnlineOnly
    <3>2. CallInv'
      BY DEF CallInv, QueueHasIpi, WakeUpKept
    <3>3. CsdInv'
      BY DEF CsdInv, CsdAt
    <3> QED BY <3>1, <3>2, <3>3
  <2> QED BY <2>1, <2>2
<1>2. Init => Inv
  BY BootInit, CallInit
<1> QED BY <1>1, <1>2, TypeControlInvariant, PTL DEF Spec

(* Counting the places of a csd. *)
LEMMA CsdCount == CsdInv => CsdOnce
<1> SUFFICES ASSUME CsdInv, NEW d \in Csd
             PROVE  Cardinality({c \in CPUs : d \in call_single_queue[c]})
                      + Cardinality({c \in CPUs : d \in list[c]})
                    = IF d \in csd_lock THEN 1 ELSE 0
  BY DEF CsdOnce
<1> DEFINE Q == {c \in CPUs : d \in call_single_queue[c]}
           L == {c \in CPUs : d \in list[c]}
<1>1. Cardinality({}) = 0 /\ \A c : Cardinality({c}) = 1
  BY FS_EmptySet, FS_Singleton
<1>2. CASE d \notin csd_lock
  <2>1. Q = {} /\ L = {}
    BY <1>2 DEF CsdInv, CsdAt
  <2> QED BY <1>1, <1>2, <2>1
<1>3. CASE d \in csd_lock
  <2>1. PICK c \in CPUs : /\ CsdAt(d, c)
                          /\ ~(d \in call_single_queue[c] /\ d \in list[c])
                          /\ \A e \in CPUs \ {c} : ~CsdAt(d, e)
    BY <1>3 DEF CsdInv
  <2>2. \/ Q = {c} /\ L = {}
        \/ Q = {} /\ L = {c}
    BY <2>1 DEF CsdAt
  <2>3. \/ Cardinality(Q) = 1 /\ Cardinality(L) = 0
        \/ Cardinality(Q) = 0 /\ Cardinality(L) = 1
    BY <1>1, <2>2
  <2> HIDE DEF Q, L
  <2>4. Cardinality(Q) + Cardinality(L) = 1
    BY <2>3
  <2> QED BY <1>3, <2>4 DEF Q, L
<1> QED BY <1>2, <1>3

(* Mailbox interrupts are safe, for any number of processors and any calls   *)
(* and wake-ups: a call queue that is not empty always has an interrupt on   *)
(* its way, although only the first csd of a queue sends one; a csd is in    *)
(* one place while it is locked, so its function runs once; a call interrupt *)
(* meets an online processor, although the flags that start a secondary are  *)
(* the same as those of a call; and a wake-up is kept until it is delivered  *)
(* (smp.c, z48soc smp.c, boot_secondary.S, mbox.vhd).                        *)
THEOREM IpiSafety == Spec => []IpiSafe
<1>1. BootInv /\ CallInv /\ CsdInv => IpiSafe
  BY CsdCount DEF BootInv, CallInv, IpiSafe
<1> QED BY <1>1, CallInvariant, PTL
=============================================================================
