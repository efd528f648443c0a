------------------------------ MODULE LinuxIRQ ------------------------------
(***************************************************************************)
(* What the kernel does with the interrupt router: plat_irq_dispatch reads *)
(* the flags of its processor once and runs handle_level_irq on each of    *)
(* them; tasks enable and disable interrupts.  A region under the lock of  *)
(* an irq_desc is one step.                                                *)
(*                                                                         *)
(* Interrupts are off in a handler and on in the softirqs that irq_exit    *)
(* runs between two interrupts of one dispatch, where the processor may be *)
(* interrupted once more: cascade is the stack of what is left to do.      *)
(* LinuxSMP composes these actions with the mailboxes of the processors.   *)
(***************************************************************************)
EXTENDS ZIrqRouter, Sequences

CONSTANT NoIrq   \* no interrupt

ASSUME NoIrqParam == NoIrq \notin Irqs

VARIABLES
  inprogress,   \* interrupts with IRQD_IRQ_INPROGRESS
  depth,        \* per interrupt: desc->depth, disabled when it is not 0
  irq_pc,       \* per processor: step of the interrupt it handles
  cascade,      \* per processor: stack of interrupts still to handle
  cur,          \* per processor: interrupt in handle_level_irq
  task,         \* per processor: step of the task it runs
  about         \* per processor: interrupt its task disables

irqvars == <<inprogress, depth, irq_pc, cascade, cur>>
taskvars == <<task, about>>

LinuxIRQInit ==
  /\ inprogress = {}
  /\ depth = [i \in Irqs |-> 1]
  /\ irq_pc = [c \in CPUs |-> "none"]
  /\ cascade = [c \in CPUs |-> <<>>]
  /\ cur = [c \in CPUs |-> NoIrq]
  /\ task = [c \in CPUs |-> "idle"]
  /\ about = [c \in CPUs |-> NoIrq]

\* The processor takes interrupts: in a task or in a softirq.
IrqsOn(c) == irq_pc[c] \in {"none", "softirq"}

\* Where a processor goes on after an interrupt, given what it left behind.
Resume(stack) == IF stack = <<>> THEN "none" ELSE "softirq"

-----------------------------------------------------------------------------
(* Interrupt level                                                         *)

\* A device raises its line (external).
Raise(i) ==
  /\ i \notin irqs_in
  /\ irqs_in' = irqs_in \cup {i}
  /\ UNCHANGED <<irq_mask, route_cpu, percpu_irq_flags, irqvars, taskvars>>

\* plat_irq_dispatch for the cascade interrupt: one read of the flags, which
\* the router may have withdrawn by then.
TakeCascade(c) ==
  /\ IrqsOn(c) /\ irqs_out(c)
  /\ irq_pc' = [irq_pc EXCEPT ![c] = "cascade"]
  /\ cascade' = [cascade EXCEPT ![c] = <<percpu_irq_flags[c]>> \o @]
  /\ UNCHANGED <<routervars, inprogress, depth, cur, taskvars>>

\* Slip: softirqs run inside of softirqs.
AfterIrqNested(c) ==
  \E pc \in {"cascade", "softirq"} :
    /\ irq_pc' = [irq_pc EXCEPT ![c] = pc]

\* do_IRQ of one interrupt is over: irq_exit runs softirqs if it was not
\* entered from one.
AfterIrq(c) ==
  \E pc \in {"cascade", "softirq"} :
    /\ pc = "softirq" => Len(cascade[c]) = 1
    /\ irq_pc' = [irq_pc EXCEPT ![c] = pc]

\* handle_level_irq up to the handler: the interrupt is masked; one that a
\* processor handles already, or that is disabled, is left so.
LevelStart(c, i) ==
  /\ irq_pc[c] = "cascade" /\ i \in Head(cascade[c])
  /\ irq_mask' = irq_mask \ {i}
  /\ cascade' = [cascade EXCEPT ![c] = <<Head(@) \ {i}>> \o Tail(@)]
  /\ \/ /\ i \in inprogress \/ depth[i] > 0
        /\ AfterIrq(c)
        /\ UNCHANGED <<inprogress, cur>>
     \/ /\ i \notin inprogress /\ depth[i] = 0
        /\ inprogress' = inprogress \cup {i}
        /\ cur' = [cur EXCEPT ![c] = i]
        /\ irq_pc' = [irq_pc EXCEPT ![c] = "handler"]
  /\ UNCHANGED <<irqs_in, route_cpu, percpu_irq_flags, depth, taskvars>>

\* The device's handler quiets the line (external).
Handler(c) ==
  /\ irq_pc[c] = "handler"
  /\ irqs_in' = irqs_in \ {cur[c]}
  /\ irq_pc' = [irq_pc EXCEPT ![c] = "end"]
  /\ UNCHANGED <<irq_mask, route_cpu, percpu_irq_flags, inprogress, depth,
                 cascade, cur, taskvars>>

\* Slip: the interrupt stays masked.
LevelEndMasked(c) ==
  /\ irq_pc[c] = "end"
  /\ inprogress' = inprogress \ {cur[c]}
  /\ irq_mask' = irq_mask
  /\ cur' = [cur EXCEPT ![c] = NoIrq]
  /\ AfterIrq(c)
  /\ UNCHANGED <<irqs_in, route_cpu, percpu_irq_flags, depth, cascade,
                 taskvars>>

\* handle_irq_event and handle_level_irq after the handler: unmask, unless
\* the interrupt was disabled meanwhile.
LevelEnd(c) ==
  /\ irq_pc[c] = "end"
  /\ inprogress' = inprogress \ {cur[c]}
  /\ irq_mask' = IF depth[cur[c]] = 0 THEN irq_mask \cup {cur[c]} ELSE irq_mask
  /\ cur' = [cur EXCEPT ![c] = NoIrq]
  /\ AfterIrq(c)
  /\ UNCHANGED <<irqs_in, route_cpu, percpu_irq_flags, depth, cascade,
                 taskvars>>

\* The softirqs are done: on with the interrupts read before them.
SoftirqEnd(c) ==
  /\ irq_pc[c] = "softirq"
  /\ irq_pc' = [irq_pc EXCEPT ![c] = "cascade"]
  /\ UNCHANGED <<routervars, inprogress, depth, cascade, cur, taskvars>>

\* plat_irq_dispatch returns.
DispatchEnd(c) ==
  /\ irq_pc[c] = "cascade" /\ Head(cascade[c]) = {}
  /\ cascade' = [cascade EXCEPT ![c] = Tail(@)]
  /\ irq_pc' = [irq_pc EXCEPT ![c] = Resume(Tail(cascade[c]))]
  /\ UNCHANGED <<routervars, inprogress, depth, cur, taskvars>>

-----------------------------------------------------------------------------
(* Task level: a task moves only outside interrupts                        *)

InTask(c) == irq_pc[c] = "none"

\* setup_irq of a driver, once: irq_startup, irq_enable.
RequestIrq(c, i) ==
  /\ InTask(c) /\ task[c] = "idle"
  /\ depth[i] = 1 /\ \A d \in CPUs : about[d] # i
  /\ depth' = [depth EXCEPT ![i] = 0]
  /\ irq_mask' = irq_mask \cup {i}
  /\ UNCHANGED <<irqs_in, route_cpu, percpu_irq_flags, inprogress, irq_pc,
                 cascade, cur, taskvars>>

\* disable_irq: the chip has no irq_disable, the line stays unmasked until it
\* fires.
DisableIrq(c, i) ==
  /\ InTask(c) /\ task[c] = "idle"
  /\ depth[i] = 0 \/ \E d \in CPUs : about[d] = i
  /\ depth' = [depth EXCEPT ![i] = @ + 1]
  /\ task' = [task EXCEPT ![c] = "sync"]
  /\ about' = [about EXCEPT ![c] = i]
  /\ UNCHANGED <<routervars, inprogress, irq_pc, cascade, cur>>

\* Slip: disable_irq does not wait for the handler.
SynchronizeIrqNoWait(c) ==
  /\ InTask(c) /\ task[c] = "sync"
  /\ task' = [task EXCEPT ![c] = "disabled"]
  /\ UNCHANGED <<routervars, irqvars, about>>

\* synchronize_irq: its last look is under the lock.
SynchronizeIrq(c) ==
  /\ InTask(c) /\ task[c] = "sync" /\ about[c] \notin inprogress
  /\ task' = [task EXCEPT ![c] = "disabled"]
  /\ UNCHANGED <<routervars, irqvars, about>>

\* enable_irq: the last one unmasks.
EnableIrq(c) ==
  /\ InTask(c) /\ task[c] = "disabled"
  /\ depth' = [depth EXCEPT ![about[c]] = @ - 1]
  /\ irq_mask' = IF depth[about[c]] = 1 THEN irq_mask \cup {about[c]}
                 ELSE irq_mask
  /\ task' = [task EXCEPT ![c] = "idle"]
  /\ about' = [about EXCEPT ![c] = NoIrq]
  /\ UNCHANGED <<irqs_in, route_cpu, percpu_irq_flags, inprogress, irq_pc,
                 cascade, cur>>
=============================================================================
