----------------------------- MODULE ZIrqRouter -----------------------------
(***************************************************************************)
(* zirqrouter.vhd: one state machine per device interrupt that hands the   *)
(* interrupt to one processor, and a mask all processors share.  A machine *)
(* is s_dispatched exactly while its flag is set on a processor.           *)
(***************************************************************************)
EXTENDS Naturals

CONSTANTS
  NCPUS,   \* processors, a power of two
  Irqs     \* device interrupts

ASSUME RouterParams == NCPUS \in Nat \ {0}

CPUs == 0 .. NCPUS - 1

VARIABLES
  irqs_in,           \* interrupts whose device line is up
  irq_mask,          \* interrupts that are not masked
  route_cpu,         \* per interrupt: the processor its machine looks at
  percpu_irq_flags   \* per processor: interrupts handed to it

routervars == <<irqs_in, irq_mask, route_cpu, percpu_irq_flags>>

irqs_out(c) == percpu_irq_flags[c] # {}
Dispatched(i) == \E c \in CPUs : i \in percpu_irq_flags[c]
Pending(i) == i \in irqs_in /\ i \in irq_mask

\* One clock: a pending interrupt moves past a busy processor or is handed to
\* an idle one, a dispatched one whose line or mask bit is down is withdrawn.
\* All machines look at the flags of the clock before.
RouterClock ==
  /\ route_cpu' = [i \in Irqs |->
       IF Pending(i) /\ ~Dispatched(i) /\ irqs_out(route_cpu[i])
       THEN (route_cpu[i] + 1) % NCPUS ELSE route_cpu[i]]
  /\ percpu_irq_flags' = [c \in CPUs |->
       {i \in Irqs : /\ Pending(i)
                     /\ \/ i \in percpu_irq_flags[c]
                        \/ /\ ~Dispatched(i) /\ route_cpu[i] = c
                           /\ ~irqs_out(c)}]
  /\ UNCHANGED <<irqs_in, irq_mask>>

RouterInit ==
  /\ irqs_in = {} /\ irq_mask = {}
  /\ route_cpu = [i \in Irqs |-> 0]
  /\ percpu_irq_flags = [c \in CPUs |-> {}]
=============================================================================
