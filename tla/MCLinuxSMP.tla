----------------------------- MODULE MCLinuxSMP -----------------------------
(***************************************************************************)
(* Workloads for LinuxSMP on two processors: two device interrupts, one of *)
(* which CPU 1 disables now and then; and one device interrupt, disabled   *)
(* by both, beside calls of both kinds and wake-ups.                       *)
(***************************************************************************)
EXTENDS LinuxSMP

CONSTANTS i1, i2

MCWorks ==
  {[irqs |-> {i1, i2}, disables |-> {<<1, i2>>}, calls |-> {}, wakes |-> {}],
   [irqs |-> {i1}, disables |-> CPUs \X {i1},
    calls |-> {<<0, TRUE>>, <<1, TRUE>>, <<1, FALSE>>}, wakes |-> {1}]}
=============================================================================
