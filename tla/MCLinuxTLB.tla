----------------------------- MODULE MCLinuxTLB -----------------------------
(***************************************************************************)
(* The pages of the small instance: data accesses to a changing page and   *)
(* to kseg0, which share a set of the micro TLB, and fetches from another  *)
(* mapped page.                                                            *)
(***************************************************************************)
EXTENDS LinuxTLB
MCDtlbPages == {<<0, 1>>, <<VPN2S, 1>>}
MCItlbPages == {<<1, 0>>}
=============================================================================
