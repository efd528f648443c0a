------------------------------- MODULE MCSMP -------------------------------
(***************************************************************************)
(* Small instances of SMP for TLC.                                         *)
(***************************************************************************)
EXTENDS SMPRefinement, TLC

\* All lines share the one set of the victim cache.
OneL2Set == [l \in Lines |-> 1]

\* Lines and values are only compared for equality.
LineValueSymmetry == Permutations(Lines) \union Permutations(Val)
=============================================================================
