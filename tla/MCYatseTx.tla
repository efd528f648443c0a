----------------------------- MODULE MCYatseTx -----------------------------
(* The frames of the yatse_tx run: one of two words whose length passes    *)
(* below zero on the way, and two of a single word, on and off its border. *)
EXTENDS YatseTx, TLC

CONSTANTS s1, s2, s3

MCLen0 == s1 :> 3 @@ s2 :> 4 @@ s3 :> 2
MCOffset0 == s1 :> 2 @@ s2 :> 0 @@ s3 :> 1
=============================================================================
