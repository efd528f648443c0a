----------------------------- MODULE MCYatseRx -----------------------------
(* The frames of the yatse_rx run: part of a beat, a full buffer, one byte *)
(* too long, and one the MAC marks bad.                                    *)
EXTENDS YatseRx

Kind(l, e) == [len |-> l, error |-> e]
MCFrameKinds == {Kind(1, FALSE), Kind(3, FALSE), Kind(4, FALSE),
                 Kind(2, TRUE)}
=============================================================================
