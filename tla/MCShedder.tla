----------------------------- MODULE MCShedder ------------------------------
(* Small instances of Shedder: one pressure below, at and between thresholds. *)
EXTENDS Shedder

Samples == {0, 60, 75, 89, 98, 100}
=============================================================================
