---------------------------- MODULE MCStreamFlow ----------------------------
(* Instances of StreamFlow for TLC. *)
EXTENDS StreamFlow

TwoMarks == {<<0, 1>>, <<1, 2>>}
=============================================================================
