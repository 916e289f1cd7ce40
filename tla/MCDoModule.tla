------------------------------ MODULE MCDoModule ------------------------------
(* Small instances of the output modules for TLC. *)
EXTENDS DoModule

SecondSteady == {2}
===============================================================================
