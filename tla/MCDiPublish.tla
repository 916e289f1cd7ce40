------------------------------ MODULE MCDiPublish -----------------------------
(* Small instances of the publication of discrete inputs for TLC. *)
EXTENDS DiPublish

TwoBytes == <<{1}, {2}>>
===============================================================================
