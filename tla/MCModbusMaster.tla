---------------------------- MODULE MCModbusMaster ----------------------------
(* Two reads from one slave, with answers of different length, and a write to   *)
(* another one.                                                                 *)
EXTENDS ModbusMaster

MCReqs == <<[slave |-> "a", wr_flag |-> FALSE, answer_length |-> 3],
            [slave |-> "a", wr_flag |-> FALSE, answer_length |-> 2],
            [slave |-> "b", wr_flag |-> TRUE, answer_length |-> 2]>>
===============================================================================
