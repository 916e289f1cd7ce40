----------------------------- MODULE MCBootConfig -----------------------------
(* The address of the net, the two halves of the IP address and the types of    *)
(* the analog inputs; the other registers are treated as the halves are.        *)
EXTENDS BootConfig

MCRegs == <<"net", "ip12", "ip34", "ai_type">>
===============================================================================
