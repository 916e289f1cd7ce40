------------------------------- MODULE CanQueue -------------------------------
(***************************************************************************)
(* What the callers of add_tx_can_packet and can_write_from_stack rely on: *)
(* a first-in first-out queue of whole packets between the callers and the *)
(* bus.  The promise ends with the first fault (ok = FALSE): an overflow,  *)
(* or an interrupt adding a packet in the middle of an add of canTask.     *)
(***************************************************************************)
EXTENDS Naturals, Sequences

CONSTANTS
  Parts,      \* what the content of a packet is made of
  Packets     \* the packets callers may add

VARIABLES queue, bus, ok

vars == <<queue, bus, ok>>

Init == queue = << >> /\ bus = << >> /\ ok = TRUE

Accept ==
  /\ ok
  /\ \E m \in Packets : queue' = Append(queue, m)
  /\ UNCHANGED <<bus, ok>>

Transmit ==
  /\ ok
  /\ queue # << >>
  /\ bus' = Append(bus, [p \in Parts |-> Head(queue)])
  /\ queue' = Tail(queue)
  /\ UNCHANGED ok

Fault == ok' = FALSE /\ queue' = << >> /\ bus' = << >>

Next == Accept \/ Transmit \/ Fault

Spec == Init /\ [][Next]_vars
=============================================================================
