----------------------------- MODULE ConfigStore -----------------------------
(***************************************************************************)
(* What the rest of the firmware relies on when it calls EE_WriteVariable: *)
(* a store of variables, in which a write takes effect at once or not at   *)
(* all, has taken effect when the call returns, and survives every reset.  *)
(* The promise ends with the first reset the pages cannot recover from     *)
(* (ok = FALSE).                                                           *)
(***************************************************************************)
CONSTANTS Vars, Vals, Absent, NoRequest

VARIABLES store, request, ok

vars == <<store, request, ok>>

Request == [var : Vars, val : Vals]

Init ==
  /\ store = [v \in Vars |-> Absent]
  /\ request = NoRequest
  /\ ok = TRUE

Begin ==
  /\ ok
  /\ request = NoRequest
  /\ request' \in Request
  /\ UNCHANGED <<store, ok>>

Commit ==
  /\ ok
  /\ request # NoRequest
  /\ store' = [store EXCEPT ![request.var] = request.val]
  /\ UNCHANGED <<request, ok>>

End ==
  /\ ok
  /\ request # NoRequest
  /\ store[request.var] = request.val
  /\ request' = NoRequest
  /\ UNCHANGED <<store, ok>>

Reset ==
  /\ ok
  /\ request' = NoRequest
  /\ UNCHANGED <<store, ok>>

Fault ==
  /\ ok' = FALSE
  /\ store' = [v \in Vars |-> Absent]
  /\ request' = NoRequest

Next == Begin \/ Commit \/ End \/ Reset \/ Fault

Spec == Init /\ [][Next]_vars
==============================================================================
