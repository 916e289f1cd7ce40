------------------------------ MODULE DiPublish -------------------------------
(***************************************************************************)
(* How the discrete inputs reach the other nodes.  defaultTask derives the *)
(* state and the fault of every input from its analogue level and flags    *)
(* the inputs that changed in update_di (din.c); canTask sends the flagged *)
(* inputs byte by byte and clears their flags (update_di_data), and flags  *)
(* all of them anew from time to time (send_changed_data, update_all_data).*)
(*                                                                         *)
(* The two tasks have one priority and are time-sliced: each may be        *)
(* stopped between any two accesses to din, din_fault and update_di, and   *)
(* a |= or &= on update_di is a load and a store.                          *)
(***************************************************************************)
EXTENDS Naturals, Sequences, FiniteSetsExt

CONSTANTS
  NumInputs,      \* DI_CNT
  Bytes,          \* the inputs sent in one frame, for each frame in turn
  MaxChanges      \* bound: changes of the levels of the inputs

Inputs == 1 .. NumInputs

ASSUME DiAssumption ==
  /\ NumInputs \in Nat \ {0} /\ MaxChanges \in Nat
  /\ Bytes \in Seq(SUBSET Inputs) /\ Bytes # << >>
  /\ \A i \in Inputs : \E b \in DOMAIN Bytes : i \in Bytes[b]

VARIABLES
  level,              \* what ain_raw says of an input
  din, din_fault,
  prev,               \* prev_din and prev_din_fault
  update_di,          \* the inputs flagged
  dpc, at, dload,     \* defaultTask: where it stands, its input, update_di loaded
  cpc, byte, di_mask, todo, packet, cload,
                      \* canTask: where it stands, its frame, the inputs in it,
                      \* those still to be read, what it has read, update_di loaded
  published,          \* what the other nodes were last sent of an input
  changes,
  unread,             \* history: inputs flagged since canTask last read them or
                      \* the flags of their frame
  clean               \* history: no access to update_di came between a load and a
                      \* store, and no flag was cleared that came after the reading

inputs == <<level, changes>>
values == <<din, din_fault, prev>>
scan == <<dpc, at, dload>>
pass == <<cpc, byte, di_mask, todo, packet, cload>>
history == <<unread, clean>>
vars == <<inputs, values, update_di, scan, pass, published, history>>

Levels == {"break", "off", "on", "short"}
Healthy == [state |-> FALSE, fault |-> FALSE]

Init ==
  /\ level = [i \in Inputs |-> "off"]
  /\ din = [i \in Inputs |-> FALSE] /\ din_fault = din
  /\ prev = [i \in Inputs |-> Healthy]
  /\ update_di = {}
  /\ dpc = "idle" /\ at = 1 /\ dload = {}
  /\ cpc = "idle" /\ byte = 1 /\ di_mask = {} /\ todo = {} /\ cload = {}
  /\ packet = [i \in Inputs |-> Healthy]
  /\ published = [i \in Inputs |-> Healthy]
  /\ changes = 0 /\ unread = {} /\ clean = TRUE

-----------------------------------------------------------------------------
(* defaultTask: the sampling, and update_din. *)

LevelChange(i) ==
  /\ dpc = "idle" /\ changes < MaxChanges
  /\ \E l \in Levels \ {level[i]} : level' = [level EXCEPT ![i] = l]
  /\ changes' = changes + 1
  /\ UNCHANGED <<values, update_di, scan, pass, published, history>>

DinStart ==
  /\ dpc = "idle" /\ dpc' = "state" /\ at' = 1
  /\ UNCHANGED <<inputs, values, update_di, dload, pass, published, history>>

\* The state, before the level is compared with short_circuit_level.
DinState ==
  /\ dpc = "state" /\ dpc' = "short"
  /\ din' = [din EXCEPT ![at] = level[at] \in {"on", "short"}]
  /\ UNCHANGED <<inputs, din_fault, prev, update_di, at, dload, pass, published, history>>

DinShort ==
  /\ dpc = "short" /\ dpc' = "fault"
  /\ din' = [din EXCEPT ![at] = @ /\ level[at] # "short"]
  /\ UNCHANGED <<inputs, din_fault, prev, update_di, at, dload, pass, published, history>>

DinFault ==
  /\ dpc = "fault" /\ dpc' = "compare"
  /\ din_fault' = [din_fault EXCEPT ![at] = level[at] \in {"break", "short"}]
  /\ UNCHANGED <<inputs, din, prev, update_di, at, dload, pass, published, history>>

Now(i) == [state |-> din[i], fault |-> din_fault[i]]

NextInput == IF at = NumInputs THEN dpc' = "idle" /\ at' = 1 ELSE dpc' = "state" /\ at' = at + 1

\* Mutant: the loop goes one input too far.
DinCompareOver ==
  /\ dpc = "compare"
  /\ IF Now(at) # prev[at]
       THEN dpc' = "flag" /\ dload' = update_di /\ UNCHANGED at
       ELSE dpc' = "idle" /\ at' = at + 1 /\ UNCHANGED dload
  /\ UNCHANGED <<inputs, values, update_di, pass, published, history>>

\* The input has changed: the load of update_di.
DinCompare ==
  /\ dpc = "compare"
  /\ IF Now(at) # prev[at]
       THEN dpc' = "flag" /\ dload' = update_di /\ UNCHANGED at
       ELSE NextInput /\ UNCHANGED dload
  /\ UNCHANGED <<inputs, values, update_di, pass, published, history>>

\* ... its store, and prev.
DinFlag ==
  /\ dpc = "flag" /\ NextInput
  /\ update_di' = dload \cup {at}
  /\ prev' = [prev EXCEPT ![at] = Now(at)]
  /\ unread' = unread \cup {at}
  /\ clean' = (clean /\ dload = update_di)
  /\ UNCHANGED <<inputs, din, din_fault, dload, pass, published>>

Din == DinStart \/ DinState \/ DinShort \/ DinFault \/ DinCompare \/ DinFlag

-----------------------------------------------------------------------------
(* canTask: update_di_data. *)

NextByte == byte' = IF byte = Len(Bytes) THEN 1 ELSE byte + 1

\* The mask of a frame; without flagged inputs there is none.
PassMask ==
  /\ cpc = "idle"
  /\ IF update_di \cap Bytes[byte] = {}
       THEN NextByte /\ UNCHANGED <<cpc, di_mask, todo>>
       ELSE /\ cpc' = "state" /\ UNCHANGED byte
            /\ di_mask' = update_di \cap Bytes[byte] /\ todo' = di_mask'
  /\ unread' = unread \ Bytes[byte]
  /\ UNCHANGED <<inputs, values, update_di, scan, packet, cload, published, clean>>

PassState ==
  /\ cpc = "state" /\ cpc' = "fault"
  /\ packet' = [packet EXCEPT ![Min(todo)].state = din[Min(todo)]]
  /\ UNCHANGED <<inputs, values, update_di, scan, byte, di_mask, todo, cload, published,
                 history>>

PassFault ==
  /\ cpc = "fault"
  /\ packet' = [packet EXCEPT ![Min(todo)].fault = din_fault[Min(todo)]]
  /\ todo' = todo \ {Min(todo)}
  /\ cpc' = IF todo' = {} THEN "add" ELSE "state"
  /\ UNCHANGED <<inputs, values, update_di, scan, byte, di_mask, cload, published, history>>

\* add_tx_can_packet, and the load of update_di.
PassAdd ==
  /\ cpc = "add" /\ cpc' = "clear"
  /\ published' = [i \in Inputs |-> IF i \in di_mask THEN packet[i] ELSE published[i]]
  /\ cload' = update_di
  /\ UNCHANGED <<inputs, values, update_di, scan, byte, di_mask, todo, packet, history>>

\* Mutant: the flags of every input are cleared.
PassClearAll ==
  /\ cpc = "clear" /\ cpc' = "idle" /\ NextByte
  /\ update_di' = {}
  /\ clean' = (clean /\ cload = update_di /\ unread \cap Bytes[byte] = {} /\ dpc # "flag")
  /\ UNCHANGED <<inputs, values, scan, di_mask, todo, packet, cload, published, unread>>

PassClear ==
  /\ cpc = "clear" /\ cpc' = "idle" /\ NextByte
  /\ update_di' = cload \ Bytes[byte]
  /\ clean' = (clean /\ cload = update_di /\ unread \cap Bytes[byte] = {} /\ dpc # "flag")
  /\ UNCHANGED <<inputs, values, scan, di_mask, todo, packet, cload, published, unread>>

\* Mutant: nothing is ever flagged anew.
RefreshNothing ==
  /\ cpc = "idle" /\ update_di # Inputs
  /\ UNCHANGED vars

\* Every minute, and after update_all_data.
Refresh ==
  /\ cpc = "idle" /\ update_di # Inputs
  /\ update_di' = Inputs
  /\ clean' = (clean /\ dpc # "flag")
  /\ UNCHANGED <<inputs, values, scan, pass, published, unread>>

Pass == PassMask \/ PassState \/ PassFault \/ PassAdd \/ PassClear

Next == (\E i \in Inputs : LevelChange(i)) \/ Din \/ Pass \/ Refresh

Spec == Init /\ [][Next]_vars

\* Both tasks loop every millisecond; a minute is over again and again, and
\* canTask then stands between two frames.
FairSpec == Spec /\ WF_vars(Din) /\ WF_vars(Pass) /\ SF_vars(Refresh)

-----------------------------------------------------------------------------
(* Properties. *)

Value == [state : BOOLEAN, fault : BOOLEAN]

TypeOK ==
  /\ level \in [Inputs -> Levels]
  /\ din \in [Inputs -> BOOLEAN] /\ din_fault \in [Inputs -> BOOLEAN]
  /\ prev \in [Inputs -> Value] /\ update_di \subseteq Inputs
  /\ dpc \in {"idle", "state", "short", "fault", "compare", "flag"}
  /\ at \in Inputs /\ dload \subseteq Inputs
  /\ cpc \in {"idle", "state", "fault", "add", "clear"}
  /\ byte \in DOMAIN Bytes /\ di_mask \subseteq Inputs /\ todo \subseteq di_mask
  /\ packet \in [Inputs -> Value] /\ cload \subseteq Inputs
  /\ published \in [Inputs -> Value]
  /\ changes \in 0 .. MaxChanges /\ unread \subseteq Inputs /\ clean \in BOOLEAN

\* The same to whoever reads it: the state of an input with a fault says nothing.
Same(v, w) == v.fault = w.fault /\ (v.fault \/ v.state = w.state)

\* A change of an input is sent or still flagged or about to be, as long as the
\* two tasks have not got into each other's way on update_di.
ChangeKept ==
  clean => \A i \in Inputs :
    \/ Same(published[i], prev[i])
    \/ i \in update_di
    \/ dpc # "idle" /\ at = i

\* Whatever becomes of the flags, once the inputs are at rest the other nodes end
\* up with every input's fault and, if it has none, with its state.
Shown(l) == [state |-> l = "on", fault |-> l \in {"break", "short"}]
EndsPublished == \A i \in Inputs : <>[]Same(published[i], Shown(level[i]))
===============================================================================
