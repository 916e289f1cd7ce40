----------------------------- MODULE ScadaExchange ----------------------------
(***************************************************************************)
(* The registers that SCADA and the PLC program both write (object 9A).  A *)
(* session stores a write of SCADA into answer_9a and sets ob_9a_upd       *)
(* (ethip.c); every 100 ms defaultTask either takes it over into           *)
(* scada_regs or, without one, copies scada_regs to answer_9a for the next *)
(* read (update_ethip_scada_regs in intern_regs.c).  The program reads and *)
(* writes scada_regs.  The bits of object 99 go the same way.              *)
(*                                                                         *)
(* A session has a higher priority than defaultTask and may come between   *)
(* any two accesses of it; the program runs while defaultTask sleeps.  A   *)
(* register is two bytes; a byte is known here by the write it came with.  *)
(***************************************************************************)
EXTENDS Naturals

CONSTANTS
  NumRegs,       \* registers of the object
  MaxWrites      \* bound: writes of SCADA and of the program

Regs == 1 .. NumRegs
Bytes == {"lo", "hi"}

VARIABLES
  answer_9a, scada_regs, ob_9a_upd,
  dpc, i, first,   \* defaultTask in update_ethip_scada_regs; the byte read first
  held,            \* ... and what it held
  writes,
  expected,        \* history: the last write of each register
  clean            \* history: no write of SCADA has come in the middle of a copy

object == <<answer_9a, scada_regs, ob_9a_upd>>
copy == <<dpc, i, first, held>>
history == <<expected, clean>>
vars == <<object, copy, writes, history>>

Whole(w) == [b \in Bytes |-> w]

Init ==
  /\ answer_9a = [r \in Regs |-> Whole(0)] /\ scada_regs = answer_9a
  /\ ob_9a_upd = FALSE
  /\ dpc = "idle" /\ i = 1 /\ first = "lo" /\ held = 0
  /\ writes = 0
  /\ expected = [r \in Regs |-> 0] /\ clean = TRUE

NewWrite == writes < MaxWrites /\ writes' = writes + 1

-----------------------------------------------------------------------------
(* SCADA and the program. *)

\* set_attribute_single_9a.
ScadaWrite ==
  /\ NewWrite
  /\ answer_9a' = [r \in Regs |-> Whole(writes')]
  /\ ob_9a_upd' = TRUE
  /\ expected' = [r \in Regs |-> writes']
  /\ clean' = (clean /\ dpc = "idle")
  /\ UNCHANGED <<scada_regs, copy>>

\* What the program writes while a write of SCADA waits is written over by it.
ProgramWrite(r) ==
  /\ dpc = "idle" /\ NewWrite
  /\ scada_regs' = [scada_regs EXCEPT ![r] = Whole(writes')]
  /\ expected' = IF ob_9a_upd THEN expected ELSE [expected EXCEPT ![r] = writes']
  /\ UNCHANGED <<answer_9a, ob_9a_upd, copy, clean>>

-----------------------------------------------------------------------------
(* defaultTask: update_ethip_scada_regs. *)

Update ==
  /\ dpc = "idle"
  /\ dpc' = IF ob_9a_upd THEN "take" ELSE "lo"
  /\ UNCHANGED <<object, i, first, held, writes, history>>

\* The two bytes of a register are read in the order the compiler has chosen.
TakeFirst ==
  /\ dpc = "take" /\ dpc' = "second"
  /\ first' \in Bytes /\ held' = answer_9a[i][first']
  /\ UNCHANGED <<object, i, writes, history>>

\* Mutant: the copy ends one register early.
TakeSecondShort ==
  /\ dpc = "second"
  /\ scada_regs' = IF i < NumRegs
       THEN [scada_regs EXCEPT ![i] = [answer_9a[i] EXCEPT ![first] = held]]
       ELSE scada_regs
  /\ IF i < NumRegs THEN dpc' = "take" /\ i' = i + 1 ELSE dpc' = "clear" /\ i' = 1
  /\ first' = "lo" /\ held' = 0
  /\ UNCHANGED <<answer_9a, ob_9a_upd, writes, history>>

TakeSecond ==
  /\ dpc = "second"
  /\ scada_regs' = [scada_regs EXCEPT ![i] = [answer_9a[i] EXCEPT ![first] = held]]
  /\ IF i < NumRegs THEN dpc' = "take" /\ i' = i + 1 ELSE dpc' = "clear" /\ i' = 1
  /\ first' = "lo" /\ held' = 0
  /\ UNCHANGED <<answer_9a, ob_9a_upd, writes, history>>

TakeClear ==
  /\ dpc = "clear" /\ dpc' = "idle"
  /\ ob_9a_upd' = FALSE
  /\ UNCHANGED <<answer_9a, scada_regs, i, first, held, writes, history>>

GiveLow ==
  /\ dpc = "lo" /\ dpc' = "hi"
  /\ answer_9a' = [answer_9a EXCEPT ![i].lo = scada_regs[i].lo]
  /\ UNCHANGED <<scada_regs, ob_9a_upd, i, first, held, writes, history>>

\* Mutant: the high byte is left out.
GiveHighNot ==
  /\ dpc = "hi"
  /\ IF i < NumRegs THEN dpc' = "lo" /\ i' = i + 1 ELSE dpc' = "idle" /\ i' = 1
  /\ UNCHANGED <<object, first, held, writes, history>>

GiveHigh ==
  /\ dpc = "hi"
  /\ answer_9a' = [answer_9a EXCEPT ![i].hi = scada_regs[i].hi]
  /\ IF i < NumRegs THEN dpc' = "lo" /\ i' = i + 1 ELSE dpc' = "idle" /\ i' = 1
  /\ UNCHANGED <<scada_regs, ob_9a_upd, first, held, writes, history>>

Copy == Update \/ TakeFirst \/ TakeSecond \/ TakeClear \/ GiveLow \/ GiveHigh

Next == ScadaWrite \/ (\E r \in Regs : ProgramWrite(r)) \/ Copy

Spec == Init /\ [][Next]_vars

\* defaultTask copies every 100 ms.
FairSpec == Spec /\ WF_vars(Copy)

-----------------------------------------------------------------------------
(* Properties. *)

TypeOK ==
  /\ answer_9a \in [Regs -> [Bytes -> 0 .. MaxWrites]]
  /\ scada_regs \in [Regs -> [Bytes -> 0 .. MaxWrites]]
  /\ ob_9a_upd \in BOOLEAN
  /\ dpc \in {"idle", "take", "second", "clear", "lo", "hi"}
  /\ i \in Regs /\ first \in Bytes /\ held \in 0 .. MaxWrites
  /\ writes \in 0 .. MaxWrites
  /\ expected \in [Regs -> 0 .. MaxWrites] /\ clean \in BOOLEAN

\* A write acknowledged to SCADA waits, or is what the program finds, whole and in
\* every register it has not written since - unless a write met a copy.
WritesArrive ==
  clean /\ dpc = "idle" =>
    \A r \in Regs : (IF ob_9a_upd THEN answer_9a ELSE scada_regs)[r] = Whole(expected[r])

\* Whatever met, SCADA ends up reading what the program has.
EndsSame == <>[](answer_9a = scada_regs)
===============================================================================
