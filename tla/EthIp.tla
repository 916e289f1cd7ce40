--------------------------------- MODULE EthIp --------------------------------
(***************************************************************************)
(* What the sessions of the EtherNet/IP server (get_answer in ethip.c)     *)
(* share with the tasks of the controller: the state of the link and the   *)
(* time with canTask (EthIpStatus), the registers with defaultTask and the *)
(* program (ScadaExchange).  Each request is answered between any two      *)
(* accesses of either task, and the tasks are time-sliced.                 *)
(***************************************************************************)
EXTENDS Naturals

CONSTANTS Limit, TelemetryAt, StatusAt, TmrSize, MaxTurns, MaxTimes, NumRegs, MaxWrites

ASSUME EthIpAssumption ==
  /\ \A n \in {Limit, TelemetryAt, StatusAt, TmrSize, MaxTurns, MaxTimes, NumRegs, MaxWrites} : n \in Nat
  /\ Limit > 1 /\ NumRegs > 0
  /\ 0 < TelemetryAt /\ TelemetryAt < StatusAt /\ StatusAt + 1 < TmrSize

VARIABLES
  eth_ip_state, eth_ip_upd, eth_ip_tmr, ob_time_upd, answer_time, pc, loaded, ethip_tmr,
  status, telemetry, sent_time, polling, turns, missed, stale,
  answer_9a, scada_regs, ob_9a_upd, dpc, i, first, held, writes, expected, clean

link == <<eth_ip_state, eth_ip_upd, eth_ip_tmr, ob_time_upd, answer_time, pc, loaded, ethip_tmr,
          status, telemetry, sent_time, polling, turns, missed, stale>>
registers == <<answer_9a, scada_regs, ob_9a_upd, dpc, i, first, held, writes, expected, clean>>
vars == <<link, registers>>

Status == INSTANCE EthIpStatus
Exchange == INSTANCE ScadaExchange

Init == Status!Init /\ Exchange!Init

\* get_answer, for the objects that are shared.
GetAnswer ==
  \/ (Status!Request \/ Status!SetTime) /\ UNCHANGED registers
  \/ Exchange!ScadaWrite /\ UNCHANGED link

CanTask == Status!CanTask /\ UNCHANGED registers
DefaultTask == Exchange!Copy /\ UNCHANGED link
ProgTask == (\E r \in Exchange!Regs : Exchange!ProgramWrite(r)) /\ UNCHANGED link
Scada == Status!Turn /\ UNCHANGED registers

Next == GetAnswer \/ CanTask \/ DefaultTask \/ ProgTask \/ Scada

Spec == Init /\ [][Next]_vars

\* Both tasks loop; SCADA keeps asking while it asks at all.
FairSpec ==
  /\ Spec
  /\ WF_vars(CanTask) /\ WF_vars(DefaultTask)
  /\ WF_vars(Status!Request /\ UNCHANGED registers)

-----------------------------------------------------------------------------
(* Properties: those of the two parts. *)

\* Every variable keeps its type.
TypeOK == Status!TypeOK /\ Exchange!TypeOK

\* A change of the link's state is announced unless it came after its frame was built.
NothingUnannounced == Status!NothingUnannounced

\* A write acknowledged to SCADA is what the program finds, unless it met a copy.
WritesArrive == Exchange!WritesArrive

\* The link ends up up while SCADA asks and down when it does not, the frames follow,
\* and the time that goes out last is the one that was set last.
EndsReported == Status!EndsReported

\* Whatever met, SCADA ends up reading what the program has.
EndsSame == Exchange!EndsSame
===============================================================================
