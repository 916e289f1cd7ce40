------------------------------- MODULE RsModule -------------------------------
(***************************************************************************)
(* An RS485 module of the CAN bus as the controller sees it: the           *)
(* supervision of its heartbeats (heartbeat.c), the transfer of its        *)
(* configuration packet by packet (rs_module.c) and the frames it sends,   *)
(* handled in the CAN receive interrupt (can_task.c).  canTask and the     *)
(* interrupt share the fields of the module without protection.            *)
(*                                                                         *)
(* The module itself is not part of the repository: it is modelled from    *)
(* the frames can_task.c handles and rs_module.c sends.  It answers every  *)
(* packet it receives, and its heartbeats say whether it has a whole       *)
(* configuration.                                                          *)
(***************************************************************************)
EXTENDS Naturals, Sequences

CONSTANTS
  PackQuantity,   \* packets of the configuration behind its header
  Timeout,        \* calls of rs_module_write_config before a packet is sent again
  HeartbeatMax,   \* HEARTBEAT_MAX
  MaxFaults       \* bound: frames lost or late, foreign answers, restarts

ASSUME RsAssumption ==
  /\ PackQuantity \in Nat \ {0} /\ Timeout \in Nat \ {0}
  /\ HeartbeatMax \in Nat \ {0} /\ MaxFaults \in Nat

VARIABLES
  link_state, heartbeat_cnt,
  data,              \* registers and device states: "cleared" or "reported"
  write_state, last_packet_num, tmr, rcv_id_flag, rcv_id_value,
  sup, loaded,       \* canTask inside increment_modules_heartbeats_counters
  requests,          \* packets on their way to the module, by number
  answers,           \* packets whose answer is on its way back
  alive,             \* the module is powered and connected
  got,               \* packets the module has since the last header
  faults,
  answered,          \* history: the packet that the answer in rcv_id_* is for
  late,              \* history: a timeout ran out on a frame still on its way
  slipped,           \* history: an answer was, or may yet be, taken for one to
                     \* another packet or to a packet of an earlier transfer
  restarted          \* history: the module lost its power during the transfer

link == <<link_state, heartbeat_cnt, data>>
config == <<write_state, last_packet_num, tmr, rcv_id_flag, rcv_id_value>>
supervision == <<sup, loaded>>
bus == <<requests, answers>>
module == <<alive, got>>
history == <<answered, late, slipped, restarted>>
vars == <<link, config, supervision, bus, module, faults, history>>

All == 0 .. PackQuantity
InFlight == requests # << >> \/ answers # << >>
Fault == faults < MaxFaults /\ faults' = faults + 1

\* rs_mod_init_values; the module may be there already, without a configuration.
Init ==
  /\ link_state = 0 /\ heartbeat_cnt = HeartbeatMax /\ data = "cleared"
  /\ write_state = "WAIT_CMD" /\ last_packet_num = 0 /\ tmr = 0
  /\ rcv_id_flag = FALSE /\ rcv_id_value = "none"
  /\ sup = "idle" /\ loaded = 0
  /\ requests = << >> /\ answers = << >>
  /\ alive \in BOOLEAN /\ got = {}
  /\ faults = 0
  /\ answered = 0 /\ late = FALSE /\ slipped = FALSE /\ restarted = FALSE

-----------------------------------------------------------------------------
(* canTask: rs_module_write_config, once a millisecond. *)

Writing(s) == sup = "idle" /\ link_state = 1 /\ write_state = s

StartConfig ==
  /\ Writing("START_WR_CONFIG")
  /\ tmr' = 0 /\ last_packet_num' = 0 /\ rcv_id_value' = "none" /\ rcv_id_flag' = FALSE
  /\ write_state' = "WR_CONFIG"
  /\ slipped' = InFlight /\ restarted' = FALSE
  /\ UNCHANGED <<link, supervision, bus, module, faults, answered, late>>

\* The packet goes through the CAN transmit ring; nobody receives it when the
\* module is off.
SendPacket ==
  /\ Writing("WR_CONFIG")
  /\ requests' = IF alive THEN Append(requests, last_packet_num) ELSE requests
  /\ rcv_id_value' = "none" /\ rcv_id_flag' = FALSE /\ tmr' = 0
  /\ write_state' = "WAIT_RESPONSE"
  /\ UNCHANGED <<link, last_packet_num, supervision, answers, module, faults, history>>

\* Mutant: the answer to the packet before the last ends the transfer.
TakeAnswerEarly ==
  /\ Writing("WAIT_RESPONSE") /\ rcv_id_flag /\ rcv_id_value = "own"
  /\ rcv_id_flag' = FALSE
  /\ slipped' = (slipped \/ answered # last_packet_num)
  /\ IF last_packet_num >= PackQuantity - 1
       THEN write_state' = "WAIT_CMD" /\ last_packet_num' = 0 /\ UNCHANGED tmr
       ELSE /\ write_state' = "WR_CONFIG" /\ last_packet_num' = last_packet_num + 1
            /\ tmr' = tmr + 1
  /\ UNCHANGED <<link, rcv_id_value, supervision, bus, module, faults, answered,
                 late, restarted>>

TakeAnswer ==
  /\ Writing("WAIT_RESPONSE") /\ rcv_id_flag /\ rcv_id_value = "own"
  /\ rcv_id_flag' = FALSE
  /\ slipped' = (slipped \/ answered # last_packet_num)
  /\ IF last_packet_num = PackQuantity
       THEN write_state' = "WAIT_CMD" /\ last_packet_num' = 0 /\ UNCHANGED tmr
       ELSE /\ write_state' = "WR_CONFIG" /\ last_packet_num' = last_packet_num + 1
            /\ tmr' = tmr + 1
  /\ UNCHANGED <<link, rcv_id_value, supervision, bus, module, faults, answered,
                 late, restarted>>

\* Mutant: a packet without an answer is not sent again.
WaitAnswerForever ==
  /\ Writing("WAIT_RESPONSE") /\ ~(rcv_id_flag /\ rcv_id_value = "own")
  /\ rcv_id_flag' = FALSE
  /\ tmr' = IF tmr < Timeout THEN tmr + 1 ELSE tmr
  /\ UNCHANGED <<link, write_state, last_packet_num, rcv_id_value, supervision, bus,
                 module, faults, history>>

\* Mutant: the answer for another node makes it send the packet again at once.
WaitAnswerHasty ==
  /\ Writing("WAIT_RESPONSE") /\ ~(rcv_id_flag /\ rcv_id_value = "own")
  /\ rcv_id_flag' = FALSE
  /\ tmr' = tmr + 1
  /\ write_state' = IF rcv_id_flag \/ tmr' >= Timeout THEN "WR_CONFIG" ELSE "WAIT_RESPONSE"
  /\ IF tmr' >= Timeout /\ InFlight
       THEN Fault /\ late' = TRUE
       ELSE UNCHANGED <<faults, late>>
  /\ UNCHANGED <<link, last_packet_num, rcv_id_value, supervision, bus, module,
                 answered, slipped, restarted>>

\* No answer yet, or one that another node is waiting for.  A timeout that runs
\* out on a frame still on its way counts as a fault.
WaitAnswer ==
  /\ Writing("WAIT_RESPONSE") /\ ~(rcv_id_flag /\ rcv_id_value = "own")
  /\ rcv_id_flag' = FALSE
  /\ tmr' = tmr + 1
  /\ write_state' = IF tmr' >= Timeout THEN "WR_CONFIG" ELSE "WAIT_RESPONSE"
  /\ IF tmr' >= Timeout /\ InFlight
       THEN Fault /\ late' = TRUE
       ELSE UNCHANGED <<faults, late>>
  /\ UNCHANGED <<link, last_packet_num, rcv_id_value, supervision, bus, module,
                 answered, slipped, restarted>>

WriteConfig == StartConfig \/ SendPacket \/ TakeAnswer \/ WaitAnswer

-----------------------------------------------------------------------------
(* canTask: increment_modules_heartbeats_counters, once a second.  The       *)
(* interrupt may run between the load and the store of heartbeat_cnt, and    *)
(* between the stores that declare the module lost.                          *)

\* Mutant: one missing heartbeat more is counted than the limit.
SupCheckLate ==
  /\ sup = "idle"
  /\ sup' = IF heartbeat_cnt <= HeartbeatMax THEN "count" ELSE "down"
  /\ loaded' = heartbeat_cnt
  /\ UNCHANGED <<link, config, bus, module, faults, history>>

SupCheck ==
  /\ sup = "idle"
  /\ sup' = IF heartbeat_cnt < HeartbeatMax THEN "count" ELSE "down"
  /\ loaded' = heartbeat_cnt
  /\ UNCHANGED <<link, config, bus, module, faults, history>>

\* Mutant: the counter of missing heartbeats stays where it is.
SupCountStuck ==
  /\ sup = "count" /\ sup' = "idle"
  /\ link_state' = 1
  /\ UNCHANGED <<heartbeat_cnt, data, config, loaded, bus, module, faults, history>>

SupCount ==
  /\ sup = "count" /\ sup' = "idle"
  /\ heartbeat_cnt' = loaded + 1 /\ link_state' = 1
  /\ UNCHANGED <<data, config, loaded, bus, module, faults, history>>

SupDown ==
  /\ sup = "down" /\ sup' = "clear"
  /\ link_state' = 0
  /\ IF InFlight THEN Fault /\ late' = TRUE ELSE UNCHANGED <<faults, late>>
  /\ UNCHANGED <<heartbeat_cnt, data, config, loaded, bus, module, answered,
                 slipped, restarted>>

SupClear ==
  /\ sup = "clear" /\ sup' = "idle"
  /\ write_state' = "WAIT_CMD"
  /\ data' = "cleared"
  /\ UNCHANGED <<link_state, heartbeat_cnt, last_packet_num, tmr, rcv_id_flag,
                 rcv_id_value, loaded, bus, module, faults, history>>

Supervise == SupCheck \/ SupCount \/ SupDown \/ SupClear

-----------------------------------------------------------------------------
(* The CAN receive interrupt: handle_can1_extended_request. *)

\* Heartbeats are a second apart: one that starts a transfer while a frame of
\* an earlier one is still on its way counts as a fault.
Heartbeat ==
  LET starts == link_state = 0 \/ (got # All /\ write_state = "WAIT_CMD") IN
  /\ alive
  /\ write_state' = IF starts THEN "START_WR_CONFIG" ELSE write_state
  /\ heartbeat_cnt' = 0 /\ link_state' = 1
  /\ IF starts /\ InFlight THEN Fault /\ late' = TRUE ELSE UNCHANGED <<faults, late>>
  /\ UNCHANGED <<data, last_packet_num, tmr, rcv_id_flag, rcv_id_value, supervision,
                 bus, module, answered, slipped, restarted>>

Answer ==
  /\ answers # << >>
  /\ answers' = Tail(answers)
  /\ rcv_id_value' = "own" /\ rcv_id_flag' = TRUE
  /\ answered' = Head(answers)
  /\ UNCHANGED <<link, write_state, last_packet_num, tmr, supervision, requests,
                 module, faults, late, slipped, restarted>>

\* The module answers a packet of another node of the cluster.
ForeignAnswer ==
  /\ alive /\ Fault
  /\ rcv_id_value' = "other" /\ rcv_id_flag' = TRUE
  /\ UNCHANGED <<link, write_state, last_packet_num, tmr, supervision, bus, module,
                 history>>

RegsState ==
  /\ alive /\ data' = "reported"
  /\ UNCHANGED <<link_state, heartbeat_cnt, config, supervision, bus, module, faults,
                 history>>

-----------------------------------------------------------------------------
(* The module and the bus. *)

ModuleReceive ==
  /\ alive /\ requests # << >>
  /\ got' = IF Head(requests) = 0 THEN {0} ELSE got \cup {Head(requests)}
  /\ requests' = Tail(requests)
  /\ answers' = Append(answers, Head(requests))
  /\ UNCHANGED <<link, config, supervision, alive, faults, history>>

LoseFrame ==
  /\ Fault
  /\ \/ requests # << >> /\ requests' = Tail(requests) /\ UNCHANGED answers
     \/ answers # << >> /\ answers' = Tail(answers) /\ UNCHANGED requests
  /\ UNCHANGED <<link, config, supervision, module, history>>

PowerOff ==
  /\ alive /\ alive' = FALSE
  /\ Fault
  /\ got' = {} /\ requests' = << >>
  /\ restarted' = TRUE
  /\ UNCHANGED <<link, config, supervision, answers, answered, late, slipped>>

PowerOn ==
  /\ ~alive /\ alive' = TRUE
  /\ UNCHANGED <<link, config, supervision, bus, got, faults, history>>

Next ==
  \/ WriteConfig \/ Supervise
  \/ Heartbeat \/ Answer \/ ForeignAnswer \/ RegsState
  \/ ModuleReceive \/ LoseFrame \/ PowerOff \/ PowerOn

Spec == Init /\ [][Next]_vars

\* Every pass of canTask's loop calls rs_module_write_config, whatever the
\* supervision did in it (hence SF); a module that is on goes on sending
\* heartbeats, receives what is on the bus, and its answers arrive.
FairSpec ==
  /\ Spec
  /\ SF_vars(WriteConfig) /\ WF_vars(Supervise)
  /\ WF_vars(Heartbeat) /\ WF_vars(ModuleReceive) /\ WF_vars(Answer)

-----------------------------------------------------------------------------
(* Properties. *)

TypeOK ==
  /\ link_state \in {0, 1}
  /\ heartbeat_cnt \in 0 .. HeartbeatMax
  /\ data \in {"cleared", "reported"}
  /\ write_state \in {"WAIT_CMD", "START_WR_CONFIG", "WR_CONFIG", "WAIT_RESPONSE"}
  /\ last_packet_num \in All
  /\ tmr \in 0 .. Timeout
  /\ rcv_id_flag \in BOOLEAN /\ rcv_id_value \in {"none", "own", "other"}
  /\ sup \in {"idle", "count", "down", "clear"} /\ loaded \in 0 .. HeartbeatMax
  /\ requests \in Seq(All) /\ answers \in Seq(All)
  /\ alive \in BOOLEAN /\ got \subseteq All
  /\ faults \in 0 .. MaxFaults
  /\ answered \in All
  /\ late \in BOOLEAN /\ slipped \in BOOLEAN /\ restarted \in BOOLEAN

\* Answers carry the node's address and not the number of the packet.  Still,
\* as long as no answer comes later than its timeout, none is taken for the
\* answer to another packet, whatever is lost.
NeverSlips == ~late => ~slipped

\* ... and then a transfer that rs_module_write_config takes for finished has
\* left the whole configuration in the module, unless it lost its power.
Finishes == write_state = "WAIT_RESPONSE" /\ write_state' = "WAIT_CMD" /\ sup = "idle"
FinishedMeansConfigured ==
  [][Finishes /\ ~slipped' /\ ~restarted => got = All]_vars

\* A module that stays connected ends up with its configuration for good: after
\* lost and late frames, answers taken for others, restarts in the middle of a
\* transfer and start commands overwritten by the supervision.
EndsConfigured == <>[](alive /\ link_state = 1) => <>[](got = All)

\* A module that is gone is reported offline for good, with its data cleared.
EndsOffline == <>[](~alive) => <>[](link_state = 0 /\ data = "cleared")
===============================================================================
