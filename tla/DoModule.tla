------------------------------- MODULE DoModule -------------------------------
(***************************************************************************)
(* The output modules of the CAN bus.  The PLC program writes the outputs  *)
(* it wants (do_state); do_mod_cycle (do_module.c, defaultTask) flags what *)
(* has changed, and every module in turn whether it has or not;            *)
(* update_mod_do_data (update_plc_data.c, canTask) sends one flagged       *)
(* module at a time; and the receive interrupt (can_task.c) compares what  *)
(* a heartbeat reports with do_state and has a difference sent at once.    *)
(* The supervision of the heartbeats (heartbeat.c) takes the flag of a     *)
(* module that is gone away.                                               *)
(*                                                                         *)
(* The outputs of a module are one value here.  progTask has the lowest    *)
(* priority: it writes do_state only while both other tasks sleep, but the *)
(* interrupt may come in the middle of its scan.  The module itself is not *)
(* part of the repository; it applies what it receives and reports it.     *)
(***************************************************************************)
EXTENDS Naturals, Sequences, FiniteSetsExt

CONSTANTS
  NumModules,     \* do_mod_cnt
  Steady,         \* modules that stay connected and whose outputs stay as they are
  HeartbeatMax,   \* HEARTBEAT_MAX
  MaxFrames,      \* bound: frames waiting in the transmit ring
  MaxLosses       \* bound: frames lost, and modules losing their power or their bus

ASSUME DoAssumption ==
  /\ NumModules \in Nat \ {0} /\ HeartbeatMax \in Nat \ {0} /\ MaxFrames \in Nat \ {0}
  /\ MaxLosses \in Nat
  /\ Steady \subseteq 1 .. NumModules

Modules == 1 .. NumModules

VARIABLES
  do_state, prev_do_state, update_data, link_state, heartbeat_cnt,
  dat, upd_do_mod_num,        \* defaultTask in do_mod_cycle
  elapsed,                    \* upd_do_tmr: canTask has had a pass since the last refresh
  cpc, at, loaded,            \* canTask in the supervision or in update_mod_do_data
  frames,                     \* the transmit ring: module and value
  alive, applied,             \* the modules: connected, and the outputs they have
  losses,
  sent,                       \* history: the value last put into the ring
  clean                       \* history: no meeting that takes a flag away

outputs == <<do_state, prev_do_state, update_data>>
link == <<link_state, heartbeat_cnt>>
cycle == <<dat, upd_do_mod_num>>
can == <<cpc, at, loaded>>
modules == <<alive, applied, losses>>
do_history == <<sent, clean>>
do_vars == <<outputs, link, cycle, can, frames, modules, elapsed, do_history>>

\* do_mod_init_values.  A module that is never there leaves before anything happens.
DoInit ==
  /\ do_state = [m \in Modules |-> FALSE] /\ prev_do_state = do_state
  /\ update_data = [m \in Modules |-> FALSE]
  /\ link_state = [m \in Modules |-> 0] /\ heartbeat_cnt = [m \in Modules |-> 0]
  /\ dat = 1 /\ upd_do_mod_num = 1
  /\ cpc = "idle" /\ at = 1 /\ loaded = 0
  /\ frames = << >>
  /\ alive = [m \in Modules |-> TRUE]
  /\ applied = do_state
  /\ losses = 0 /\ elapsed = FALSE
  /\ sent = do_state /\ clean = TRUE

Put(m) ==
  /\ Len(frames) < MaxFrames
  /\ frames' = Append(frames, [to |-> m, value |-> do_state[m]])
  /\ sent' = [sent EXCEPT ![m] = do_state[m]]

-----------------------------------------------------------------------------
(* progTask: the program writes an output, perhaps in the middle of a scan. *)

\* A heartbeat may have had a value sent that do_mod_cycle has never seen; the
\* program taking it back is not noticed then.
WriteOutput(m) ==
  /\ cpc = "idle" /\ dat = 1 /\ m \notin Steady
  /\ do_state' = [do_state EXCEPT ![m] = ~@]
  /\ clean' = (clean /\ ~(do_state'[m] = prev_do_state[m] /\ sent[m] # do_state'[m]))
  /\ UNCHANGED <<prev_do_state, update_data, link, cycle, can, frames, modules, elapsed, sent>>

-----------------------------------------------------------------------------
(* defaultTask: do_mod_cycle, once a millisecond. *)

\* Mutant: the flag of a module is cleared if nothing has changed since the last call.
CycleCompareAnew ==
  /\ dat <= NumModules /\ dat' = dat + 1
  /\ prev_do_state' = [prev_do_state EXCEPT ![dat] = do_state[dat]]
  /\ update_data' = [update_data EXCEPT ![dat] = prev_do_state[dat] # do_state[dat]]
  /\ UNCHANGED <<do_state, link, upd_do_mod_num, can, frames, modules, elapsed, do_history>>

\* The flag is stored after prev_do_state; canTask reads do_state, which does not
\* change meanwhile, and never prev_do_state.
CycleCompare ==
  /\ dat <= NumModules /\ dat' = dat + 1
  /\ prev_do_state' = [prev_do_state EXCEPT ![dat] = do_state[dat]]
  /\ update_data' = [update_data EXCEPT ![dat] = @ \/ prev_do_state[dat] # do_state[dat]]
  /\ UNCHANGED <<do_state, link, upd_do_mod_num, can, frames, modules, elapsed, do_history>>

\* Mutant: the last module is never reached.
CycleRefreshFirst ==
  /\ dat > NumModules /\ dat' = 1 /\ elapsed /\ elapsed' = FALSE
  /\ update_data' = [update_data EXCEPT ![upd_do_mod_num] = TRUE]
  /\ upd_do_mod_num' = IF upd_do_mod_num + 1 >= NumModules THEN 1 ELSE upd_do_mod_num + 1
  /\ UNCHANGED <<do_state, prev_do_state, link, can, frames, modules, do_history>>

\* upd_do_tmr has reached its limit, 1000 / do_mod_cnt calls a millisecond apart, in which
\* canTask has had at least one of its passes, which come every 10 ms.
CycleRefresh ==
  /\ dat > NumModules /\ dat' = 1 /\ elapsed /\ elapsed' = FALSE
  /\ update_data' = [update_data EXCEPT ![upd_do_mod_num] = TRUE]
  /\ upd_do_mod_num' = IF upd_do_mod_num = NumModules THEN 1 ELSE upd_do_mod_num + 1
  /\ UNCHANGED <<do_state, prev_do_state, link, can, frames, modules, do_history>>

CycleEnd ==
  /\ dat > NumModules /\ dat' = 1
  /\ UNCHANGED <<outputs, link, upd_do_mod_num, can, frames, modules, elapsed, do_history>>

Cycle == CycleCompare \/ CycleRefresh \/ CycleEnd

-----------------------------------------------------------------------------
(* canTask: update_mod_do_data, every tenth call. *)

Flagged == {m \in Modules : update_data[m]}

\* A flag set between the test and the store is for a do_state that is yet to be read.
PassPick ==
  /\ cpc = "idle" /\ cpc' = "send" /\ elapsed' = TRUE
  /\ Flagged # {} /\ at' = Min(Flagged)
  /\ update_data' = [update_data EXCEPT ![at'] = FALSE]
  /\ UNCHANGED <<do_state, prev_do_state, link, cycle, loaded, frames, modules, do_history>>

\* Nothing is flagged.
PassNone ==
  /\ cpc = "idle" /\ Flagged = {} /\ ~elapsed /\ elapsed' = TRUE
  /\ UNCHANGED <<outputs, link, cycle, can, frames, modules, do_history>>

PassSend ==
  /\ cpc = "send" /\ cpc' = "idle" /\ Put(at) /\ at' = 1
  /\ UNCHANGED <<outputs, link, cycle, loaded, modules, elapsed, clean>>

Pass == PassPick \/ PassNone \/ PassSend

-----------------------------------------------------------------------------
(* canTask: increment_modules_heartbeats_counters, once a second.            *)

\* A module that is on has been heard since the last time: its heartbeats come
\* once a second too.
SupStart ==
  /\ cpc = "idle" /\ cpc' = "check" /\ at' = 1
  /\ \A m \in Modules : alive[m] => heartbeat_cnt[m] = 0
  /\ UNCHANGED <<outputs, link, cycle, loaded, frames, modules, elapsed, do_history>>

SupNext == IF at < NumModules THEN cpc' = "check" /\ at' = at + 1
                              ELSE cpc' = "idle" /\ at' = 1

SupCheck ==
  /\ cpc = "check"
  /\ IF heartbeat_cnt[at] < HeartbeatMax THEN cpc' = "count" /\ loaded' = heartbeat_cnt[at]
                                      ELSE cpc' = "down" /\ loaded' = 0
  /\ UNCHANGED <<outputs, link, cycle, at, frames, modules, elapsed, do_history>>

SupCount ==
  /\ cpc = "count" /\ SupNext
  /\ heartbeat_cnt' = [heartbeat_cnt EXCEPT ![at] = loaded + 1]
  /\ link_state' = [link_state EXCEPT ![at] = 1] /\ loaded' = 0
  /\ UNCHANGED <<outputs, cycle, frames, modules, elapsed, do_history>>

\* Mutant: the flag of a module that is gone is taken away, its link is left up.
SupDownLinked ==
  /\ cpc = "down" /\ cpc' = "drop"
  /\ clean' = (clean /\ heartbeat_cnt[at] = HeartbeatMax)
  /\ UNCHANGED <<outputs, link, cycle, at, loaded, frames, modules, elapsed, sent>>

\* A heartbeat since the check: the module counts as lost for a second more.
SupDown ==
  /\ cpc = "down" /\ cpc' = "drop"
  /\ link_state' = [link_state EXCEPT ![at] = 0]
  /\ clean' = (clean /\ heartbeat_cnt[at] = HeartbeatMax)
  /\ UNCHANGED <<outputs, heartbeat_cnt, cycle, at, loaded, frames, modules, elapsed, sent>>

SupDrop ==
  /\ cpc = "drop" /\ SupNext
  /\ update_data' = [update_data EXCEPT ![at] = FALSE]
  /\ clean' = (clean /\ link_state[at] = 0)
  /\ UNCHANGED <<do_state, prev_do_state, link, cycle, loaded, frames, modules, elapsed,
                 sent>>

Supervise == SupStart \/ SupCheck \/ SupCount \/ SupDown \/ SupDrop

-----------------------------------------------------------------------------
(* The CAN receive interrupt: ExtHeartbeat of an output module. *)

ExtHeartbeat(m) ==
  /\ alive[m]
  /\ update_data' = [update_data EXCEPT ![m] = @ \/ link_state[m] = 0]
  /\ heartbeat_cnt' = [heartbeat_cnt EXCEPT ![m] = 0]
  /\ link_state' = [link_state EXCEPT ![m] = 1]
  /\ IF do_state[m] # applied[m] THEN Put(m) ELSE UNCHANGED <<frames, sent>>
  /\ UNCHANGED <<do_state, prev_do_state, cycle, can, alive, applied, losses, elapsed, clean>>

-----------------------------------------------------------------------------
(* The bus and the modules. *)

Deliver ==
  /\ frames # << >> /\ frames' = Tail(frames)
  /\ LET f == Head(frames) IN
       applied' = IF alive[f.to] THEN [applied EXCEPT ![f.to] = f.value] ELSE applied
  /\ UNCHANGED <<outputs, link, cycle, can, alive, losses, elapsed, do_history>>

\* The controller makes one attempt at a frame (can.c, AutoRetransmission): one that meets
\* an error or another node's frame is gone.
LoseFrame ==
  /\ frames # << >> /\ frames' = Tail(frames)
  /\ losses < MaxLosses /\ losses' = losses + 1
  /\ UNCHANGED <<outputs, link, cycle, can, alive, applied, elapsed, do_history>>

\* Off the bus, with its outputs or without.
ModuleOff(m) ==
  /\ m \notin Steady
  /\ alive[m] /\ alive' = [alive EXCEPT ![m] = FALSE]
  /\ losses < MaxLosses /\ losses' = losses + 1
  /\ \E v \in {applied[m], FALSE} : applied' = [applied EXCEPT ![m] = v]
  /\ UNCHANGED <<outputs, link, cycle, can, frames, elapsed, do_history>>

ModuleOn(m) ==
  /\ ~alive[m] /\ alive' = [alive EXCEPT ![m] = TRUE]
  /\ UNCHANGED <<outputs, link, cycle, can, frames, applied, losses, elapsed, do_history>>

DoNext ==
  \/ Cycle \/ Pass \/ Supervise \/ Deliver \/ LoseFrame
  \/ \E m \in Modules : WriteOutput(m) \/ ExtHeartbeat(m) \/ ModuleOff(m) \/ ModuleOn(m)

DoSpec == DoInit /\ [][DoNext]_do_vars

\* Both tasks loop, the limit of upd_do_tmr is reached again and again, and so
\* are the calls of canTask that supervise and that send; the bus transmits; a
\* module that is on goes on sending heartbeats.
DoFairSpec ==
  /\ DoSpec
  /\ WF_do_vars(Cycle) /\ SF_do_vars(CycleRefresh)
  /\ SF_do_vars(Pass) /\ SF_do_vars(Supervise)
  /\ WF_do_vars(Deliver)
  /\ \A m \in Modules : WF_do_vars(ExtHeartbeat(m))

-----------------------------------------------------------------------------
(* Properties. *)

DoTypeOK ==
  /\ do_state \in [Modules -> BOOLEAN] /\ prev_do_state \in [Modules -> BOOLEAN]
  /\ update_data \in [Modules -> BOOLEAN]
  /\ link_state \in [Modules -> {0, 1}]
  /\ heartbeat_cnt \in [Modules -> 0 .. HeartbeatMax]
  /\ dat \in 1 .. NumModules + 1 /\ upd_do_mod_num \in Modules
  /\ cpc \in {"idle", "send", "check", "count", "down", "drop"}
  /\ at \in Modules /\ loaded \in 0 .. HeartbeatMax
  /\ frames \in Seq([to : Modules, value : BOOLEAN]) /\ Len(frames) <= MaxFrames
  /\ alive \in [Modules -> BOOLEAN] /\ applied \in [Modules -> BOOLEAN]
  /\ losses \in 0 .. MaxLosses /\ elapsed \in BOOLEAN
  /\ sent \in [Modules -> BOOLEAN] /\ clean \in BOOLEAN

\* Every variable keeps its type, and what a connected module was last sent is what
\* the program wants, or it is about to be sent again - by the flag, by the comparison
\* in do_mod_cycle or by the pass under way - unless a heartbeat has met the
\* supervision or the program.
ChangeKept ==
  /\ DoTypeOK
  /\ clean => \A m \in Modules :
       \/ sent[m] = do_state[m] \/ link_state[m] = 0
       \/ update_data[m] \/ prev_do_state[m] # do_state[m]
       \/ cpc = "send" /\ at = m

\* Whatever met or was lost, a module that stays on ends up with its link up and the
\* outputs the program wants, once the program leaves it and the modules before it alone,
\* and the link of one that is gone, or was never there, ends up down for good.
EndsSettled ==
  \A m \in Modules :
    /\ <>[]alive[m] => \/ <>[](applied[m] = do_state[m] /\ link_state[m] = 1)
                       \/ []<><<\E k \in 1 .. m : WriteOutput(k)>>_do_vars
    /\ <>[](~alive[m]) => <>[](link_state[m] = 0)

\* do_module.c:41: the data goes to every module again and again, changed or not, so that
\* the module can supervise the link.  A pass serves the first flagged module only, so this
\* holds of a module as long as the program does not go on changing those before it:
\* nothing else, refreshes, heartbeats and later modules included, keeps it waiting.
AllRefreshed ==
  \A m \in Modules :
    <>[]alive[m] => \/ []<><<PassSend /\ at = m>>_do_vars
                    \/ []<><<\E k \in 1 .. m - 1 : WriteOutput(k)>>_do_vars
===============================================================================
