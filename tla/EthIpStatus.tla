------------------------------ MODULE EthIpStatus -----------------------------
(***************************************************************************)
(* The state of the link to SCADA.  Every request for object 9C (ethip.c)  *)
(* says that the link is up; canTask (can_task.c) takes it down when no    *)
(* such request has come for Limit rounds, and announces every change in   *)
(* two frames (update_eth_ip_state in update_plc_data.c), one for the      *)
(* telemetry and one for the status.  A time that SCADA sets goes the same *)
(* way, from the session to canTask and to the bus.                        *)
(*                                                                         *)
(* A session has a higher priority than canTask: it answers a request      *)
(* between any two accesses of canTask, and canTask never sees half of it. *)
(***************************************************************************)
EXTENDS Naturals

CONSTANTS
  Limit,                    \* rounds of canTask without a request (3000)
  TelemetryAt, StatusAt,    \* the rounds in which the two frames go out (10, 20)
  TmrSize,                  \* values of ethip_tmr (2^16)
  MaxTurns,                 \* bound: SCADA starts or stops asking
  MaxTimes                  \* bound: times set by SCADA

VARIABLES
  eth_ip_state, eth_ip_upd, eth_ip_tmr,
  ob_time_upd, answer_time,
  pc, loaded,            \* canTask in its round
  ethip_tmr,             \* static in update_eth_ip_state
  status, telemetry,     \* the last frame of each kind: the state it was built from
  sent_time,             \* the last time put on the bus
  polling, turns,        \* SCADA: asking for object 9C, or not
  missed,                \* history: the state changed while its frame went out
  stale                  \* history: the state changed between the two frames

link == <<eth_ip_state, eth_ip_upd, eth_ip_tmr>>
time == <<ob_time_upd, answer_time, sent_time>>
task == <<pc, loaded>>
frames == <<ethip_tmr, status, telemetry>>
scada == <<polling, turns>>
history == <<missed, stale>>
vars == <<link, time, task, frames, scada, history>>

States == {"down", "up", "start"}       \* 0, 1, 2

Init ==
  /\ eth_ip_state = "start" /\ eth_ip_upd = TRUE /\ eth_ip_tmr = 0
  /\ ob_time_upd = FALSE /\ answer_time = 0 /\ sent_time = 0
  /\ pc = "time" /\ loaded = 0
  /\ ethip_tmr = 0 /\ status = "none" /\ telemetry = "none"
  /\ polling = FALSE /\ turns = 0
  /\ missed = FALSE /\ stale = FALSE

-----------------------------------------------------------------------------
(* The sessions. *)

\* The telemetry is out and the frame with the status is not: the flag that is
\* set for the new state goes down with that frame.
Between == eth_ip_upd /\ ethip_tmr \in TelemetryAt + 1 .. StatusAt

\* Mutant: the state is stored before it is compared.
RequestSilent ==
  /\ polling
  /\ eth_ip_state' = "up" /\ eth_ip_tmr' = 0
  /\ missed' = (missed \/ (pc = "clear" /\ eth_ip_state # "up"))
  /\ stale' = (stale \/ (Between /\ eth_ip_state # "up"))
  /\ UNCHANGED <<eth_ip_upd, time, task, frames, scada>>

\* get_attribute_single for object 9C.
Request ==
  /\ polling
  /\ eth_ip_state' = "up" /\ eth_ip_tmr' = 0
  /\ eth_ip_upd' = (eth_ip_upd \/ eth_ip_state # "up")
  /\ missed' = (missed \/ (pc = "clear" /\ eth_ip_state # "up"))
  /\ stale' = (stale \/ (Between /\ eth_ip_state # "up"))
  /\ UNCHANGED <<time, task, frames, scada>>

\* time_set_attribute_single: the flag first, then the time.
SetTime ==
  /\ answer_time < MaxTimes
  /\ ob_time_upd' = TRUE /\ answer_time' = answer_time + 1
  /\ UNCHANGED <<link, sent_time, task, frames, scada, history>>

Turn ==
  /\ turns < MaxTurns /\ turns' = turns + 1
  /\ polling' = ~polling
  /\ UNCHANGED <<link, time, task, frames, history>>

-----------------------------------------------------------------------------
(* canTask. *)

TimeCheck ==
  /\ pc = "time"
  /\ pc' = IF ob_time_upd THEN "send" ELSE "load"
  /\ ob_time_upd' = FALSE
  /\ UNCHANGED <<link, answer_time, sent_time, loaded, frames, scada, history>>

TimeSend ==
  /\ pc = "send" /\ pc' = "load"
  /\ sent_time' = answer_time
  /\ UNCHANGED <<link, ob_time_upd, answer_time, loaded, frames, scada, history>>

\* eth_ip_tmr++, load and store.  As long as SCADA asks, it asks often enough.
TickLoad ==
  /\ pc = "load" /\ pc' = "store"
  /\ polling => eth_ip_tmr + 1 < Limit
  /\ loaded' = eth_ip_tmr
  /\ UNCHANGED <<link, time, frames, scada, history>>

TickStore ==
  /\ pc = "store" /\ pc' = "limit"
  /\ eth_ip_tmr' = loaded + 1
  /\ UNCHANGED <<eth_ip_state, eth_ip_upd, time, loaded, frames, scada, history>>

\* The test is on the variable or on the value just stored, as compiled.
TickLimit ==
  /\ pc = "limit"
  /\ \E tmr \in {eth_ip_tmr, loaded + 1} :
       IF tmr >= Limit THEN pc' = "flag" /\ eth_ip_tmr' = 0
                       ELSE pc' = "announce" /\ UNCHANGED eth_ip_tmr
  /\ loaded' = 0
  /\ UNCHANGED <<eth_ip_state, eth_ip_upd, time, frames, scada, history>>

DownFlag ==
  /\ pc = "flag" /\ pc' = "down"
  /\ eth_ip_upd' = (eth_ip_upd \/ eth_ip_state # "down")
  /\ UNCHANGED <<eth_ip_state, eth_ip_tmr, time, loaded, frames, scada, history>>

DownState ==
  /\ pc = "down" /\ pc' = "announce"
  /\ eth_ip_state' = "down"
  /\ stale' = (stale \/ (Between /\ eth_ip_state # "down"))
  /\ UNCHANGED <<eth_ip_upd, eth_ip_tmr, time, loaded, frames, scada, missed>>

\* Mutants: the timer does not wrap; it stops at its highest value.
NextTmrWide == ethip_tmr + 1
NextTmrStops == IF ethip_tmr + 1 < TmrSize THEN ethip_tmr + 1 ELSE ethip_tmr

NextTmr == (ethip_tmr + 1) % TmrSize

AnnounceNothing ==
  /\ pc = "announce" /\ pc' = "time" /\ ~eth_ip_upd
  /\ ethip_tmr' = 0
  /\ UNCHANGED <<link, time, loaded, status, telemetry, scada, history>>

AnnounceTelemetry ==
  /\ pc = "announce" /\ pc' = "time" /\ eth_ip_upd
  /\ ethip_tmr = TelemetryAt /\ ethip_tmr' = NextTmr
  /\ telemetry' = IF eth_ip_state = "up" THEN "up" ELSE "down"
  /\ stale' = FALSE
  /\ UNCHANGED <<link, time, loaded, status, scada, missed>>

AnnounceStatus ==
  /\ pc = "announce" /\ pc' = "clear" /\ eth_ip_upd
  /\ ethip_tmr = StatusAt
  /\ status' = eth_ip_state
  /\ missed' = FALSE
  /\ UNCHANGED <<link, time, loaded, ethip_tmr, telemetry, scada, stale>>

AnnounceClear ==
  /\ pc = "clear" /\ pc' = "time"
  /\ eth_ip_upd' = FALSE /\ ethip_tmr' = NextTmr
  /\ UNCHANGED <<eth_ip_state, eth_ip_tmr, time, loaded, status, telemetry, scada, history>>

AnnounceWait ==
  /\ pc = "announce" /\ pc' = "time" /\ eth_ip_upd
  /\ ethip_tmr \notin {TelemetryAt, StatusAt} /\ ethip_tmr' = NextTmr
  /\ UNCHANGED <<link, time, loaded, status, telemetry, scada, history>>

Announce ==
  \/ AnnounceNothing \/ AnnounceTelemetry \/ AnnounceStatus \/ AnnounceClear \/ AnnounceWait

CanTask ==
  TimeCheck \/ TimeSend \/ TickLoad \/ TickStore \/ TickLimit \/ DownFlag \/ DownState \/ Announce

Next == Request \/ SetTime \/ Turn \/ CanTask

Spec == Init /\ [][Next]_vars

\* canTask loops; SCADA keeps asking while it asks at all.
FairSpec == Spec /\ WF_vars(CanTask) /\ WF_vars(Request)

-----------------------------------------------------------------------------
(* Properties. *)

TypeOK ==
  /\ eth_ip_state \in States /\ eth_ip_upd \in BOOLEAN /\ eth_ip_tmr \in 0 .. Limit
  /\ ob_time_upd \in BOOLEAN /\ answer_time \in 0 .. MaxTimes
  /\ pc \in {"time", "send", "load", "store", "limit", "flag", "down", "announce", "clear"}
  /\ loaded \in 0 .. Limit
  /\ ethip_tmr \in 0 .. TmrSize - 1
  /\ status \in States \cup {"none"} /\ telemetry \in {"none", "up", "down"}
  /\ sent_time \in 0 .. MaxTimes
  /\ polling \in BOOLEAN /\ turns \in 0 .. MaxTurns
  /\ missed \in BOOLEAN /\ stale \in BOOLEAN

Shown(s) == IF s = "up" THEN "up" ELSE "down"

\* With the flag down both frames say what the state is, whatever came between
\* the accesses of canTask - unless it came after the frame was built.
NothingUnannounced ==
  ~eth_ip_upd => /\ missed \/ status = eth_ip_state
                 /\ stale \/ telemetry = Shown(eth_ip_state)

\* While SCADA asks the link ends up being up, although a request may meet the
\* timeout; when it no longer does it ends up being down.  The flag is always followed
\* by its frames: ethip_tmr may have gone past their rounds when the flag is set again,
\* and then comes round to them.  The time that goes out last is the one set last.
EndsReported ==
  /\ <>[]polling => <>[](eth_ip_state = "up")
  /\ <>[](~polling) => <>[](eth_ip_state = "down")
  /\ <>[](missed \/ status = eth_ip_state)
  /\ <>[](stale \/ telemetry = Shown(eth_ip_state))
  /\ <>[](sent_time = answer_time)
===============================================================================
