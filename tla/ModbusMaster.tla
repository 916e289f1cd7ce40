----------------------------- MODULE ModbusMaster -----------------------------
(***************************************************************************)
(* The Modbus master of a canal (modbus_master.c, rs485.c and the USART    *)
(* and DMA interrupts).  The master sends its requests in turn; a fixed    *)
(* time after a request it takes whatever the receive interrupt has put    *)
(* into the buffer for the answer, if its length, its checksum and the     *)
(* address of the slave are right.                                         *)
(*                                                                         *)
(* A slave may be off or answer late, and a thread of higher priority may  *)
(* run between the sending of the request and rx1_cnt=0.  A byte is the    *)
(* frame it is of and its place in it, and a checksum is right for one     *)
(* whole frame and for nothing else.                                       *)
(***************************************************************************)
EXTENDS Naturals, Sequences

CONSTANTS
  Reqs,          \* canal1_mvar_reqs: slave, wr_flag and bytes of the answer
  Silent,        \* no request
  BufSize,       \* UART_BUF_SISE
  MaxVal,        \* bound: changes of a value
  MaxLate,       \* bound: times the master does not wait for the end of an answer
  MaxHolds,      \* bound: times the request is out before rx1_cnt=0
  MaxOutages     \* bound: times a slave goes off

Requests == DOMAIN Reqs
Slaves == {Reqs[r].slave : r \in Requests}
Reads == {r \in Requests : ~Reqs[r].wr_flag}
Writes == Requests \ Reads

ASSUME MasterAssumption ==
  /\ Reqs \in Seq([slave : Slaves, wr_flag : BOOLEAN, answer_length : Nat \ {0}]) /\ Reqs # <<>>
  /\ Silent \notin Requests \cup 0 .. MaxVal
  /\ BufSize \in Nat \ {0}
  /\ MaxVal \in Nat /\ MaxLate \in Nat /\ MaxHolds \in Nat /\ MaxOutages \in Nat

VARIABLES
  pc, mb_cnt,            \* where the canal is; its request
  rx, rxne,              \* rx1_buf up to rx1_cnt; the receive interrupt is enabled
  sending, clash,        \* the value in the request under way; it met an answer
  vars, err,             \* the variables of a request; err_mod_can1
  data, line, on,        \* the slaves: their registers, the bytes of answers to come
  late, holds, outages,  \* counts of the bounds
  from                   \* history: the answer the variables of a request are from

master == <<pc, mb_cnt>>
uart == <<rx, rxne, sending, clash>>
program == <<vars, err, from>>
bus == <<data, line, on>>
bounds == <<late, holds, outages>>
all == <<master, uart, program, bus, bounds>>

Nothing == [request |-> Silent, old |-> FALSE]

Init ==
  /\ pc = "send" /\ mb_cnt = 1
  /\ rx = <<>> /\ rxne = TRUE /\ sending = Silent /\ clash = FALSE
  /\ vars = [r \in Requests |-> 0] /\ err = [s \in Slaves |-> FALSE]
  /\ from = [r \in Requests |-> Nothing]
  /\ data = [r \in Requests |-> 0] /\ line = <<>> /\ on = [s \in Slaves |-> TRUE]
  /\ late = 0 /\ holds = 0 /\ outages = 0

Req == Reqs[mb_cnt]
Frame(r) == [n \in 1 .. Reqs[r].answer_length |->
               [request |-> r, place |-> n, val |-> data[r], old |-> FALSE]]
Old(bytes) == [n \in DOMAIN bytes |-> [bytes[n] EXCEPT !.old = TRUE]]

-----------------------------------------------------------------------------
(* modbus_master_process_canal1, in defaultTask. *)

\* send_data_to_uart1: the receive interrupt is off until the request is out.
Send ==
  /\ pc = "send" /\ pc' = "clear"
  /\ rxne' = FALSE /\ sending' = vars[mb_cnt] /\ clash' = (line # <<>>)
  /\ rx' = Old(rx) /\ line' = Old(line)
  /\ UNCHANGED <<mb_cnt, program, data, on, bounds>>

\* Mutant: what has been received is kept.
ClearNot ==
  /\ pc = "clear" /\ pc' = "wait"
  /\ UNCHANGED <<mb_cnt, uart, program, bus, bounds>>

\* rx1_cnt=0
Clear ==
  /\ pc = "clear" /\ pc' = "wait" /\ rx' = <<>>
  /\ UNCHANGED <<mb_cnt, rxne, sending, clash, program, bus, bounds>>

\* GetCRC16(rx1_buf,rx1_cnt)==0
Whole == Len(rx) = Reqs[rx[1].request].answer_length
         /\ \A n \in DOMAIN rx : rx[n] = [rx[1] EXCEPT !.place = n]

\* Mutant: the slave is not compared.
AcceptedAnyone == rx # <<>> /\ Len(rx) >= Req.answer_length /\ Whole

Accepted ==
  rx # <<>> /\ Len(rx) >= Req.answer_length /\ Whole /\ Reqs[rx[1].request].slave = Req.slave

Take ==
  /\ err' = [err EXCEPT ![Req.slave] = FALSE]
  /\ vars' = IF Req.wr_flag THEN vars ELSE [vars EXCEPT ![mb_cnt] = rx[1].val]
  /\ from' = [from EXCEPT ![mb_cnt] = [request |-> rx[1].request, old |-> rx[1].old]]

\* Mutant: the variables keep what they have.
FailKept ==
  /\ err' = [err EXCEPT ![Req.slave] = TRUE]
  /\ from' = [from EXCEPT ![mb_cnt] = Nothing]
  /\ UNCHANGED vars

Fail ==
  /\ err' = [err EXCEPT ![Req.slave] = TRUE]
  /\ vars' = IF Req.wr_flag THEN vars ELSE [vars EXCEPT ![mb_cnt] = 0]
  /\ from' = [from EXCEPT ![mb_cnt] = Nothing]

Following(n) == IF n + 1 > Len(Reqs) THEN 1 ELSE n + 1

\* mb_delay>=canal1_modbus_delay.  The bytes the interrupt appends meanwhile are
\* behind those the analysis looks at.
Analyse ==
  /\ pc = "wait" /\ sending = Silent
  /\ IF line = <<>> THEN UNCHANGED late ELSE late < MaxLate /\ late' = late + 1
  /\ IF Accepted THEN Take ELSE Fail
  /\ pc' = "send" /\ mb_cnt' = Following(mb_cnt)
  /\ UNCHANGED <<uart, bus, holds, outages>>

Master == Send \/ Clear \/ Analyse

-----------------------------------------------------------------------------
(* The interrupts, and the slaves. *)

\* TC: the direction is switched, and the receive interrupt is on again.
Transmitted == sending' = Silent /\ clash' = FALSE /\ rxne' = TRUE /\ UNCHANGED rx

\* The slave of the request hears it, does as it is told and answers.
Requested ==
  /\ sending # Silent
  /\ IF pc = "clear" THEN holds < MaxHolds /\ holds' = holds + 1 ELSE UNCHANGED holds
  /\ \E hears \in BOOLEAN :
       /\ hears => on[Req.slave]
       /\ ~hears => ~on[Req.slave] \/ clash
       /\ Transmitted
       /\ data' = IF hears /\ Req.wr_flag THEN [data EXCEPT ![mb_cnt] = sending] ELSE data
       /\ line' = IF hears THEN line \o Frame(mb_cnt) ELSE line
  /\ UNCHANGED <<master, program, on, late, outages>>

\* RXNE, or a byte nobody listens to.
Receive ==
  /\ line # <<>> /\ line' = Tail(line)
  /\ rx' = IF ~rxne THEN rx ELSE IF Len(rx) + 1 >= BufSize THEN <<>> ELSE Append(rx, Head(line))
  /\ UNCHANGED <<master, rxne, sending, clash, program, data, on, bounds>>

\* The registers of a slave, and the variables the program writes, change.
SlaveChanges(r) ==
  /\ data[r] < MaxVal /\ data' = [data EXCEPT ![r] = @ + 1]
  /\ UNCHANGED <<master, uart, program, line, on, bounds>>

ProgramChanges(r) ==
  /\ vars[r] < MaxVal /\ vars' = [vars EXCEPT ![r] = @ + 1]
  /\ UNCHANGED <<master, uart, err, from, bus, bounds>>

SlaveOff(s) ==
  /\ on[s] /\ outages < MaxOutages /\ outages' = outages + 1
  /\ on' = [on EXCEPT ![s] = FALSE]
  /\ UNCHANGED <<master, uart, program, data, line, late, holds>>

SlaveOn(s) ==
  /\ ~on[s] /\ on' = [on EXCEPT ![s] = TRUE]
  /\ UNCHANGED <<master, uart, program, data, line, bounds>>

Environment ==
  \/ \E r \in Reads : SlaveChanges(r)
  \/ \E r \in Writes : ProgramChanges(r)
  \/ \E s \in Slaves : SlaveOff(s) \/ SlaveOn(s)

Next == Master \/ Requested \/ Receive \/ Environment

Spec == Init /\ [][Next]_all

\* defaultTask runs every millisecond, and what is on the line arrives.
FairSpec == Spec /\ WF_all(Master) /\ WF_all(Requested) /\ WF_all(Receive)

-----------------------------------------------------------------------------
(* Properties. *)

Byte == [request : Requests, place : Nat, val : 0 .. MaxVal, old : BOOLEAN]

TypeOK ==
  /\ pc \in {"send", "clear", "wait"} /\ mb_cnt \in Requests
  /\ rx \in Seq(Byte) /\ Len(rx) < BufSize /\ line \in Seq(Byte)
  /\ rxne \in BOOLEAN /\ clash \in BOOLEAN /\ sending \in (0 .. MaxVal) \cup {Silent}
  /\ vars \in [Requests -> 0 .. MaxVal] /\ data \in [Requests -> 0 .. MaxVal]
  /\ err \in [Slaves -> BOOLEAN] /\ on \in [Slaves -> BOOLEAN]
  /\ from \in [Requests -> [request : Requests \cup {Silent}, old : BOOLEAN]]
  /\ late \in 0 .. MaxLate /\ holds \in 0 .. MaxHolds /\ outages \in 0 .. MaxOutages

\* Every variable keeps its type, and whatever comes late or in pieces, the variables
\* of a request are only taken from an answer of the slave it is for, which is at
\* least as long as they need.
OwnSlave ==
  /\ TypeOK
  /\ \A r \in Requests : LET a == from[r].request IN
       a # Silent => /\ Reqs[a].slave = Reqs[r].slave
                     /\ Reqs[a].answer_length >= Reqs[r].answer_length

\* They are from the answer to this request, given since it was last sent, as long
\* as no answer has been late.
OwnAnswer ==
  \A r \in Requests :
    from[r].request # Silent /\ late = 0 => from[r] = [request |-> r, old |-> FALSE]

\* A slave that remains silent is reported, and its variables are zero; one that
\* remains there is not, and its registers and the variables of the program are the
\* same in the end, both ways, although answers were late, cut off or met by a
\* request before.
EndsSettled ==
  /\ \A s \in Slaves :
       []<>on[s] \/ <>[](err[s] /\ \A r \in Reads : Reqs[r].slave = s => vars[r] = 0)
  /\ \A r \in Requests :
       []<>~on[Reqs[r].slave] \/ <>[](~err[Reqs[r].slave] /\ vars[r] = data[r])
===============================================================================
