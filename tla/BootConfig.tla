------------------------------ MODULE BootConfig ------------------------------
(***************************************************************************)
(* The configuration of the controller, over the store eeprom.c promises   *)
(* (ConfigStore): its defaults and its reading at boot (main.c), and the   *)
(* orders that change it: an address over CAN (can_task.c) or from the LCD *)
(* (lcd.c), which restart the controller, registers over UDP               *)
(* (udp_server.c) or Modbus (rs485_protocol.c), which do not, and the way  *)
(* into the boot loader (freertos.c).  Power may be lost at any time.      *)
(*                                                                         *)
(* The handlers are straight lists of assignments and calls of             *)
(* EE_WriteVariable, so a handler is what it has still to do.  The LCD and *)
(* CAN are interrupts, in this order of priority; UDP is a thread of       *)
(* higher priority than the task of Modbus and of the boot loader.  Calls  *)
(* of EE_WriteVariable do not overlap.                                     *)
(***************************************************************************)
EXTENDS Naturals, Sequences, SequencesExt

CONSTANTS
  Regs,          \* the variables of the configuration, in the order of VirtAddVarTab
  AiType,        \* the one of them whose bits are coils as well: VirtAddVarTab[9]
  KeyVar, LoaderVar, ConfigKeyVar,    \* VirtAddVarTab[0], [1] and [15]
  Vals, Default, \* data of the configuration; the one of the defaults
  Key, ConfigKey, ToLoader, ToProgram,    \* data of the other three
  Absent, NoRequest,
  LoaderTicks,   \* loader_flag>=50
  MaxOrders,     \* bound: orders to change something
  MaxCuts        \* bound: losses of power

Conf == ToSet(Regs)
Vars == Conf \cup {KeyVar, LoaderVar, ConfigKeyVar}
AllVals == Vals \cup {Key, ConfigKey, ToLoader, ToProgram}

Junk == "what was read before"

\* The virtual addresses of VirtAddVarTab are distinct.
ASSUME ConfigAssumption ==
  /\ Regs \in Seq(Conf) /\ Len(Regs) >= 3 /\ AiType \in Conf
  /\ \A i, j \in DOMAIN Regs : Regs[i] = Regs[j] => i = j
  /\ Conf \cap {KeyVar, LoaderVar, ConfigKeyVar} = {}
  /\ KeyVar # LoaderVar /\ KeyVar # ConfigKeyVar /\ LoaderVar # ConfigKeyVar
  /\ Default \in Vals /\ ToLoader # ToProgram
  /\ Absent \notin AllVals /\ Junk \notin AllVals
  /\ NoRequest \notin [var : Vars, val : AllVals]
  /\ LoaderTicks \in Nat /\ LoaderTicks > 1
  /\ MaxOrders \in Nat /\ MaxCuts \in Nat

VARIABLES
  store, request, ok,    \* the EEPROM: ConfigStore
  pc,                \* what the controller executes
  todo,              \* per handler: what it has still to do
  ram,               \* net_address, ip_addr, ...; kept over a reset as history
  loader_flag,
  watchdog,          \* progTask has started the watchdog
  orders, cuts,      \* counts of the bounds
  torn               \* history: a change was cut off, or two wrote one variable

CS == INSTANCE ConfigStore WITH Vals <- AllVals

eeprom == <<store, request, ok>>
bounds == <<orders, cuts>>
vars == <<eeprom, pc, todo, ram, loader_flag, watchdog, bounds, torn>>

\* Who stops a handler: interrupts, and threads of higher priority.
Above == [lcd |-> {}, can |-> {"lcd"}, udp |-> {"lcd", "can"}, task |-> {"lcd", "can", "udp"}]
Handlers == DOMAIN Above
Ready(h) == \A g \in Above[h] : todo[g] = <<>>
Idle == [h \in Handlers \cup {"main"} |-> <<>>]

Assign(v, x) == [do |-> "assign", var |-> v, val |-> x]
Call(v, x) == [do |-> "write", var |-> v, val |-> x]
Restart == [do |-> "restart", var |-> KeyVar, val |-> Key]
Wait == [do |-> "wait", var |-> KeyVar, val |-> Key]

Init ==
  /\ CS!Init /\ pc = "reset" /\ todo = Idle
  /\ ram = [v \in Conf |-> Default]
  /\ loader_flag = 0 /\ watchdog = FALSE
  /\ orders = 0 /\ cuts = 0 /\ torn = FALSE

-----------------------------------------------------------------------------
(* main. *)

\* The boot loader (external): it starts the program unless it is to stay.
Start ==
  /\ pc = "reset" /\ pc' = IF store[LoaderVar] = ToLoader THEN "loader" ELSE "main"
  /\ UNCHANGED <<eeprom, todo, ram, loader_flag, watchdog, bounds, torn>>

LeaveLoader ==
  /\ pc = "loader" /\ pc' = "main"
  /\ UNCHANGED <<eeprom, todo, ram, loader_flag, watchdog, bounds, torn>>

\* Mutants: the program does not say that it runs; no key is written; the keys first.
MarkNot == <<>>
DefaultsNoKey == <<Call(KeyVar, Key)>> \o [n \in DOMAIN Regs |-> Call(Regs[n], Default)]
DefaultsKeysFirst ==
  <<Call(KeyVar, Key), Call(ConfigKeyVar, ConfigKey)>>
    \o [n \in DOMAIN Regs |-> Call(Regs[n], Default)]

Mark ==
  IF store[KeyVar] = Key /\ store[LoaderVar] # ToProgram
    THEN <<Call(LoaderVar, ToProgram)>> ELSE <<>>

Defaults ==
  <<Call(KeyVar, Key)>> \o [n \in DOMAIN Regs |-> Call(Regs[n], Default)]
    \o <<Call(ConfigKeyVar, ConfigKey)>>

Check ==
  /\ pc = "main" /\ pc' = "init"
  /\ todo' = [todo EXCEPT !.main =
                Mark \o IF store[ConfigKeyVar] # ConfigKey THEN Defaults ELSE <<>>]
  /\ UNCHANGED <<eeprom, ram, loader_flag, watchdog, bounds, torn>>

\* EE_ReadVariable leaves its argument alone when it finds nothing.
Load ==
  /\ pc = "init" /\ todo["main"] = <<>> /\ request = NoRequest
  /\ ram' = [v \in Conf |-> IF store[v] = Absent THEN Junk ELSE store[v]]
  /\ pc' = "run" /\ torn' = FALSE
  /\ UNCHANGED <<eeprom, todo, loader_flag, watchdog, bounds>>

\* ProgTask, two seconds later.
Watch ==
  /\ pc = "run" /\ watchdog' = TRUE /\ \A h \in DOMAIN todo : todo[h] = <<>>
  /\ UNCHANGED <<eeprom, pc, todo, ram, loader_flag, bounds, torn>>

-----------------------------------------------------------------------------
(* The handlers. *)

\* The n-th step of h stores what h has assigned already.
Storing(h, n) ==
  /\ todo[h][n].do = "write" /\ todo[h][n].var \in Conf
  /\ \A k \in 1 .. n : todo[h][k] # Assign(todo[h][n].var, todo[h][n].val)

\* Variables a handler has assigned and not yet stored.
Unstored(h) == {todo[h][n].var : n \in {m \in DOMAIN todo[h] : Storing(h, m)}}
Halfway == (request # NoRequest /\ request.var \in Conf) \/ \E h \in Handlers : Unstored(h) # {}

Step(h, what) ==
  /\ todo[h] # <<>> /\ Head(todo[h]).do = what
  /\ IF h = "main" THEN pc = "init" ELSE pc = "run" /\ Ready(h)
  /\ todo' = [todo EXCEPT ![h] = Tail(@)]

DoAssign(h) ==
  /\ Step(h, "assign")
  /\ LET s == Head(todo[h]) IN
       /\ ram' = [ram EXCEPT ![s.var] = s.val]
       /\ torn' = (torn \/ \E g \in Handlers \ {h} : s.var \in Unstored(g))
  /\ UNCHANGED <<eeprom, pc, loader_flag, watchdog, bounds>>

DoWrite(h) ==
  /\ Step(h, "write")
  /\ request' = [var |-> Head(todo[h]).var, val |-> Head(todo[h]).val] /\ CS!Begin
  /\ UNCHANGED <<pc, ram, loader_flag, watchdog, bounds, torn>>

Written == CS!Commit /\ UNCHANGED <<pc, todo, ram, loader_flag, watchdog, bounds, torn>>
Returned == CS!End /\ UNCHANGED <<pc, todo, ram, loader_flag, watchdog, bounds, torn>>

Address(x, y) == x # ram[Regs[2]] \/ y # ram[Regs[3]]
Order(h, list) ==
  /\ pc = "run" /\ todo[h] = <<>> /\ Ready(h)
  /\ orders < MaxOrders /\ orders' = orders + 1
  /\ todo' = [todo EXCEPT ![h] = list]
  /\ UNCHANGED <<eeprom, pc, ram, loader_flag, watchdog, cuts, torn>>

\* handle_can1_stand_request, 0x1F.
CanAddress ==
  \E x, y \in Vals :
    /\ Address(x, y)
    /\ Order("can", <<Assign(Regs[2], x), Assign(Regs[3], y), Call(Regs[2], x), Call(Regs[3], y),
                      Restart>>)

\* do_cmd.  HAL_Delay waits for the tick, which does not interrupt this interrupt.
LcdAddress ==
  \E x, y \in Vals :
    /\ Address(x, y)
    /\ Order("lcd", <<Assign(Regs[2], x), Call(Regs[2], x), Assign(Regs[3], y), Call(Regs[3], y),
                      Wait>>)

LcdNet ==
  \E x \in Vals :
    /\ x # ram[Regs[1]]
    /\ Order("lcd", <<Assign(Regs[1], x), Call(Regs[1], x), Wait>>)

\* Registers from the i-th to the j-th, one after the other, assigned and then stored.
Registers(i, j, x) ==
  [n \in 1 .. 2 * (j - i + 1) |->
     LET v == Regs[i + (n - 1) \div 2] IN IF n % 2 = 1 THEN Assign(v, x) ELSE Call(v, x)]

UdpWrite ==
  \E i, j \in DOMAIN Regs, x \in Vals : i <= j /\ Order("udp", Registers(i, j, x))

\* A coil that is the type of an analog input.  A request for several of them assigns and
\* stores ai_type once for each: here they are as many orders.
Coil(x) == <<Assign(AiType, x), Call(AiType, x)>>

ModbusWrite ==
  \/ \E i, j \in DOMAIN Regs, x \in Vals : i <= j /\ Order("task", Registers(i, j, x))
  \/ \E x \in Vals : Order("task", Coil(x))

-----------------------------------------------------------------------------
(* The way into the boot loader, and resets. *)

AskLoader ==
  /\ pc = "run" /\ Ready("task")
  /\ orders < MaxOrders /\ orders' = orders + 1
  /\ loader_flag' = 1
  /\ UNCHANGED <<eeprom, pc, todo, ram, watchdog, cuts, torn>>

\* Mutant: the flag is not counted.
LoaderCountStuck == loader_flag' = loader_flag

LoaderCount == loader_flag' = loader_flag + 1

LoaderTick ==
  /\ pc = "run" /\ Ready("task") /\ todo["task"] = <<>>
  /\ loader_flag \in 1 .. LoaderTicks - 1 /\ LoaderCount
  /\ todo' = [todo EXCEPT !.task = IF loader_flag' >= LoaderTicks
                                     THEN <<Call(LoaderVar, ToLoader), Restart>> ELSE <<>>]
  /\ UNCHANGED <<eeprom, pc, ram, watchdog, bounds, torn>>

Reset ==
  /\ pc' = "reset" /\ todo' = Idle /\ CS!Reset
  /\ loader_flag' = 0 /\ watchdog' = FALSE /\ torn' = (torn \/ Halfway)
  /\ UNCHANGED <<ram, orders>>

\* NVIC_SystemReset
SystemReset(h) ==
  /\ todo[h] # <<>> /\ Head(todo[h]) = Restart /\ Ready(h) /\ request = NoRequest
  /\ Reset /\ UNCHANGED cuts

\* The watchdog, when the interrupt of the LCD does not return.
WatchdogReset ==
  /\ watchdog /\ todo["lcd"] = <<Wait>> /\ request = NoRequest
  /\ Reset /\ UNCHANGED cuts

PowerLoss == cuts < MaxCuts /\ cuts' = cuts + 1 /\ Reset

Main == Start \/ Check \/ Load \/ Written \/ Returned
Handle(h) == DoAssign(h) \/ DoWrite(h) \/ SystemReset(h)
Orders == CanAddress \/ LcdAddress \/ LcdNet \/ UdpWrite \/ ModbusWrite \/ AskLoader

Next ==
  \/ Main \/ LeaveLoader \/ Watch \/ LoaderTick \/ WatchdogReset \/ PowerLoss \/ Orders
  \/ \E h \in DOMAIN todo : Handle(h)

Spec == Init /\ [][Next]_vars

\* The processor executes what is ready, and nothing outlasts the watchdog.
FairSpec ==
  /\ Spec /\ WF_vars(Start) /\ WF_vars(Check) /\ WF_vars(Load)
  /\ WF_vars(Written) /\ WF_vars(Returned)
  /\ WF_vars(LoaderTick) /\ WF_vars(WatchdogReset)
  /\ \A h \in DOMAIN Idle : WF_vars(Handle(h))

-----------------------------------------------------------------------------
(* Properties. *)

Steps == {Restart, Wait} \cup [do : {"assign", "write"}, var : Vars, val : AllVals]

TypeOK ==
  /\ store \in [Vars -> AllVals \cup {Absent}] /\ request \in CS!Request \cup {NoRequest}
  /\ pc \in {"reset", "loader", "main", "init", "run"}
  /\ todo \in [DOMAIN Idle -> Seq(Steps)]
  /\ ram \in [Conf -> Vals \cup {Junk}] /\ loader_flag \in 0 .. LoaderTicks
  /\ watchdog \in BOOLEAN /\ torn \in BOOLEAN
  /\ orders \in 0 .. MaxOrders /\ cuts \in 0 .. MaxCuts

\* Every variable keeps its type, and the program never runs with a configuration that
\* was not in the EEPROM, however often the power was lost while the defaults were
\* written.
Configured == TypeOK /\ \A v \in Conf : ram[v] # Junk

\* A program that runs is only kept in the boot loader by the next reset when it was
\* asked to go there.
LoaderOnlyAsked == pc = "run" /\ store[LoaderVar] = ToLoader => loader_flag > 0

\* A reset does not change the configuration: the program goes on with the one it had,
\* unless the reset came between the assignment of a variable and its storing, or two
\* handlers had been at one variable.
Survives == [][Load => torn \/ ram' = ram]_vars

\* Whoever asks for another address or for the boot loader has the controller
\* restarted.  The LCD has only if the watchdog is on by then: its interrupt does not
\* get as far as the line that restarts.
EndsRestarted ==
  /\ (todo["can"] # <<>>) ~> (pc = "reset" \/ todo["lcd"] # <<>>)
  /\ (todo["lcd"] # <<>> /\ watchdog) ~> (pc = "reset")
  /\ (loader_flag > 0) ~> (pc = "reset" \/ todo["lcd"] # <<>>)
===============================================================================
