# PC21 controller core: TLA+ models, checks and proofs

The repository is the firmware of a PC21 programmable controller: an STM32F427
with FreeRTOS that runs a generated PLC program, shares its data with other
controllers and with I/O modules over CAN, talks to SCADA over EtherNet/IP, polls
Modbus slaves over RS485 and keeps its configuration in an EEPROM emulated in
flash. This directory holds TLA+ models of the parts of it that are hard to test,
the TLC configurations that check them on small instances, and TLAPS proofs, for every
value of the constants, about the CAN transmit ring, the EEPROM emulation, the RS485 modules, the
publication of inputs, the Modbus master, both sides of EtherNet/IP and the configuration.

Contents: [threads](#threads-and-interrupts), [inventory](#inventory),
[models](#the-models), [runs](#what-the-runs-check), [proofs](#what-is-proved),
[disagreements](#where-the-code-and-its-comments-disagree),
[limits](#what-is-not-modelled), [plan](#plan).

## Threads and interrupts

Everything below depends on who can stop whom.

| Who | Priority | Does |
|---|---|---|
| TIM1 (`main.c:406`) | interrupt, 0 | the HAL tick (`Inc/stm32f4xx_hal_conf.h:149`), the gap timers of the CAN rings |
| EXTI3 (`gpio.c:151`), SPI4 | interrupt, 0 | the LCD panel (`lcd.c`): orders that change addresses |
| CAN receive, USART, DMA, Ethernet | interrupt, 5 | they do not nest in each other |
| lwIP (`tcpip_thread`) | task, Realtime | the stack, and the UDP configuration server as a callback of it |
| EtherNet/IP: `tcp_server_thread` and a thread per session (`tcpserver.c`) | task, High | connections and requests of SCADA |
| `canTask` (`can_task.c:193`) | task, Normal | once a millisecond: heartbeats, supervision, changed data, configuration of modules, CAN transmit rings, the SCADA timeout |
| `defaultTask` (`freertos.c:228`) | task, Normal | once a millisecond: ADC, inputs and outputs, RS485 and Modbus, registers of SCADA, restart into the boot loader |
| `progTask` (`freertos.c:356`) | task, BelowNormal | a scan of the PLC program every 10 ms; starts and feeds the watchdog |

There are no mutexes and no critical sections around the shared variables.
Tasks of one priority are time-sliced, so `canTask` and `defaultTask` may be
stopped in favour of each other between any two accesses, and so may two sessions.
A session comes between any two accesses of the tasks below it, which never see half of what it does. An interrupt may come
between any two accesses of a task and runs to its end. `progTask` runs only while
the tasks above it sleep, but an interrupt may come in the middle of its scan. The models take exactly these interleavings, and no more.

## Inventory

`PROJECT.json` lists every component with its files; this is what each keeps,
does and must guarantee.

| Component | State | Operations | What must hold |
|---|---|---|---|
| CAN transmit ring (`can_tx_stack.c`, `can_task.c:107-142`) | 80 slots EMPTY, BUSY or READY, two positions, gap timer | add (tasks and interrupts), get, `can_write_from_stack` | whole packets, in order, each once, none left behind |
| EEPROM emulation (`eeprom.c`) | two flash pages with headers | `EE_Init`, `EE_WriteVariable`, `EE_ReadVariable`, page transfer | writes atomic and durable across a loss of power; one valid page |
| RS485 modules on CAN (`rs_module.c`, `heartbeat.c`, `can_task.c`) | link, missed heartbeats, state of the transfer, data | supervise, send the configuration packet by packet, receive heartbeats, answers, data | a connected module ends up configured; one that is gone is offline with its data cleared |
| Cluster data (`update_plc_data.c`, `can_task.c`, `heartbeat.c`) | own copy and last sent or received value of every register and bit, who is offline | scan, send what changed, receive, resend all after an outage | all nodes end up with the owner's value if its last frame was not lost; no value goes back |
| Network data between clusters | the same for `net_regs`, `net_bits`; node 0 is the gateway CAN1-CAN2 | send, forward, resend | the same across clusters; no frame goes round in circles |
| Publication of inputs (`din.c`, `update_plc_data.c`) | state and fault of the inputs, flags `update_di`, `update_ai` | derive and flag, send and clear, flag all | a change is sent, or at the latest at the refresh |
| Output modules (`do_module.c`) | outputs wanted, flag, link | compare with the heartbeat, send, refresh | a module ends up with the controller's outputs; only the program can keep one waiting |
| Analogue modules (`ai_module.c`) | values, link | receive, supervise | data of a lost module is cleared |
| Modbus master and RS485 (`modbus_master.c`, `rs485.c`) | receive buffer and its count, request in progress | send, receive (interrupt), time out, analyse | an answer is stored for the request it answers |
| EtherNet/IP server (`tcpserver.c`, `ethip.c`) | session numbers, a buffer per session | accept, answer, close | no two sessions share a buffer; a closed slot is free again |
| SCADA exchange (`scada.c`, `intern_regs.c`) | register images, flags of objects written | write by SCADA, take over, update | an acknowledged write reaches the program |
| EtherNet/IP status (`ethip.c`, `can_task.c`, `update_plc_data.c`) | state, time since the last request, flag and round of the two frames, time to send | refresh, time out, announce | the link is reported as it is; the last time set is the last one sent |
| Boot and configuration (`main.c`, `can_task.c`, `lcd.c`, `udp_server.c`, `rs485_protocol.c`) | addresses, IP, keys; their copies in memory | write defaults, load, change an address, restart, go to the boot loader | a reset keeps the configuration; only what was asked for restarts in the boot loader |
| PLC program (`ld_prog.c`, `elements.c`) | generated; timers, counters, triggers | one scan | elements keep their timing over the wrap of the timer |
| Not the program's logic | | `can_protocol.c` (formats), `gpio.c`, `spi.c`, ... (start-up), `Drivers`, `Middlewares` (vendor) | |

Interactions. Every sender of the first bus (heartbeats, changed data, configuration
of modules, answers to requests) goes through one transmit ring, filled by `canTask`
and by the receive interrupt and emptied by `canTask`. The receive interrupt
writes the fields of modules, the copies of cluster data and the heartbeat
counters that `canTask` reads and writes too. `defaultTask` hands the inputs to `canTask` through
flags. `progTask` reads and writes cluster data, outputs, registers of SCADA and variables of Modbus directly. Sessions
hand the time and the link's state to `canTask`, registers to `defaultTask`, each through a flag. The EEPROM
is written by the UDP thread, `defaultTask`, the LCD interrupt and the CAN interrupt.

What is hard in this system: the absence of any mutual exclusion, read-modify-write
of flag words by two parties, losses of power in the middle of flash operations,
frames that are tried once and may be lost (`AutoRetransmission` is off, `can.c:43`), frames without sequence numbers (answers of modules, cluster data sent
by nodes that do not own it, answers of Modbus slaves), answers handed to the network without a copy,
and sentinel values (`prev = 0` for "to be sent"). The hazards at their lines are in `PROJECT.json`.

## The models

The models name actions and variables as the code does; `PROJECT.json` maps every
definition to its lines. Variables marked "history" change nothing in the behaviour
and are there for the properties.

**`CanTxStack`** is the ring with everything that touches it. `canTask` goes through the stores
of `add_tx_can_packet` one by one (`AddCall`, `AddClaim`, `AddCopy`,
`AddPublish`, `AddReturn`; the fields of a packet are stored in any order) and through
`can_write_from_stack` and `get_tx_can_packet` (`WriteCall` ... `Send`). `IsrAdd` is a
whole add from an interrupt; it can come between any two of those steps. `Tick` is TIM1 and
`MailboxDone` the controller. A packet is the number of its call, and a slot remembers
per field which packet it was written by, so that a mixture shows. `clean`
says that neither an overflow nor an add inside an add has happened: the code
protects against neither, and both lose packets.
**`CanQueue`** is the promise: a FIFO of whole packets up to the first fault.
`QueueSpec` is the refinement.

**`Eeprom`** keeps the content of the flash and a plan, the flash
operations that the running function has still to do. Each function of
`eeprom.c` is a straight list chosen from what the pages hold (`InitPlan`,
`TransferPlan`, `Format`), and `PowerLoss` may come between any two of its operations and in the
middle of an erase, which then has erased the header or the words only. A variable is two half words,
programmed one after the other (`DoPut`, `DoSeal`), and `VerifyPageFullyErased`
has the loop bound of the code. **`ConfigStore`** is the promise: a store whose writes are
atomic and durable; `AtomicAndDurable` is the refinement, through `Kept`, the value that
EE_Init will recover from half a transfer.

**`RsModule`** has the two loops of `canTask` over a module
(`WriteConfig`, `Supervise`; the latter in four steps, since the interrupt may come
between load and store of the counter and between the stores that declare the
module lost) and the frames the interrupt handles (`Heartbeat`, `Answer`, `ForeignAnswer`,
`RegsState`). The module is not in the repository: `ModuleReceive`,
`PowerOff`, `PowerOn` are taken from what the controller sends to it and accepts from it. Its heartbeat
says whether it has its whole configuration, as the test at `can_task.c:305` presumes.

**`ClusterData`** has, per node, `copy` and `prev` of every point, the packet `canTask` is
building (`SendBuild`, then `SendAdd` with `prev` taken from the copy as it is by
then), the transmit ring, the nodes held for offline and `update_all`, which a node starts with (`can_task.c:42`).
The ring is that of the code: `AddPacket` writes to its slot whatever is in it, and `TakeFirst` takes the packet at the read position if there is one.
Slots are counted from the read position on, so that only the distance of the two positions is a variable; the steps of an add among themselves are the
subject of `CanTxStack`. A frame has one attempt (`can.c:43`): `Transmit`
delivers it to all connected nodes at once, as CAN does, or to nobody if there is nobody; `Lose` is the attempt that meets an error or comes second in
the arbitration, with `prev` saying all the same that the value was sent. `Disconnect`, `Connect`,
`Restart`, `MissHeartbeats` and `Heartbeat` are the outages; `MissHeartbeats` also comes to a node whose heartbeats were lost in a row. `Registers` selects registers (every node
resends the non-zero ones of all owners) or bits (only the owner's own).

**`DiPublish`** has `defaultTask` in `update_din` and `canTask` in `update_di_data`,
split at every access to `din`, `din_fault` and `update_di`; `|=` and `&=` are a load and a
store. `Refresh` stands for both places that flag every input.

**`DoModule`** has four parties at the fields of an output module: the program, which changes `do_state`;
`do_mod_cycle`, which compares with `prev_do_state` and flags each module in turn besides, served or not (`CycleRefresh`); `canTask`, which takes one
flagged module per pass (`PassPick`, `PassSend`: the outputs are read after the flag has been cleared) or
supervises (`SupCheck` ... `SupDrop`, as in `RsModule`); and the interrupt, which answers a heartbeat that reports
other outputs with a frame of its own (`ExtHeartbeat`). The module is external: it applies what it receives.
`LoseFrame` is a frame that the bus loses, as in `ClusterData`. Two times are related by `elapsed`: between two refreshes, `1000 / do_mod_cnt` ms apart, there is at least one
pass of `canTask`, which comes every 10 ms (for up to 100 modules). The frames waiting in the ring are bounded in the guard of `Put`; what an overflow does is in `CanTxStack`.

**`EthIpStatus`** and **`ScadaExchange`** are what the sessions of the EtherNet/IP server share with `canTask` and
with `defaultTask`; **`EthIp`** composes them, and its run checks the properties of both. In the first, `Request` and
`SetTime` come between any two accesses of `canTask` to `eth_ip_state`, `eth_ip_upd`, `eth_ip_tmr` and the time,
and `ethip_tmr` wraps. In the second, `ScadaWrite` comes between any two bytes that `update_ethip_scada_regs` reads or
writes; the program writes the same registers.

**`EthIpServer`** has the threads of the sessions in `ethipserver_thread`, with the choice of a number (`Pick`), the
load and the store of `nums |=` and `nums &=`, and the answers: they are filled with a counter all sessions share (`CopyByte`),
handed over without a copy (`Write`), and taken by the network later (`Send`, external), when the buffer may hold something else.

**`ModbusMaster`** has a canal of the master (`Send`, `Clear`, `Analyse`: the request is out on the line before
`rx1_cnt=0`), the interrupts (`Requested` when the request has been sent, `Receive` per byte) and the slaves. A byte is
the frame it is of and its place there, so that pieces of two answers do not pass for one; `Accepted` is the test of length, checksum and address.

**`BootConfig`** is composed with `ConfigStore`, the promise of `Eeprom`: `EE_WriteVariable` begins, commits at one moment
and returns (`DoWrite`, `Written`, `Returned`), and a loss of power in between has written or has not. A handler is the
list of assignments and calls it has still to do; `Above` says who may stop it. `Check` and `Load` are `main`;
`CanAddress`, `LcdAddress`, `LcdNet`, `UdpWrite`, `ModbusWrite` (registers, and coils, which change the types of the analogue inputs: `Coil`), `AskLoader` are the orders, and they may overlap.
`LcdAddress` and `LcdNet` end in `Wait`, since `HAL_Delay` does not return in that interrupt.

`MC*.tla` hold only constants for TLC; the modules named `...Proofs` hold the proofs about the modules they extend (`EthIpProofs` those about `EthIp` and
`EthIpServer`, `CanDataProofs` those about `ClusterData` and `DoModule`; hence the longer names of definitions in two of these). Operators commented
"Mutant" are plausible bugs of the definition below them; they are not part of any specification,
and each property is known to fail when its mutant takes the place of the definition.

## What the runs check

Deadlock is checked in every run but `boot_config`, where the controller may really stand still: an order from the LCD
within two seconds of the start is waited for without a watchdog (see below). Every run but the two counterexamples checks the type invariant of its module, alone
or as the first part of its first safety property.

| Run | Bounds | Shows |
|---|---|---|
| `can_tx_ring` (`CanTxStack.cfg`) | ring 3, 2 mailboxes, 2 fields, 5 packets | `RingInv`, `InOrder`, `NothingStranded`: until the first fault the ring is a queue and answers "empty" only when it is. `NeverSentTwice`: even after overflows and torn adds nothing is sent twice or invented. `QueueSpec`: refinement of `CanQueue`. `Delivered`: what an undamaged ring accepts reaches a mailbox |
| `eeprom` (`Eeprom.cfg`) | 2 variables, pages of 5 words, data that may equal an erased half word, 2 losses of power | `AtomicAndDurable`, `KnownGoodWhileIntact` through transfers in both directions and interrupted repairs; `ReadsLastStored`: writes and reads agree on the page |
| `eeprom_known_good` | 4 words, 1 loss of power | counterexample, see below |
| `rs_module` (`RsModule.cfg`) | header and 2 packets, timeout 2, HEARTBEAT_MAX 2, 2 faults | `NeverSlips`, `FinishedMeansConfigured`, `EndsConfigured`, `EndsOffline` |
| `cluster_registers` (`ClusterRegs.cfg`) | 2 nodes, a register of each, ring 1, 2 changes, 1 outage with or without restarts, 1 frame or row of heartbeats lost; `StillOfUse` | `NoOldValue`: no register gets an older value before somebody resends another's or a ring overflows; `EndsAgreedIfSent` |
| `cluster_bits_rejoin` | 3 nodes, 1 bit, ring 2, 2 changes, 1 outage, nothing lost | counterexample, see below |
| `di_publish` (`DiPublish.cfg`) | 2 inputs in 2 frames, 2 changes | `ChangeKept`, `EndsPublished` |
| `do_module` (`DoModule.cfg`) | 2 modules, one of them steady, HEARTBEAT_MAX 1, 1 frame in the ring, changes of the other without end, 1 loss of a frame or of its power | `ChangeKept`: what is not sent yet will be; `EndsSettled`: a module ends up with the outputs wanted and its link as it is, also one that never was there, once the program leaves it and those before it alone; `AllRefreshed`: a module goes without refreshes only if the program never leaves those before it alone |
| `eth_ip` (`EthIp.cfg`) | timeout 2 rounds, frames in rounds 1 and 2, `ethip_tmr` modulo 4, 2 turns of the station, 1 time, 1 register, 2 writes | `NothingUnannounced`, `EndsReported`: the link as it is, its frames and the time; `WritesArrive`, `EndsSame`: acknowledged writes |
| `eth_ip_server` (`EthIpServer.cfg`) | 2 numbers, 3 connections, 1 byte, 1 request each | `OwnSlot`: `nums` is the sessions there are, so that nobody is turned away while a number is free; `AnswersRight`; `EndsFree` |
| `modbus_master` (`ModbusMaster.cfg`) | 3 requests, 2 slaves, buffer 5, answers of 2 and 3 bytes; one late answer, one hold-up before `rx1_cnt=0`, one outage | `OwnSlave`, `OwnAnswer`: values come from the slave, from the request; `EndsSettled`: reported or the same at both ends |
| `boot_config` (`BootConfig.cfg`) | 4 variables and the 3 keys, 2 values, 2 orders, 2 losses of power, `loader_flag` to 3 | `Configured`, `LoaderOnlyAsked`, `Survives`, `EndsRestarted` |

Why the bounds are enough. A ring of 3 with 5 packets wraps, overflows and drains with the positions apart;
80 slots add only distance (and the proofs hold for any number). Pages of 5 words fill after a few
writes, so that transfers go both ways within the run; two losses of power reach a repair that is itself
interrupted. Two faults combine a lost frame with a restart, or a late answer with a foreign one. Two changes make a value go up and back while frames of the old one are under way, and an outage beside a loss
combines a resending with a frame that is gone. A ring of one slot overflows as soon as two registers are sent in a row. The run `cluster_registers` stops (`StillOfUse`) where its
properties say nothing more: after an overflow, and after a node sent registers of others again and something came between an owner and its register too; none of these
is ever taken back. The run `eeprom` stops (`StillIntact`) after a loss of power that `EE_Init` does not recover from; those
states are the subject of the counterexample run. One module off and one steady make the passes of `update_mod_do_data`, the refresh and
the supervision of two modules meet; the other changes its outputs without end, so that the passes may serve it for ever; `ethip_tmr` modulo 4 wraps past its two rounds; three connections for two numbers include one that is turned away
and one that takes over a number just freed; two reads of one slave with answers of different length are what a late answer
may be mistaken for; two orders are the fewest that overlap, two losses of power interrupt the first start twice,
and `loader_flag` counts far enough that a second order to go to the boot loader sets it back.
Larger or other instances that have been checked once and are not kept as runs: one cluster register with three values in rings of two slots on two nodes with two
outages and a loss, or with two values, three changes, two outages and two losses, and on three nodes with a loss; cluster bits without outages, on three nodes with a loss and two bits on two nodes with two losses, where `EndsAgreedIfSent` holds;
`ScadaExchange` alone with 2 registers and 3 writes; `EthIpStatus` alone with 3 turns and 2 times; `ModbusMaster` with 2 late answers, 2 hold-ups and
2 outages; `BootConfig` with 3 orders (safety and `Survives`).

### Conditions in the properties, and why they are there

* `clean` (ring): overflow and torn adds are possible in the code, so the promise can only be
  made up to the first. `NeverSentTwice` is what remains after.
* `late` (RS485 module): answers carry no packet number. After an answer that came later than its timeout,
  each following one may be taken for the next packet's. `NeverSlips` says that lateness is the only
  way: losses, restarts and foreign answers alone never shift them. `EndsConfigured`
  has no such condition: the heartbeat of a module without a whole configuration starts
  the transfer anew.
* `overrun` (cluster data): nobody looks for room in the ring. One that overflows loses its oldest packet and sends the newest before those
  between. The proofs and the runs say what holds until then.
* `lost` (cluster data): a point whose last frame was lost stays as it was in the others, since `prev` says that it was sent, until it changes or
  somebody is heard again. `EndsAgreedIfSent` says that a later frame of the owner repairs it, whatever else was lost.
* `mixed` (cluster data): a register ends up different on two nodes if the owner's program
  writes it twice before it is sent and the second value is the sentinel, if the owner takes a resent
  old value for its own, or if a third node sends the very value the owner is about to send, which
  then does not go to a node that has just received an old one. `EndsAgreedIfSent` shows that, besides overflow and loss,
  nothing else does it. Without any of the conditions it fails.
* `resent` (registers): a node that hears another again sends the non-zero registers of all owners, the old values it has of them included.
* A program that changes a module for ever (output modules): a pass serves the lowest flagged module only, so that `EndsSettled` and `AllRefreshed` of a module hold unless
  the program goes on changing one before it (or, for the first, the module itself). Refreshes, heartbeats and modules behind it keep nobody waiting for ever.
* `clean` (inputs): `ChangeKept` holds as long as the two tasks do not meet on `update_di`; when they do,
  a change waits for the refresh, and `EndsPublished` has no condition at all.
* `clean` (output modules): the flag of a change is lost if a heartbeat meets the supervision that has just held its module for
  lost, and a change taken back is not seen by `do_mod_cycle` if a heartbeat had it sent meanwhile. `EndsSettled` has no such condition: the refresh and
  the next heartbeat repair both.
* `missed`, `stale` (EtherNet/IP status): the state is announced in two frames and the flag goes down with the second; a state that
  changes after a frame was built is not in it, and nothing sends it again. Everything else is announced.
* `clean` (SCADA registers): a write that comes while the last one is taken over, or while the registers are handed out, is lost in whole or in part
  although it was acknowledged. `EndsSame`: SCADA at least reads what the program has.
* `raced`, `mixed` (EtherNet/IP server): two sessions that are between the loads and stores of `nums` at once may share a number or lose a bit; two that fill
  answers at once share the loop counter; and an answer still unsent is written over by the next session with its number.
  Nothing else mixes answers or loses a number.
* `late = 0` (Modbus): there is no transaction number, so a late answer to one request of a slave passes for that to another of the same length or shorter. `OwnSlave` and
  `EndsSettled` have no such condition.
* `torn` (configuration): a variable is assigned in memory first and stored after; a reset in between goes back to the old value, and two handlers
  at one variable may leave memory and EEPROM different until the next reset. `Configured` and `LoaderOnlyAsked` have no condition.

### Fairness

`canTask` and `defaultTask` never block except in `osDelay(1)`, and are time-sliced, so both go on: weak fairness of
their steps. Strong fairness where a step of the loop may be disabled for a moment in every round, though the loop reaches it again and
again: `WriteConfig` beside the supervision (it is called in every round), `Refresh`
(every minute `canTask` stands between two frames), `Scan` (`progTask` runs whenever `canTask` sleeps,
and may find a packet being built at any other time). `Transmit`, weak: one attempt empties a
mailbox, whether anyone listens or not, and `canTask` refills it in every round. `MailboxDone`: the same. `Tick`: TIM1. `Heartbeat`, `ModuleReceive`,
`Answer`: a module that is on keeps sending heartbeats and answers what it gets. In the same way `CycleRefresh`, `Pass` and `Supervise` of `DoModule`
(each is a turn of its task that other turns go before). `Request` of `EthIpStatus`: a station that polls goes on polling; the
sessions' `End` (strong): a client that is silent is dropped after 30 s, whatever it did before. `Requested` and `Receive`: bytes on the line arrive.
`WatchdogReset`: a watchdog that is on and not fed resets. Nothing is assumed
of outages, changes, interrupts that add packets, or faults; they are bounded in number.

## What is proved

The theorems hold for every value of the constants that satisfies the assumption of the module, and every assumption
is one the code justifies (below). The proofs all go the same way: the property is strengthened to an invariant that
is inductive, the strengthening is checked by TLC on the run's instance, and each action is shown to keep each part of it.

| Theorem | Statement |
|---|---|
| `CanTxStackProofs` | |
| `TypeCorrect` | `[]TypeOK`, with the mailbox found free |
| `RingCorrect` | `[]RingInv`: until the first fault the ring holds exactly what was accepted and not sent |
| `SentInOrder` | `[]InOrder`: until then, whole and in order |
| `NeverStranded` | `[]NothingStranded`: until then "nothing to send" is true |
| `QueueRefined` | `QueueSpec`: the ring implements `CanQueue`, step by step |
| `SentAtMostOnce` | `[]NeverSentTwice`: with or without faults |
| `EepromProofs` | |
| `TypeCorrect` | `[]TypeOK`, after every loss of power, recoverable or not |
| `KnownGood` | `[]KnownGoodWhileIntact`: one page valid, the other erased, whenever no function runs |
| `ReadsBack` | `ReadsLastStored`, an action property: what a returning write has written is read |
| `Atomic` | `AtomicAndDurable`: the two pages implement `ConfigStore`, step by step |
| `ModbusMasterProofs` | |
| `OwnSlaveAlways` | `[]OwnSlave`: types, and values only from a whole answer of the request's slave |
| `OwnAnswerAlways` | `[]OwnAnswer`: until an answer is late, only from the answer to this request, since it was last sent |
| `RsModuleProofs` | |
| `TypeCorrect` | `[]TypeOK` |
| `NeverSlipsAlways` | `[]NeverSlips`: only lateness makes an answer pass for another |
| `FinishedConfigured` | `FinishedMeansConfigured`, an action property: a finished transfer has left everything in the module |
| `DiPublishProofs` | |
| `TypeCorrect` | `[]TypeOK` |
| `ChangeAlwaysKept` | `[]ChangeKept`: until the tasks meet on `update_di` no change is forgotten |
| `EthIpProofs` | |
| `TypeCorrect` | `[]TypeOK` of both parts |
| `AlwaysAnnounced` | `[]NothingUnannounced` |
| `WritesAlwaysArrive` | `[]WritesArrive` |
| `OwnSlotAlways` | `[]OwnSlot`: types, and until two sessions meet in `nums` it is the sessions there are |
| `AnswersAlwaysRight` | `[]AnswersRight`: until two answers are filled at once or over an unsent one, everybody gets its own |
| `CanDataProofs` | |
| `ClusterTypeCorrect` | `[]TypeOK` of `ClusterData`, in rings that overflow too |
| `NeverOlder` | `NoOldValue`, an action property: however many frames are lost, until a ring overflows no scan and no frame brings an older value, of a bit whoever comes back, of a register until somebody resends another's |
| `BitsArrive` | unless `mixed`, `overrun` or `lost`: a bit that has gone out, in its one attempt, is the same in every other node if there was no outage, and after outages, unless it is 0, in every node that hears the owner and was heard by it |
| `OutputsKept` | `[]ChangeKept`: an output not sent to a connected module is about to be sent |
| `BootConfigProofs` | |
| `AlwaysConfigured` | `[]Configured`: types, and never a configuration that was not stored |
| `LoaderAlwaysAsked` | `[]LoaderOnlyAsked` |
| `AlwaysSurvives` | `Survives`, an action property: a reset keeps the configuration |

### The assumptions

`StackAssumption`: a ring of at least one slot, a non-empty set of fields, at least one mailbox, any bound on the packets.
`EepromAssumption`: `VirtAddVarTab` names distinct variables, at least one; the erased half word and the marks for "nothing there" are no
addresses; and a page has room to repeat the copies of a transfer after every loss of power. In the code this is 4095 words for 16 variables, so that
255 losses of power fit (`1 + 16 * 255 =< 4095`). They count over the whole run in the model; in the code only those within one transfer
matter, since a transfer that has finished leaves an erased page. Without this room the copies fill the new page, and a function that
finds it full returns (`eeprom.c:623`, `:275`): then the transfer is never finished.
`MasterAssumption`: a non-empty list of requests whose answers have at least one byte, a `Silent` that is neither a request nor a value,
a buffer of at least one byte. `RsAssumption`: at least one packet besides the header, limits above zero. `DiAssumption`:
at least one input, and every input in some frame. `ServerAssumption`: finitely many numbers, answers of at least one byte.
`EthIpAssumption`: a limit above 1, at least one register, the frame with the telemetry before that with the state, and both before the
timer wraps (10, 20 and 65536 in the code). `ConfigAssumption`: `VirtAddVarTab` names distinct variables (`main.c:78-81`), at least the
three registers of the address, the two orders to the boot loader differ, and the marks for "nothing there" are no data. `ClusterAssumption`: at
least one point, a node that owns each, 0 among the values, a ring of at least one slot. `DoAssumption`: at least one module, a limit of the supervision and a ring above zero.
The bounds of the runs are arbitrary naturals in the proofs.

### The arguments

**`CanTxStack`.** `TypeOK` is not inductive: `Send` takes one from `free`, which
stays in its range because a mailbox found free by `WriteLoop` is still free then (only `canTask` fills
them); hence `TypeInv == TypeOK /\ MailboxHeld`. `InOrder` needs to know what is in the slots: `RingHolds` lists the slots
from the read position on against the sequence of accepted packets, `AddHolds` says how far an add of `canTask` has got and that its slot is the first
behind the others (so that the ring is not full), and `GetHolds` that the packet copied out so far
is the oldest. `RingIInv` is their conjunction with `TypeInv` and `InOrder`, and has one lemma per action. The arithmetic
modulo the length of the ring is in a few lemmas about `Wrap` and `At` (two different offsets below the length are
different slots, moving the read position by one moves every offset). `NothingStranded` follows from
`RingHolds`: if the first slot is not READY, nothing is pending. The refinement adds only the range of the packet numbers (`QueueInv`): the queue of
`CanQueue` is the accepted packets behind the sent ones, so that `AddPublish` and `IsrAdd` are its put, `Send` its get, a fault its end, and every other step stutters.
`NeverSentTwice` cannot use any of this, since it is about a damaged ring. Its invariant `OnceInv` is about each field by itself:
a number that may still reach a mailbox (`Live` in a slot, `Held` by the get, `Adding` by the add) is in one of these places only and has not been sent.
It depends on `get_tx_can_packet` setting a slot EMPTY before the packet goes out, and on an add that sets its slot BUSY before it copies.

**`Eeprom`.** `FlashInv` holds after every loss of power: the words of a page are written from the front without a gap (`Filled`), so that
a search from the end finds a last word and the first blank one is behind all others, and an address is only programmed behind its data (`Behind`).
This gives the types. As long as every reset was one to recover from, `On` says where the running function stands, one predicate for each stretch of
the plans: a call (`Ready`, `Storing`, `Sealing`), the start and end of a transfer (`MoveMark`, `MovePut`, `MoveSeal`, `Moved`), the copies of a transfer or of
a repair of one (`Copying`), and the beginnings of `EE_Init` (`Initialising`); `Off` says what a reset may leave. The heart of it is the loop over the
variables: before its j-th entry, the receiving page has of every variable but the one being written nothing or what the old page has (`Partial`), it has all of
the first j - 1 (`Done`), and it has room for the rest and for a repetition of all copies after each loss of power still to come (`Room`). Without `Room` the invariant is
not inductive, since a repair may find the page full. With `Partial` a repair does not depend on how far the transfer had got, and with
an old page that is already erased (`Emptied`) it copies nothing and keeps everything. Each phase has a lemma for its step (what
the flash is worth to `Kept` stays the same, or changes by exactly the variable being written, when the address of its word is programmed) and one for a loss
of power in it. `Atomic` then reads off `Changes` which step of `ConfigStore` each step is.

**`ModbusMaster`.** `OwnSlave` is inductive: `Accepted` compares slave and length, and `Whole` is what makes the length that of the answer. `OwnAnswer` is
not: `InTime` adds that nothing is being sent while the master is about to send, that the line is empty then,
and that afterwards every byte on the line and, once `rx1_cnt=0`, every byte in the buffer belongs to the request waited for (`Fresh`). It is there
that the place of `rx1_cnt=0` matters: until then the buffer may hold anything.

**`RsModule`.** Until a timeout has run out on a frame, there is at most one frame on the bus, of the packet last sent (`OneFrame`), only while
the controller waits for it, and the answer that has arrived is for that packet (`Punctual`). `FinishedMeansConfigured` also covers
the time after that, as long as no answer has been mistaken: `Transfer` says that the module has every packet before the last, that
the frames on their way to it are the last two, in order, and that an answer to the last packet shows that it has that too (`Reached`), with nothing older behind it.

**`DiPublish`.** `Staged` says what `din` and `din_fault` are for the input under the scan and for the others; `Marked` relates the frame under way
to the flags, `Read` what has been read of an input to what is there now, unless the input has been flagged since (`unread`) or is about to be.

**`EthIpServer`.** For the numbers: whoever is between load and store of `nums` holds it as it is, alone (`Apart`), and the number it is about
to set is in nobody's use. For the answers: the one under way is as long as the shared counter says, alone in its buffer (`Filling`), and one that is unsent is whole and alone in its own (`Right`).

**`EthIp`.** The two parts share no variable, and each has its invariant. `Ticking`: the timer reaches its limit only between the store and the
test. `Announced`: while the flag is down the round counter is not between the frames, and between them the telemetry is that of the state, unless it changed since. `CopyHolds`: a copy to the program works on a
write that waits whole (`Waits`), and up to its register the program's registers are those written (`Taken`).

**`ClusterData`.** The types need nothing more: an add stays in the ring whatever it overwrites. Until the first overflow the ring has no gap
(`RingInv`): the slots before the write position hold packets, the others none, and a full ring has its write position at the read position. So an add that finds its slot
empty puts its packet behind all others (`Gapless`), which is what keeps the order below. `NoOldValue` compares the moments at which
the copies of a point were written by its owner's program (`stamp`). The invariant `Ordered` says of each point that only its owner sends it (`OwnerSends`: with every other
node `copy` is `prev`, since the interrupt stores both), and that what is on its way is in order: what the others hold is not younger than the frames in the owner's ring (`InRing`), these
are in the order of their writing and not younger than the packet being built (`InPacket`), and that, or what the owner has written and not sent, is the youngest (`Unsent`). A frame that is lost leaves
a gap in this order and does not break it. For bits it holds until an overflow:
a node that is heard again, or has just started, has only the owner's own bits sent again. For registers it ends with the first resending of another's. A restart of the owner does not break it, since it leaves zeros,
which are not sent again before the program has written. `BitsArrive` is the safe part of `EndsAgreedIfSent`, and the other side of `cluster_bits_rejoin`: `OnItsWay` says of each bit that the last frame of it
in the owner's ring carries the owner's value unless a packet or a change is still to come (`RingLast`), and of each other node
that such a frame, packet or change is on its way, that the node has the owner's value, that the frame was lost and none has arrived since (`lost`), or that after an outage the bit is 0 or the
two have not heard each other again (`Apart`; `Holds` is the disjunction). The steps that could break it are the end of `Apart`, and there `UpdateAll` has marked or will mark every bit that is not 0, and
a frame that nobody receives: with everybody connected somebody does (`Peers`), and whoever was not connected is `Apart`.

**`DoModule`.** `KeptInv` says of every module that it was last sent what the program wants or is about to be (`Kept`), or that the supervision has given it up and is not counting it (`Gone`). What
connects the two is the count: `SupCount` only counts a module on from below the limit (`DoTypes`), and the supervision that drops a flag still finds the
counter at its limit (`Dropping`), unless a heartbeat came between; that is what `clean` excepts.

**`BootConfig`.** `KeyLast`: the key of the configuration comes last in the list of `main`, so that with it every variable is stored, and what is missing is in that list.
`LoaderMarked`: the order to stay in the boot loader is stored only behind the first key, so that `main` sees both and takes it back, and nobody repeats it unless `loader_flag` counts.
`BootInv` is these two with the types (`Lists` gives the steps each handler may have; each variable only has data of its kind) and `Phases`. For `Survives`: until the key is stored everything is the default (`DefaultsFirst`),
with it `main` has nothing but its mark to write (`OnlyMarks`), and from then on each variable in memory is in the EEPROM, or being stored, or some handler has
assigned it and not stored it yet (`Pending`); what such a handler will store is what the memory has (`SameOrPending`). The last is what a second handler at the same variable breaks, and `torn` says so.

Every type invariant, safety invariant, action property without fairness and refinement that a run checks is proved. Only model-checked is all liveness (the properties named `Ends...`, `Delivered`,
`AllRefreshed`): liveness under fairness, statements about ENABLED, and
induction over data are out of the prover's reach. The counterexamples are TLC's.

## Where the code and its comments disagree

* `eeprom.c:337`: the verification of PAGE1 compares nothing, since its loop ends at the end of
  PAGE0. After a loss of power in a transfer from Page1 to Page0, `EE_Init` leaves two valid
  pages (`eeprom_known_good`), against `eeprom.c:71-72`; the next start formats them.
* `eeprom.c:517`: with two valid pages a write goes to Page1 and reads come from Page0, against `eeprom.c:360-361`.
  This happens only after the above; `ReadsLastStored` of the run `eeprom` shows that they agree otherwise.
* `update_plc_data.c:481`: `prev = 0` is to "provocate an update"; if the register becomes 0 before it is sent it
  suppresses one. `EndsAgreedIfSent` excepts this (`mixed`).
* `update_plc_data.c:486`: a bit reset while another node was off the bus stays set there, although
  `can_task.c:383` announces that all data is sent (`cluster_bits_rejoin`).
* `lcd.c:102`, `:109`: `HAL_Delay(50)` in the EXTI3 interrupt waits for a tick that is an interrupt of the same priority and
  does not come (`stm32f4xx_hal.c:129-133` asks for a higher one: "Otherwise the caller ISR process will be blocked"). The `NVIC_SystemReset` on the next line is never reached. The new
  address takes effect because the watchdog resets the controller some 8 s later; in the two seconds before `progTask` has started the
  watchdog nothing does, and the controller stands still until its power is switched off. `EndsRestarted` states exactly this.

## What is not modelled

* The second CAN bus and its ring (the same code), and the network data that goes through it (planned).
* Flash operations that return an error, and two callers of `EE_WriteVariable` at once (planned); `BootConfig` interleaves handlers between its calls.
* A node that restarts before the others have missed it. `Connect` waits until the outage is noticed.
* The announcements of `update_all_data` other than points; frames with malformed length or address. The steps of an add and an overflow among the packets of all senders are in `CanTxStack`;
  `ClusterData` has a ring of points alone, so that its rings overflow later than those of the code, which `overrun` stands for wherever it happens.
* The contents of registers of modules, the scaling of analogue values and PID (floating point).
* The reads of the Modbus slave, of the UDP server and of the LCD; their writes are in `BootConfig`. In this repository's program both canals have
  Modbus requests, and then the slave is not called.
* Receive errors of the USART; the second Modbus canal (the same code).
* Objects 90 to 98 and 9B of SCADA, which are copied one way; requests of SCADA that come in several buffers.
* Analogue modules: their supervision is that of the output modules without the flag. Analogue inputs (planned).
* Start-up of peripherals, vendor drivers, FreeRTOS, lwIP: taken as what the threads table says.

## Plan

Done, with proofs: `CanTxStack` over `CanQueue`, `Eeprom` over `ConfigStore`, `ModbusMaster`, `RsModule`, `DiPublish`, `EthIpStatus` and `ScadaExchange` with `EthIp`,
`EthIpServer`, `BootConfig` over `ConfigStore`, `ClusterData`, `DoModule`. Next, in this order:

1. `NetData`: two clusters, node 0 as gateway; convergence, no frame in circles; outages too short to be noticed.
2. `EepromRace`: two callers.
3. `Elements`: counters and timers over 16 bits against a definition over unbounded time.
4. `AiPublish`: the flags of the analogue inputs, one input per frame.

Abstract specifications worth stating: a queue (done), a store (done), a mailbox that keeps the latest value
(for `DiPublish`, `DoModule`, `ScadaExchange`), a session table.
Theorems worth proving next: that in `NetData` no value goes in circles, and for `Elements` that a timer counts right as long as the program reads it within one wrap of its counter.
