------------------------------ MODULE ClusterData ------------------------------
(***************************************************************************)
(* The data that the controllers of a cluster share over CAN1: cluster     *)
(* registers and cluster bits.  Every node keeps a copy and remembers      *)
(* (prev) what it last sent or received; canTask broadcasts a point whose  *)
(* copy differs from prev (update_plc_data.c), the receive interrupt       *)
(* stores what arrives in both (can_task.c), and a node that hears another *)
(* one it held for offline marks its non-zero points for sending again     *)
(* (heartbeat.c, update_all_data).                                         *)
(*                                                                         *)
(* Each point has one owner, whose program writes it in every scan, as     *)
(* ld_process does.  A frame reaches every connected node at once; the     *)
(* order among the nodes is up to the bus.                                 *)
(***************************************************************************)
EXTENDS Naturals, Sequences, FiniteSets, FiniteSetsExt

CONSTANTS
  Nodes,
  NumPoints,      \* registers or bits, in the order of canTask's scan
  Owner,          \* the node whose program writes a point
  Vals,           \* values of a point, 0 among them
  Registers,      \* cluster registers (any node may send one) or cluster bits
                  \* (a node sends only its own)
  RingLen,        \* CAN_TX_STACK_LENGTH
  MaxChanges,     \* bound: changes of the owners' inputs
  MaxOutages,     \* bound: disconnections
  MaxDrops        \* bound: frames, or rows of heartbeats, that the bus loses

Points == 1 .. NumPoints

ASSUME ClusterAssumption ==
  /\ NumPoints \in Nat \ {0} /\ Owner \in [Points -> Nodes]
  /\ Vals \subseteq Nat /\ 0 \in Vals /\ Registers \in BOOLEAN
  /\ RingLen \in Nat \ {0}
  /\ MaxChanges \in Nat /\ MaxOutages \in Nat /\ MaxDrops \in Nat

VARIABLES
  input,          \* what the owner's program computes for a point
  copy, prev,     \* cluster_regs and prev_cluster_regs (or the bits) of a node
  packet,         \* Empty, or the packet canTask has built and not yet added
  slots,          \* the slots of a node's transmit ring from its read position on
  write,          \* the slot among them that the next packet goes to
  offline,        \* offline[n]: the nodes n holds for offline (heartbeat_cnt)
  update_all,
  connected,
  changes, outages, drops,
  version,        \* history: version[p]: how often the input of p has changed
  scanned,        \* history: scanned[p]: the version the owner last wrote (0: none
                  \* since its restart)
  stamp,          \* history: stamp[n][p]: the version that n's copy stems from
  resent,         \* history: some node sends points of others again
  lost,           \* history: the points of which a frame was lost, and none of the
                  \* owner's has arrived since
  overrun,        \* history: a packet was put in a slot that still held one
  mixed           \* history: something came between an owner and its point (see
                  \* EndsAgreedIfSent)

shared == <<copy, prev, stamp>>
ring == <<slots, write>>
presence == <<offline, update_all, connected>>
faults == <<outages, drops>>
history == <<scanned, resent, lost, overrun, mixed>>
environment == <<input, version, changes>>
vars == <<shared, packet, ring, presence, environment, faults, history>>

\* A frame: its point and value, and as history the version the value stems from.
Frames == Points \X Vals \X Nat
Empty == << >>
Slots == 1 .. RingLen

Init ==
  /\ input = [p \in Points |-> 0]
  /\ copy = [n \in Nodes |-> [p \in Points |-> 0]] /\ prev = copy
  /\ packet = [n \in Nodes |-> Empty]
  /\ slots = [n \in Nodes |-> [k \in Slots |-> Empty]] /\ write = [n \in Nodes |-> 1]
  /\ offline = [n \in Nodes |-> Nodes \ {n}]
  /\ update_all = [n \in Nodes |-> TRUE]
  /\ connected = Nodes
  /\ changes = 0 /\ outages = 0 /\ drops = 0
  /\ version = [p \in Points |-> 0] /\ scanned = version
  /\ stamp = [n \in Nodes |-> [p \in Points |-> 0]]
  /\ lost = {} /\ resent = FALSE /\ overrun = FALSE /\ mixed = FALSE

-----------------------------------------------------------------------------
(* progTask.  Its priority is below canTask's: it does not run while canTask *)
(* is between building a packet and adding it.                               *)

InputChange(p) ==
  /\ changes < MaxChanges
  /\ \E v \in Vals \ {input[p]} : input' = [input EXCEPT ![p] = v]
  /\ version' = [version EXCEPT ![p] = @ + 1]
  /\ changes' = changes + 1
  /\ UNCHANGED <<shared, packet, ring, presence, faults, history>>

\* The owner holds what another node sent for its point.
Foreign(p) == stamp[Owner[p]][p] # scanned[p]

Scan(p) ==
  LET n == Owner[p] IN
  /\ packet[n] = Empty
  /\ copy' = [copy EXCEPT ![n][p] = input[p]]
  /\ stamp' = [stamp EXCEPT ![n][p] = version[p]]
  /\ scanned' = [scanned EXCEPT ![p] = version[p]]
  /\ mixed' = (\/ mixed
               \/ copy[n][p] \notin {prev[n][p], input[p]}
               \/ copy[n][p] = input[p] /\ Foreign(p))
  /\ UNCHANGED <<prev, packet, ring, presence, environment, faults, resent, lost, overrun>>

-----------------------------------------------------------------------------
(* canTask. *)

\* Mutant: the search for a changed point ends one short.
ChangedShort(n) ==
  {p \in Points \ {NumPoints} : copy[n][p] # prev[n][p] /\ (Registers \/ Owner[p] = n)}

Changed(n) ==
  {p \in Points : copy[n][p] # prev[n][p] /\ (Registers \/ Owner[p] = n)}

\* update_cluster_regs, update_cluster_bits: the first changed point.  A packet of
\* several bits counts as a packet for each.
SendBuild(n) ==
  LET p == Min(Changed(n)) IN
  /\ packet[n] = Empty /\ Changed(n) # {}
  /\ packet' = [packet EXCEPT ![n] = <<p, copy[n][p], stamp[n][p]>>]
  /\ mixed' = (mixed \/ (Owner[p] = n /\ Foreign(p)))
  /\ UNCHANGED <<shared, ring, presence, environment, faults, scanned, resent, lost, overrun>>

\* Mutant: the write position goes round one too late.
AddPacketPastEnd(n) ==
  /\ slots' = [slots EXCEPT ![n][write[n]] = packet[n]]
  /\ write' = [write EXCEPT ![n] = IF @ > RingLen THEN 1 ELSE @ + 1]
  /\ overrun' = (overrun \/ slots[n][write[n]] # Empty)

\* add_tx_can_packet: whatever the slot holds.
AddPacket(n) ==
  /\ slots' = [slots EXCEPT ![n][write[n]] = packet[n]]
  /\ write' = [write EXCEPT ![n] = IF @ = RingLen THEN 1 ELSE @ + 1]
  /\ overrun' = (overrun \/ slots[n][write[n]] # Empty)

\* prev is taken from the copy, which the interrupt may have changed since.
SendAdd(n) ==
  LET p == packet[n][1] IN
  /\ packet[n] # Empty
  /\ AddPacket(n)
  /\ prev' = [prev EXCEPT ![n][p] = copy[n][p]]
  /\ packet' = [packet EXCEPT ![n] = Empty]
  /\ UNCHANGED <<copy, stamp, presence, environment, faults, scanned, resent, lost, mixed>>

\* The end of update_all_data's count: non-zero points are to be sent again.
UpdateAll(n) ==
  LET again == {p \in Points : copy[n][p] # 0 /\ (Registers \/ Owner[p] = n)} IN
  /\ update_all[n] /\ packet[n] = Empty
  /\ update_all' = [update_all EXCEPT ![n] = FALSE]
  /\ prev' = [prev EXCEPT ![n] = [p \in Points |-> IF p \in again THEN 0 ELSE @[p]]]
  /\ resent' = (resent \/ \E p \in again : Owner[p] # n)
  /\ UNCHANGED <<copy, stamp, packet, ring, offline, connected, environment, faults,
                 scanned, lost, overrun, mixed>>

-----------------------------------------------------------------------------
(* The bus and the receive interrupt, handle_can1_stand_request. *)

Peers(n) == IF n \in connected THEN connected \ {n} ELSE {}

\* The owner has written p and not sent it yet: the frame brings the same value.
Forestalls(p, v) == LET n == Owner[p] IN copy[n][p] # prev[n][p] /\ copy[n][p] = v

\* get_tx_can_packet: the packet at the read position goes to a mailbox.
TakeFirst(n) ==
  /\ slots[n][1] # Empty
  /\ slots' = [slots EXCEPT ![n] = [k \in Slots |-> IF k < RingLen THEN @[k + 1] ELSE Empty]]
  /\ write' = [write EXCEPT ![n] = IF @ = 1 THEN RingLen ELSE @ - 1]

\* What a node's peers make of a variable of theirs when they receive v for point p.
Store(f, n, p, v) ==
  [m \in Nodes |-> IF m \in Peers(n) THEN [f[m] EXCEPT ![p] = v] ELSE f[m]]

\* Mutant: the interrupt stores a received point in the copy only.
TransmitCopyOnly(n) ==
  LET frame == slots[n][1] p == frame[1] IN
  /\ TakeFirst(n)
  /\ copy' = Store(copy, n, p, frame[2]) /\ stamp' = Store(stamp, n, p, frame[3])
  /\ lost' = IF Owner[p] = n /\ Peers(n) # {} THEN lost \ {p} ELSE lost
  /\ UNCHANGED <<prev, packet, presence, environment, faults, scanned, resent, overrun, mixed>>

\* The controller makes one attempt at a frame (can.c, AutoRetransmission), whether there is
\* anyone to receive it or not.
Transmit(n) ==
  LET frame == slots[n][1] p == frame[1] IN
  /\ TakeFirst(n)
  /\ copy' = Store(copy, n, p, frame[2]) /\ prev' = Store(prev, n, p, frame[2])
  /\ stamp' = Store(stamp, n, p, frame[3])
  /\ mixed' = (\/ mixed
               \/ Owner[p] \in Peers(n) /\ (Foreign(p) \/ Forestalls(p, frame[2])))
  /\ lost' = IF Owner[p] = n /\ Peers(n) # {} THEN lost \ {p} ELSE lost
  /\ UNCHANGED <<packet, presence, environment, faults, scanned, resent, overrun>>

\* The one attempt meets an error, or a frame of another node that goes first.
Lose(n) ==
  /\ TakeFirst(n) /\ Peers(n) # {}
  /\ drops < MaxDrops /\ drops' = drops + 1
  /\ lost' = lost \cup {slots[n][1][1]}
  /\ UNCHANGED <<shared, packet, presence, environment, outages,
                 scanned, resent, overrun, mixed>>

\* send_heartbeat, and what it does to the nodes that receive it.
Heartbeat(n) ==
  /\ \E m \in Peers(n) : n \in offline[m]
  /\ update_all' = [m \in Nodes |->
       update_all[m] \/ (m \in Peers(n) /\ n \in offline[m])]
  /\ offline' = [m \in Nodes |-> IF m \in Peers(n) THEN offline[m] \ {n} ELSE offline[m]]
  /\ UNCHANGED <<shared, packet, ring, connected, environment, faults, history>>

\* increment_others_heartbeats_counters reaches HEARTBEAT_MAX: nothing was sent, or
\* every heartbeat of the last seconds was lost.
MissHeartbeats(n, m) ==
  /\ n # m /\ m \notin offline[n]
  /\ offline' = [offline EXCEPT ![n] = @ \cup {m}]
  /\ IF m \in Peers(n) THEN drops < MaxDrops /\ drops' = drops + 1 ELSE UNCHANGED drops
  /\ UNCHANGED <<shared, packet, ring, update_all, connected, environment, outages, history>>

-----------------------------------------------------------------------------
(* Outages. *)

Disconnect(n) ==
  /\ n \in connected /\ outages < MaxOutages
  /\ connected' = connected \ {n} /\ outages' = outages + 1
  /\ UNCHANGED <<shared, packet, ring, offline, update_all, environment, drops, history>>

\* An outage lasts longer than HEARTBEAT_MAX seconds: both sides notice it.
Connect(n) ==
  /\ n \notin connected
  /\ \A m \in Nodes \ {n} : n \in offline[m] /\ m \in offline[n]
  /\ connected' = connected \cup {n}
  /\ UNCHANGED <<shared, packet, ring, offline, update_all, environment, faults, history>>

\* A node that is off the bus is restarted: everything it knows is lost.
Restart(n) ==
  /\ n \notin connected
  /\ copy' = [copy EXCEPT ![n] = [p \in Points |-> 0]]
  /\ prev' = [prev EXCEPT ![n] = [p \in Points |-> 0]]
  /\ stamp' = [stamp EXCEPT ![n] = [p \in Points |-> 0]]
  /\ packet' = [packet EXCEPT ![n] = Empty]
  /\ slots' = [slots EXCEPT ![n] = [k \in Slots |-> Empty]]
  /\ write' = [write EXCEPT ![n] = 1]
  /\ offline' = [offline EXCEPT ![n] = Nodes \ {n}]
  /\ update_all' = [update_all EXCEPT ![n] = TRUE]
  /\ scanned' = [p \in Points |-> IF Owner[p] = n THEN 0 ELSE scanned[p]]
  /\ UNCHANGED <<connected, environment, faults, resent, lost, overrun, mixed>>

-----------------------------------------------------------------------------

Next ==
  \/ \E p \in Points : InputChange(p) \/ Scan(p)
  \/ \E n \in Nodes : SendBuild(n) \/ SendAdd(n) \/ UpdateAll(n)
                       \/ Transmit(n) \/ Lose(n) \/ Heartbeat(n)
                       \/ Disconnect(n) \/ Connect(n) \/ Restart(n)
  \/ \E n, m \in Nodes : MissHeartbeats(n, m)

Spec == Init /\ [][Next]_vars

\* The program scans whenever canTask sleeps (SF), canTask's loop goes round, heartbeats
\* are sent, and a mailbox is soon free again: one attempt empties it.
FairSpec ==
  /\ Spec
  /\ \A p \in Points : SF_vars(Scan(p))
  /\ \A n \in Nodes : /\ WF_vars(SendBuild(n)) /\ WF_vars(SendAdd(n))
                      /\ WF_vars(UpdateAll(n))
                      /\ WF_vars(Transmit(n)) /\ WF_vars(Heartbeat(n))

-----------------------------------------------------------------------------
(* Properties. *)

TypeOK ==
  /\ input \in [Points -> Vals]
  /\ copy \in [Nodes -> [Points -> Vals]] /\ prev \in [Nodes -> [Points -> Vals]]
  /\ packet \in [Nodes -> {Empty} \cup Frames]
  /\ slots \in [Nodes -> [Slots -> {Empty} \cup Frames]] /\ write \in [Nodes -> Slots]
  /\ offline \in [Nodes -> SUBSET Nodes]
  /\ update_all \in [Nodes -> BOOLEAN] /\ connected \subseteq Nodes
  /\ changes \in 0 .. MaxChanges /\ outages \in 0 .. MaxOutages /\ drops \in 0 .. MaxDrops
  /\ version \in [Points -> Nat] /\ scanned \in [Points -> Nat]
  /\ stamp \in [Nodes -> [Points -> Nat]]
  /\ lost \subseteq Points
  /\ resent \in BOOLEAN /\ overrun \in BOOLEAN /\ mixed \in BOOLEAN

\* No frame takes a point of any node back to an older value, however many are lost: a bit
\* never, whoever is heard again, and a register not until some node sends one of another
\* node's registers again.  A ring that overflowed sends its newest packet before older ones.
NoOldValue ==
  [][(Registers => ~resent) /\ ~overrun
       => \A n \in connected, p \in Points : stamp'[n][p] >= stamp[n][p]]_vars

Agreed(p) == \A n \in Nodes : copy[n][p] = input[p]

\* Once everything stays connected and the inputs stay as they are, every node ends
\* up with the owner's value, as long as no ring has overflowed, the last frame lost was
\* followed by one of the owner's that arrived, and nothing comes between an owner and its
\* point: the owner never writes it before its last value went out, never takes up or passes
\* on what another node sent for it, gets no second frame before it has written over
\* the first, and no other node sends the very value it is about to send.  After
\* outages, restarts, lost heartbeats, frames sent while nobody listened, old values sent
\* again by nodes that are not the owner, and packets that cross, the nodes then agree.
EndsAgreedIfSent ==
  \A p \in Points :
    <>[](connected = Nodes /\ ~mixed /\ ~overrun /\ p \notin lost) => <>[]Agreed(p)
===============================================================================
