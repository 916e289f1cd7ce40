------------------------------ MODULE CanTxStack ------------------------------
(***************************************************************************)
(* The transmit ring of the first CAN bus (can_tx_stack.c) together with   *)
(* everything that touches it: canTask, which adds packets and moves them  *)
(* to the mailboxes of the controller (can_write_from_stack), and the CAN  *)
(* receive interrupts, which add packets of their own (sendResponse,       *)
(* sendByteWrite, sendOutState, the forwarded network values...).          *)
(*                                                                         *)
(* No critical section protects the ring.  An interrupt runs to its end    *)
(* between any two stores of canTask, so an add of canTask is split into   *)
(* its stores and an add of an interrupt is one step.  A packet is its     *)
(* number in the order of the calls; the stores of its bytes, identifier   *)
(* and length are the elements of Parts, made in any order (the fields are *)
(* not volatile).                                                          *)
(***************************************************************************)
EXTENDS Naturals, Sequences

CONSTANTS
  StackLength,   \* CAN_TX_STACK_LENGTH, the slots of the ring
  Parts,         \* the stores that make up the content of a packet
  Mailboxes,     \* transmit mailboxes of the controller
  TxGap,         \* CAN_TX_TMR_GAP, in ticks of TIM1
  MaxTry,        \* packets moved by one call of can_write_from_stack, plus one
  MaxPackets     \* bound: packets ever passed to add_tx_can_packet

ASSUME StackAssumption ==
  /\ StackLength \in Nat \ {0}
  /\ Parts # {}
  /\ Mailboxes \in Nat \ {0}
  /\ TxGap \in Nat
  /\ MaxTry \in Nat \ {0}
  /\ MaxPackets \in Nat

VARIABLES
  slot,            \* stack->packet: state and content of every slot
  read_position,
  write_position,
  pc,              \* where canTask stands
  wr_pos,          \* the local variable of add_tx_can_packet
  cur,             \* the packet canTask is adding
  left,            \* parts canTask has not copied yet
  pkt,             \* the packet can_write_from_stack has copied out
  try,             \* the local variable of can_write_from_stack
  free,            \* free transmit mailboxes
  can1_tx_tmr,
  issued,          \* number of calls of add_tx_can_packet so far
  accepted,        \* history: packets whose add has completed, in order
  sent,            \* history: packets handed to a mailbox, in order
  clean            \* history: no overflow and no torn add so far

ring == <<slot, read_position, write_position>>
task == <<pc, wr_pos, cur, left, pkt, try>>
history == <<accepted, sent, clean>>
vars == <<ring, task, free, can1_tx_tmr, issued, history>>

Slots == 0 .. StackLength - 1

\* Mutant: the comparison of the wrap is off by one.
WrapLate(pos) == IF pos > StackLength THEN pos - StackLength ELSE pos

\* The value of a position after "if(pos>=CAN_TX_STACK_LENGTH) pos=0".
Wrap(pos) == IF pos >= StackLength THEN pos - StackLength ELSE pos

Whole(m) == [p \in Parts |-> m]

\* canTask has read write_position and has not stored it back yet.
InAdd == pc \in {"claim", "copy", "publish", "advance"}

Init ==
  /\ slot = [i \in Slots |-> [state |-> "EMPTY", part |-> Whole(0)]]
  /\ read_position = 0
  /\ write_position = 0
  /\ pc = "loop"
  /\ wr_pos = 0
  /\ cur = 0
  /\ left = {}
  /\ pkt = Whole(0)
  /\ try = 0
  /\ free = Mailboxes
  /\ can1_tx_tmr = 0
  /\ issued = 0
  /\ accepted = << >>
  /\ sent = << >>
  /\ clean = TRUE

-----------------------------------------------------------------------------
(* canTask inside add_tx_can_packet. *)

AddCall ==
  /\ pc = "loop"
  /\ issued < MaxPackets
  /\ issued' = issued + 1
  /\ cur' = issued'
  /\ wr_pos' = write_position
  /\ pc' = "claim"
  /\ UNCHANGED <<ring, left, pkt, try, free, can1_tx_tmr, history>>

\* Mutant: the slot is marked ready before it is filled.
AddClaimEarly ==
  /\ pc = "claim"
  /\ slot' = [slot EXCEPT ![wr_pos].state = "READY"]
  /\ clean' = (clean /\ slot[wr_pos].state # "READY")
  /\ left' = Parts
  /\ pc' = "copy"
  /\ UNCHANGED <<read_position, write_position, wr_pos, cur, pkt, try, free,
                 can1_tx_tmr, issued, accepted, sent>>

AddClaim ==
  /\ pc = "claim"
  /\ slot' = [slot EXCEPT ![wr_pos].state = "BUSY"]
  /\ clean' = (clean /\ slot[wr_pos].state # "READY")
  /\ left' = Parts
  /\ pc' = "copy"
  /\ UNCHANGED <<read_position, write_position, wr_pos, cur, pkt, try, free,
                 can1_tx_tmr, issued, accepted, sent>>

\* Mutant: a field of the packet is not copied.
AddCopyPart ==
  /\ pc = "copy"
  /\ \E p \in left : slot' = [slot EXCEPT ![wr_pos].part[p] = cur]
  /\ left' = {}
  /\ pc' = "publish"
  /\ UNCHANGED <<read_position, write_position, wr_pos, cur, pkt, try, free,
                 can1_tx_tmr, issued, history>>

AddCopy ==
  /\ pc = "copy"
  /\ \E p \in left :
       /\ slot' = [slot EXCEPT ![wr_pos].part[p] = cur]
       /\ left' = left \ {p}
  /\ pc' = IF left' = {} THEN "publish" ELSE "copy"
  /\ UNCHANGED <<read_position, write_position, wr_pos, cur, pkt, try, free,
                 can1_tx_tmr, issued, history>>

\* Mutant: the slot is never marked ready.
AddPublishBusy ==
  /\ pc = "publish"
  /\ pc' = "advance"
  /\ UNCHANGED <<ring, wr_pos, cur, left, pkt, try, free, can1_tx_tmr, issued,
                 history>>

AddPublish ==
  /\ pc = "publish"
  /\ slot' = [slot EXCEPT ![wr_pos].state = "READY"]
  /\ pc' = "advance"
  /\ UNCHANGED <<read_position, write_position, wr_pos, cur, left, pkt, try,
                 free, can1_tx_tmr, issued, history>>

AddReturn ==
  /\ pc = "advance"
  /\ write_position' = Wrap(wr_pos + 1)
  /\ accepted' = Append(accepted, cur)
  /\ pc' = "loop"
  /\ UNCHANGED <<slot, read_position, wr_pos, cur, left, pkt, try, free,
                 can1_tx_tmr, issued, sent, clean>>

-----------------------------------------------------------------------------
(* add_tx_can_packet called from a CAN receive interrupt. *)

IsrAdd ==
  /\ issued < MaxPackets
  /\ issued' = issued + 1
  /\ slot' = [slot EXCEPT ![write_position] =
                [state |-> "READY", part |-> Whole(issued')]]
  /\ write_position' = Wrap(write_position + 1)
  /\ accepted' = Append(accepted, issued')
  /\ clean' = (clean /\ ~InAdd /\ slot[write_position].state # "READY")
  /\ UNCHANGED <<read_position, task, free, can1_tx_tmr, sent>>

-----------------------------------------------------------------------------
(* canTask inside can_write_from_stack and get_tx_can_packet. *)

WriteCall ==
  /\ pc = "loop"
  /\ can1_tx_tmr >= TxGap
  /\ try' = 0
  /\ pc' = "mailbox"
  /\ UNCHANGED <<ring, wr_pos, cur, left, pkt, free, can1_tx_tmr, issued, history>>

WriteLoop ==
  /\ pc = "mailbox"
  /\ IF free = 0
       THEN pc' = "loop" /\ UNCHANGED try
       ELSE /\ try' = try + 1
            /\ pc' = IF try' >= MaxTry THEN "loop" ELSE "check"
  /\ UNCHANGED <<ring, wr_pos, cur, left, pkt, free, can1_tx_tmr, issued, history>>

\* Mutant: any slot that is not being filled is taken.
GetCheckBusy ==
  /\ pc = "check"
  /\ IF slot[read_position].state # "BUSY"
       THEN pc' = "take" /\ left' = Parts
       ELSE pc' = "loop" /\ UNCHANGED left
  /\ UNCHANGED <<ring, wr_pos, cur, pkt, try, free, can1_tx_tmr, issued, history>>

GetCheck ==
  /\ pc = "check"
  /\ IF slot[read_position].state = "READY"
       THEN pc' = "take" /\ left' = Parts
       ELSE pc' = "loop" /\ UNCHANGED left
  /\ UNCHANGED <<ring, wr_pos, cur, pkt, try, free, can1_tx_tmr, issued, history>>

GetTake ==
  /\ pc = "take"
  /\ \E p \in left :
       /\ pkt' = [pkt EXCEPT ![p] = slot[read_position].part[p]]
       /\ left' = left \ {p}
  /\ pc' = IF left' = {} THEN "release" ELSE "take"
  /\ UNCHANGED <<ring, wr_pos, cur, try, free, can1_tx_tmr, issued, history>>

\* Mutant: the slot taken is not marked empty.
GetReleaseKept ==
  /\ pc = "release"
  /\ pc' = "next"
  /\ UNCHANGED <<ring, wr_pos, cur, left, pkt, try, free, can1_tx_tmr, issued,
                 history>>

GetRelease ==
  /\ pc = "release"
  /\ slot' = [slot EXCEPT ![read_position].state = "EMPTY"]
  /\ pc' = "next"
  /\ UNCHANGED <<read_position, write_position, wr_pos, cur, left, pkt, try,
                 free, can1_tx_tmr, issued, history>>

\* Mutant: the read position stays where it is.
GetReturnStay ==
  /\ pc = "next"
  /\ can1_tx_tmr' = 0
  /\ pc' = "send"
  /\ UNCHANGED <<ring, wr_pos, cur, left, pkt, try, free, issued, history>>

GetReturn ==
  /\ pc = "next"
  /\ read_position' = Wrap(read_position + 1)
  /\ can1_tx_tmr' = 0
  /\ pc' = "send"
  /\ UNCHANGED <<slot, write_position, wr_pos, cur, left, pkt, try, free,
                 issued, history>>

\* HAL_CAN_AddTxMessage
Send ==
  /\ pc = "send"
  /\ sent' = Append(sent, pkt)
  /\ free' = free - 1
  /\ pc' = "mailbox"
  /\ UNCHANGED <<ring, wr_pos, cur, left, pkt, try, can1_tx_tmr, issued,
                 accepted, clean>>

-----------------------------------------------------------------------------
(* The controller and the timer interrupt. *)

\* The one attempt at a frame has been made (can.c, AutoRetransmission).
MailboxDone ==
  /\ free < Mailboxes
  /\ free' = free + 1
  /\ UNCHANGED <<ring, task, can1_tx_tmr, issued, history>>

Tick ==
  /\ can1_tx_tmr <= TxGap
  /\ can1_tx_tmr' = can1_tx_tmr + 1
  /\ UNCHANGED <<ring, task, free, issued, history>>

CanTask ==
  \/ AddCall \/ AddClaim \/ AddCopy \/ AddPublish \/ AddReturn
  \/ WriteCall \/ WriteLoop
  \/ GetCheck \/ GetTake \/ GetRelease \/ GetReturn \/ Send

Next == CanTask \/ IsrAdd \/ MailboxDone \/ Tick

Spec == Init /\ [][Next]_vars

\* canTask loops every millisecond and shares its priority only with tasks
\* that are time-sliced with it; TIM1 always runs; one attempt at a
\* frame frees its mailbox.
FairSpec == Spec /\ WF_vars(CanTask) /\ WF_vars(MailboxDone) /\ WF_vars(Tick)

-----------------------------------------------------------------------------
(* Properties. *)

Labels == {"loop", "claim", "copy", "publish", "advance", "mailbox", "check",
           "take", "release", "next", "send"}
Packet == [Parts -> Nat]
SlotType == [state : {"EMPTY", "BUSY", "READY"}, part : Packet]

TypeOK ==
  /\ slot \in [Slots -> SlotType]
  /\ read_position \in Slots
  /\ write_position \in Slots
  /\ pc \in Labels
  /\ wr_pos \in Slots
  /\ cur \in Nat
  /\ left \subseteq Parts
  /\ pkt \in Packet
  /\ try \in Nat
  /\ free \in 0 .. Mailboxes
  /\ can1_tx_tmr \in 0 .. TxGap + 1
  /\ issued \in Nat
  /\ accepted \in Seq(Nat)
  /\ sent \in Seq(Packet)
  /\ clean \in BOOLEAN

\* Packets that have left the ring, and the position the next one is at.
Taken == Len(sent) + (IF pc \in {"next", "send"} THEN 1 ELSE 0)
Head0 == IF pc = "next" THEN Wrap(read_position + 1) ELSE read_position
Pending == Len(accepted) - Taken
At(i) == Wrap(Head0 + i)

\* The mailbox WriteLoop found free is still free when Send fills it.
MailboxHeld == pc \in {"check", "take", "release", "next", "send"} => free > 0

\* The slots from the read position on hold exactly the packets accepted and
\* not yet taken, whole and in order, and no slot behind them is READY except
\* the one canTask is about to account for.
RingHolds ==
  /\ Taken <= Len(accepted)
  /\ Pending <= StackLength
  /\ write_position = At(Pending)
  /\ \A i \in Slots :
       IF i < Pending
         THEN slot[At(i)] = [state |-> "READY", part |-> Whole(accepted[Taken + i + 1])]
         ELSE slot[At(i)].state = "READY" => i = Pending /\ pc = "advance"

AddHolds ==
  InAdd =>
    /\ wr_pos = write_position
    /\ pc # "claim" => Pending < StackLength
    /\ pc = "copy" => \A p \in Parts \ left : slot[wr_pos].part[p] = cur
    /\ pc \in {"publish", "advance"} => slot[wr_pos].part = Whole(cur)
    /\ pc = "advance" => slot[wr_pos].state = "READY"

GetHolds ==
  /\ pc \in {"take", "release"} => Pending > 0
  /\ pc = "take" => \A p \in Parts \ left : pkt[p] = accepted[Taken + 1]
  /\ pc = "release" => pkt = Whole(accepted[Taken + 1])
  /\ pc \in {"next", "send"} => pkt = Whole(accepted[Taken])

\* Until the ring has overflowed or an interrupt has added a packet in the
\* middle of an add of canTask, what is handed to the mailboxes is what was
\* added, in the order of the adds and never a mixture of two packets
\* (add_tx_can_packet, get_tx_can_packet).
InOrder ==
  clean => /\ Len(sent) <= Len(accepted)
           /\ \A i \in 1 .. Len(sent) : sent[i] = Whole(accepted[i])

RingInv == clean => RingHolds /\ AddHolds /\ GetHolds

\* When get_tx_can_packet answers that there is nothing to send, nothing that
\* was added is left behind in another slot, unless the ring was damaged.
NothingStranded ==
  clean /\ pc = "check" /\ slot[read_position].state # "READY"
    => Len(sent) = Len(accepted)

\* Overflows and torn adds lose packets, mix them and change their order, but
\* no part of a packet is ever sent twice, and nothing is sent that no caller
\* added.
NeverSentTwice ==
  \A i, j \in 1 .. Len(sent) : \A p \in Parts :
    /\ sent[i][p] \in 1 .. issued
    /\ i # j => sent[i][p] # sent[j][p]

\* Every packet accepted by a ring that stays undamaged is handed to a mailbox.
Delivered ==
  \A n \in 1 .. MaxPackets :
    (clean /\ Len(accepted) >= n) ~> (Len(sent) >= n \/ ~clean)

-----------------------------------------------------------------------------
(* The promise of the ring: a queue, until its first fault. *)

Queue == INSTANCE CanQueue WITH
  Packets <- 1 .. MaxPackets,
  queue <- IF clean THEN SubSeq(accepted, Len(sent) + 1, Len(accepted)) ELSE << >>,
  bus <- IF clean THEN sent ELSE << >>,
  ok <- clean

QueueSpec == Queue!Spec
=============================================================================
