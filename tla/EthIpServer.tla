------------------------------ MODULE EthIpServer -----------------------------
(***************************************************************************)
(* The EtherNet/IP server (tcpserver.c): a thread that accepts connections *)
(* and a thread per session.  A session takes a free number from nums,     *)
(* builds its answers in its part of out_buf and hands them to the stack   *)
(* without a copy; at its end it gives the number back.  Sessions have one *)
(* priority and are time-sliced: one may be stopped in favour of another   *)
(* between any two accesses.  The loops that fill an answer (ethip.c)      *)
(* count in a static variable all sessions share.                          *)
(*                                                                         *)
(* A client sends a request when it has the answer to the one before.  The *)
(* stack takes an answer out of the buffer when it sends it, which may be  *)
(* later, or again, on a bad line.                                         *)
(***************************************************************************)
EXTENDS Naturals, FiniteSets, FiniteSetsExt

CONSTANTS
  Slots,         \* session numbers: 1 .. 3
  Conns,         \* bound: connections
  Size,          \* bytes of an object
  MaxRequests    \* bound: requests of a connection

ASSUME ServerAssumption ==
  Slots \in SUBSET Nat /\ IsFiniteSet(Slots) /\ Size \in Nat \ {0} /\ MaxRequests \in Nat

VARIABLES
  nums,
  spc, num, nums_read, \* the sessions; nums as loaded by |= and &=
  shared_i, len,       \* the static counter; bytes of the answer under way
  straight,            \* the bytes of the answer under way are the object's, in order
  out_buf,             \* per slot: the answers whose bytes are in it
  asked, unsent,       \* requests of a connection; the answer the stack has yet to send
  wrong,               \* history: a client received something else than its answer
  raced,               \* history: two sessions were in nums at once
  mixed                \* history: two sessions were filling answers at once, or one
                       \* filled a slot with an answer unsent

session == <<spc, num, nums_read>>
answer == <<shared_i, len, straight, out_buf>>
stack == <<asked, unsent>>
history == <<wrong, raced, mixed>>
server_vars == <<nums, session, answer, stack, history>>

None == [slot |-> 0, request |-> 0, whole |-> FALSE]

ServerInit ==
  /\ nums = {}
  /\ spc = [c \in Conns |-> "offered"] /\ num = [c \in Conns |-> 0]
  /\ nums_read = [c \in Conns |-> {}]
  /\ shared_i = 0
  /\ len = [c \in Conns |-> 0] /\ straight = [c \in Conns |-> TRUE]
  /\ out_buf = [n \in Slots |-> {}]
  /\ asked = [c \in Conns |-> 0] /\ unsent = [c \in Conns |-> None]
  /\ wrong = FALSE /\ raced = FALSE /\ mixed = FALSE

Goto(c, from, to) == spc[c] = from /\ spc' = [spc EXCEPT ![c] = to]
Others(c, at) == \E d \in Conns \ {c} : spc[d] \in at

-----------------------------------------------------------------------------
(* tcp_server_thread. *)

Accept(c) ==
  /\ IF nums # Slots THEN Goto(c, "offered", "pick") ELSE Goto(c, "offered", "closed")
  /\ UNCHANGED <<nums, num, nums_read, answer, stack, history>>

-----------------------------------------------------------------------------
(* ethipserver_thread: its number. *)

Pick(c) ==
  /\ IF nums = Slots
       THEN Goto(c, "pick", "closed") /\ UNCHANGED num
       ELSE Goto(c, "pick", "load") /\ num' = [num EXCEPT ![c] = Min(Slots \ nums)]
  /\ raced' = (raced \/ Others(c, {"load", "store"}))
  /\ UNCHANGED <<nums, nums_read, answer, stack, wrong, mixed>>

Load(c, from, to) ==
  /\ Goto(c, from, to)
  /\ nums_read' = [nums_read EXCEPT ![c] = nums]
  /\ raced' = (raced \/ Others(c, {"store", "clear"}))
  /\ UNCHANGED <<nums, num, answer, stack, wrong, mixed>>

ClaimLoad(c) == Load(c, "load", "store")

\* Mutant: "=" instead of "|=".
ClaimStoreOnly(c) ==
  /\ Goto(c, "store", "ready")
  /\ nums' = {num[c]} /\ nums_read' = [nums_read EXCEPT ![c] = {}]
  /\ UNCHANGED <<num, answer, stack, history>>

ClaimStore(c) ==
  /\ Goto(c, "store", "ready")
  /\ nums' = nums_read[c] \cup {num[c]} /\ nums_read' = [nums_read EXCEPT ![c] = {}]
  /\ UNCHANGED <<num, answer, stack, history>>

\* The client has gone, has sent UNREG_SESSION, or has been silent for 30 s.
End(c) ==
  /\ Goto(c, "ready", "unclaim")
  /\ UNCHANGED <<nums, num, nums_read, answer, stack, history>>

FreeLoad(c) == Load(c, "unclaim", "clear")

\* Mutant: the bit of the first slot is cleared.
FreeStoreFirst(c) ==
  /\ Goto(c, "clear", "closed")
  /\ nums' = nums_read[c] \ {Min(Slots)}
  /\ nums_read' = [nums_read EXCEPT ![c] = {}] /\ num' = [num EXCEPT ![c] = 0]
  /\ UNCHANGED <<answer, stack, history>>

FreeStore(c) ==
  /\ Goto(c, "clear", "closed")
  /\ nums' = nums_read[c] \ {num[c]}
  /\ nums_read' = [nums_read EXCEPT ![c] = {}] /\ num' = [num EXCEPT ![c] = 0]
  /\ UNCHANGED <<answer, stack, history>>

-----------------------------------------------------------------------------
(* ethipserver_thread: a request and its answer. *)

\* netconn_recv and the beginning of get_answer.
Request(c) ==
  /\ Goto(c, "ready", "copy")
  /\ unsent[c] = None
  /\ asked[c] < MaxRequests /\ asked' = [asked EXCEPT ![c] = @ + 1]
  /\ shared_i' = 0
  /\ len' = [len EXCEPT ![c] = 0] /\ straight' = [straight EXCEPT ![c] = TRUE]
  /\ out_buf' = [out_buf EXCEPT ![num[c]] = {<<c, asked'[c]>>}]
  /\ mixed' = (mixed \/ Others(c, {"copy"}) \/ \E d \in Conns : unsent[d].slot = num[c])
  /\ UNCHANGED <<nums, num, nums_read, unsent, wrong, raced>>

\* One byte of the object: out[offset++] = answer[i], with the counter of everyone.
CopyByte(c) ==
  /\ spc[c] = "copy" /\ shared_i < Size
  /\ shared_i' = shared_i + 1 /\ len' = [len EXCEPT ![c] = @ + 1]
  /\ straight' = [straight EXCEPT ![c] = @ /\ shared_i = len[c]]
  /\ out_buf' = [out_buf EXCEPT ![num[c]] = @ \cup {<<c, asked[c]>>}]
  /\ UNCHANGED <<nums, session, stack, history>>

\* Mutant: one number for all.
WriteFirst(c) ==
  /\ Goto(c, "copy", "ready") /\ shared_i >= Size
  /\ unsent' = [unsent EXCEPT ![c] = [slot |-> Min(Slots), request |-> asked[c],
                                      whole |-> straight[c] /\ len[c] = Size]]
  /\ len' = [len EXCEPT ![c] = 0] /\ straight' = [straight EXCEPT ![c] = TRUE]
  /\ UNCHANGED <<nums, num, nums_read, shared_i, out_buf, asked, history>>

\* netconn_write with NETCONN_NOCOPY.
Write(c) ==
  /\ Goto(c, "copy", "ready") /\ shared_i >= Size
  /\ unsent' = [unsent EXCEPT ![c] = [slot |-> num[c], request |-> asked[c],
                                      whole |-> straight[c] /\ len[c] = Size]]
  /\ len' = [len EXCEPT ![c] = 0] /\ straight' = [straight EXCEPT ![c] = TRUE]
  /\ UNCHANGED <<nums, num, nums_read, shared_i, out_buf, asked, history>>

\* lwIP: the client receives what is in the buffer by now.
Send(c) ==
  /\ unsent[c] # None /\ unsent' = [unsent EXCEPT ![c] = None]
  /\ wrong' = (wrong \/ ~unsent[c].whole \/ out_buf[unsent[c].slot] # {<<c, unsent[c].request>>})
  /\ UNCHANGED <<nums, session, answer, asked, raced, mixed>>

Session(c) ==
  Pick(c) \/ ClaimLoad(c) \/ ClaimStore(c) \/ FreeLoad(c) \/ FreeStore(c) \/ CopyByte(c) \/ Write(c)

ServerNext == \E c \in Conns : Accept(c) \/ Session(c) \/ Request(c) \/ End(c) \/ Send(c)

\* The server is still there when every connection of the instance is over.
Over == (\A c \in Conns : spc[c] = "closed" /\ unsent[c] = None) /\ UNCHANGED server_vars

ServerSpec == ServerInit /\ [][ServerNext \/ Over]_server_vars

\* The threads run, answers get through in the end, and a silent client is
\* dropped after 30 s.
ServerFairSpec ==
  /\ ServerSpec
  /\ \A c \in Conns : /\ WF_server_vars(Accept(c)) /\ WF_server_vars(Session(c))
                      /\ WF_server_vars(Send(c)) /\ SF_server_vars(End(c))

-----------------------------------------------------------------------------
(* Properties. *)

ServerTypeOK ==
  /\ nums \subseteq Slots
  /\ spc \in [Conns -> {"offered", "pick", "load", "store", "ready", "copy", "unclaim",
                        "clear", "closed"}]
  /\ num \in [Conns -> Slots \cup {0}] /\ nums_read \in [Conns -> SUBSET Slots]
  /\ shared_i \in 0 .. Size /\ len \in [Conns -> Nat] /\ straight \in [Conns -> BOOLEAN]
  /\ out_buf \in [Slots -> SUBSET (Conns \X (0 .. MaxRequests))]
  /\ asked \in [Conns -> 0 .. MaxRequests]
  /\ unsent \in [Conns -> [slot : Slots \cup {0}, request : 0 .. MaxRequests, whole : BOOLEAN]]
  /\ wrong \in BOOLEAN /\ raced \in BOOLEAN /\ mixed \in BOOLEAN

Holders == {c \in Conns : spc[c] \in {"ready", "copy", "unclaim", "clear"}}

\* Every variable keeps its type, and nums is the numbers of the sessions there are,
\* each with one of its own, unless two sessions have been in it at once.
OwnSlot ==
  /\ ServerTypeOK
  /\ raced \/ /\ nums = {num[c] : c \in Holders}
              /\ Cardinality(nums) = Cardinality(Holders)

\* A client gets the answer to its request and to no other, whatever becomes of
\* nums, unless two sessions filled answers at once or one filled a slot with an
\* answer unsent.
AnswersRight == mixed \/ ~wrong

\* When the clients are gone, every session ends and every number is free again,
\* unless two sessions were in nums at once.
EndsFree == <>[](\A c \in Conns : spc[c] = "closed") /\ <>[](raced \/ nums = {})
===============================================================================
