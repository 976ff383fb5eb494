------------------------------- MODULE CanNode -------------------------------
(***************************************************************************)
(* The RemoteID module as a node of the CAN bus: how DroneCAN::update()    *)
(* obtains a node ID (do_DNA and handle_allocation_response), how it       *)
(* empties its transmit queue (processTx over CANDriver::send, with the    *)
(* recovery from bus-off), and how it takes what was received (processRx). *)
(*                                                                         *)
(* The 16-byte unique ID is asked for and confirmed in Parts parts.  Its   *)
(* first part is the MAC address, so no other node has it.  Timers are     *)
(* nondeterministic: `due` says that one has run out.                      *)
(***************************************************************************)
EXTENDS Integers, Sequences

CONSTANTS
  Configured,   \* values of the parameter CAN_NODE: 0 asks for dynamic allocation
  OwnId,        \* what the allocator gives this node
  OtherId,      \* what it gives another
  Parts,        \* requests that make up a unique ID: 3
  FailLimit,    \* failed attempts before a frame is dropped: 8
  RxLimit,      \* messages taken in one processRx(): 60 frames
  QueueCap,     \* bound: frames in canard's pool
  InboxCap      \* bound: frames in the driver's receive queue

ASSUME CanAssumption ==
  /\ OwnId \in Nat \ {0} /\ OtherId \in Nat \ {0} /\ OwnId # OtherId
  /\ Configured \subseteq {0, OwnId}
  /\ Parts \in Nat \ {0} /\ FailLimit \in Nat /\ RxLimit \in Nat \ {0}
  /\ QueueCap \in Nat \ {0} /\ InboxCap \in Nat \ {0}

VARIABLES
  pc,              \* where update() is
  can_node,        \* the parameter
  node_id,         \* local node ID of canard, 0 for broadcast
  offset,          \* node_id_allocation_unique_id_offset, in parts
  txq, tx_fail_count,
  inbox,           \* the driver's receive queue
  taken,           \* messages this processRx() has taken from it
  twai,            \* state of the CAN controller
  collected,       \* parts of this node's unique ID the allocator has
  calm             \* nothing disturbs the bus any more

node     == <<node_id, offset>>
bus      == <<inbox, collected>>
nodeVars == <<pc, can_node, node, txq, tx_fail_count, bus, taken, twai, calm>>

-----------------------------------------------------------------------------
Requests == 0..(Parts - 1)
Frame    == [type : {"REQUEST"}, part : Requests] \cup [type : {"STATUS"}]

\* Allocation messages on the bus: another node's request, or the allocator's
\* confirmation of some parts of an unique ID, with a node ID when it is whole.
Message ==
       [source : {"anonymous"}]
  \cup [source : {"allocator"}, uid : {"own", "other"}, parts : 1..Parts, node_id : {OwnId, OtherId}]
Confirmation(uid, parts) ==
  [source |-> "allocator", uid |-> uid, parts |-> parts,
   node_id |-> IF uid = "own" THEN OwnId ELSE OtherId]

NodeTypeOK ==
  /\ pc \in {"dna", "tx", "rx"}
  /\ can_node \in Configured
  /\ node_id \in {0, OwnId, OtherId}
  /\ offset \in Requests
  /\ txq \in Seq(Frame) /\ Len(txq) <= QueueCap
  /\ tx_fail_count \in 0..FailLimit
  /\ inbox \in Seq(Message) /\ taken \in 0..RxLimit
  /\ twai \in {"RUNNING", "STOPPED", "BUS_OFF", "RECOVERING"}
  /\ collected \in 0..Parts
  /\ calm \in BOOLEAN

\* init(): the queues are empty and the controller is started.
NodeInit ==
  /\ pc = "dna"
  /\ can_node \in Configured
  /\ node_id = can_node
  /\ offset = 0
  /\ txq = <<>>
  /\ tx_fail_count = 0
  /\ inbox = <<>> /\ taken = 0
  /\ twai = "RUNNING"
  /\ collected = 0
  /\ calm = FALSE

-----------------------------------------------------------------------------
(* What update() queues. *)

\* canardBroadcast: dropped when the pool is full.
Enqueue(f) == txq' = IF Len(txq) < QueueCap THEN Append(txq, f) ELSE txq

\* A node with an ID sends its statuses when their timers are due.
SendStatus(due) ==
  /\ pc = "dna" /\ node_id # 0
  /\ pc' = "tx"
  /\ IF due THEN Enqueue([type |-> "STATUS"]) ELSE UNCHANGED txq
  /\ UNCHANGED <<can_node, node, tx_fail_count, bus, twai, taken, calm>>

OffsetAfterRequest_Kept == offset   \* mutant: the missing reset
OffsetAfterRequest == 0

\* One without asks for one: from the first part once a second, at once for the
\* part that follows a confirmation.
do_DNA(due) ==
  /\ pc = "dna" /\ node_id = 0
  /\ pc' = "tx"
  /\ \/ /\ ~due /\ offset = 0
        /\ UNCHANGED <<txq, offset>>
     \/ /\ due \/ offset # 0
        /\ Enqueue([type |-> "REQUEST", part |-> offset])
        /\ offset' = OffsetAfterRequest
  /\ UNCHANGED <<can_node, node_id, tx_fail_count, bus, twai, taken, calm>>

-----------------------------------------------------------------------------
(* processTx and CANDriver::send. *)

Deliver(m) == inbox' = IF Len(inbox) < InboxCap THEN Append(inbox, m) ELSE inbox

\* What the allocator makes of a request, external: the first part starts over,
\* another counts if it is the next one.
Allocator(part) ==
  IF part = 0 \/ part = collected
    THEN /\ collected' = IF part + 1 = Parts THEN 0 ELSE part + 1
         /\ Deliver(Confirmation("own", part + 1))
    ELSE UNCHANGED bus

\* The driver takes the frame; on the bus it may still be lost.
SendOk ==
  /\ pc = "tx" /\ txq # <<>>
  /\ twai \in {"RUNNING", "STOPPED"}
  /\ twai' = "RUNNING"
  /\ txq' = Tail(txq)
  /\ tx_fail_count' = 0
  /\ \/ Head(txq).type = "REQUEST" /\ Allocator(Head(txq).part)
     \/ Head(txq).type = "STATUS" /\ UNCHANGED bus
     \/ ~calm /\ UNCHANGED bus
  /\ UNCHANGED <<pc, can_node, node, taken, calm>>

\* A stopped controller is started; a bus-off one told to recover, at most every
\* two seconds (`due`).
Recover_Never(due) == IF twai = "STOPPED" THEN "RUNNING" ELSE twai   \* mutant
Recover(due) ==
  IF twai = "STOPPED" THEN "RUNNING"
  ELSE IF twai = "BUS_OFF" /\ due THEN "RECOVERING" ELSE twai

\* A frame that fails stays at the head until it has failed too often.
TxAfterFailure ==
  IF tx_fail_count < FailLimit THEN tx_fail_count' = tx_fail_count + 1 /\ UNCHANGED txq
  ELSE txq' = Tail(txq) /\ UNCHANGED tx_fail_count

SendFails(due) ==
  /\ pc = "tx" /\ txq # <<>>
  /\ twai \in {"BUS_OFF", "RECOVERING"} \/ ~calm
  /\ twai' = Recover(due)
  /\ TxAfterFailure
  /\ pc' = "rx"
  /\ UNCHANGED <<can_node, node, bus, taken, calm>>

TxDone ==
  /\ pc = "tx" /\ txq = <<>>
  /\ pc' = "rx"
  /\ UNCHANGED <<can_node, node, txq, tx_fail_count, bus, twai, taken, calm>>

-----------------------------------------------------------------------------
(* processRx. *)

Matches_Any(m) == TRUE   \* mutant: the unique ID not compared
Matches(m) == m.uid = "own"

\* A confirmation of a part of this node's unique ID asks for the next part, one
\* of the whole brings the node ID; any other allocation traffic starts over.
handle_allocation_response(m) ==
  IF m.source = "anonymous" THEN offset' = 0 /\ UNCHANGED node_id
  ELSE IF ~Matches(m) THEN offset' = 0 /\ UNCHANGED node_id
  ELSE IF m.parts < Parts THEN offset' = m.parts /\ UNCHANGED node_id
  ELSE node_id' = m.node_id /\ UNCHANGED offset

\* With an ID, allocation messages are no longer accepted.
Receive ==
  /\ pc = "rx" /\ inbox # <<>> /\ taken < RxLimit
  /\ inbox' = Tail(inbox)
  /\ taken' = taken + 1
  /\ IF node_id = 0 THEN handle_allocation_response(Head(inbox)) ELSE UNCHANGED node
  /\ UNCHANGED <<pc, can_node, txq, tx_fail_count, collected, twai, calm>>

\* What comes in above the limit waits for the next update().
RxDone ==
  /\ pc = "rx" /\ (inbox = <<>> \/ taken = RxLimit)
  /\ pc' = "dna" /\ taken' = 0
  /\ UNCHANGED <<can_node, node, txq, tx_fail_count, bus, twai, calm>>

-----------------------------------------------------------------------------
(* The bus, external. *)

\* Requests of other nodes, confirmations meant for them, and this node's own
\* delayed or repeated.
Stray(m) ==
  /\ ~calm
  /\ Len(inbox) < InboxCap
  /\ inbox' = Append(inbox, m)
  /\ collected' = IF m.source = "anonymous" THEN 0 ELSE collected
  /\ UNCHANGED <<pc, can_node, node, txq, tx_fail_count, twai, taken, calm>>

BusOff ==
  /\ ~calm
  /\ twai = "RUNNING"
  /\ twai' = "BUS_OFF"
  /\ UNCHANGED <<pc, can_node, node, txq, tx_fail_count, bus, taken, calm>>

\* The controller has seen enough idle bits.
Recovered ==
  /\ twai = "RECOVERING"
  /\ twai' = "STOPPED"
  /\ UNCHANGED <<pc, can_node, node, txq, tx_fail_count, bus, taken, calm>>

Restart ==
  /\ ~calm
  /\ pc' = "dna"
  /\ node_id' = can_node
  /\ offset' = 0
  /\ txq' = <<>>
  /\ tx_fail_count' = 0
  /\ inbox' = <<>> /\ taken' = 0
  /\ twai' = "RUNNING"
  /\ UNCHANGED <<can_node, collected, calm>>

CalmDown ==
  /\ ~calm
  /\ calm' = TRUE
  /\ UNCHANGED <<pc, can_node, node, txq, tx_fail_count, bus, taken, twai>>

Strays ==
  {[source |-> "anonymous"]} \cup
    {Confirmation(uid, parts) : uid \in {"own", "other"}, parts \in 1..Parts}

Update ==
  \/ \E due \in BOOLEAN : SendStatus(due) \/ do_DNA(due) \/ SendFails(due)
  \/ SendOk \/ TxDone \/ Receive \/ RxDone

NodeNext ==
  \/ Update
  \/ \E m \in Strays : Stray(m)
  \/ BusOff \/ Recovered \/ Restart \/ CalmDown

NodeSpec == NodeInit /\ [][NodeNext]_nodeVars

\* update() is called forever, a timer that is asked again and again runs out,
\* and a controller told to recover does.
FairSpec ==
  /\ NodeSpec
  /\ WF_nodeVars(Update) /\ WF_nodeVars(Recovered)
  /\ SF_nodeVars(SendStatus(TRUE) \/ do_DNA(TRUE))
  /\ SF_nodeVars(twai = "BUS_OFF" /\ SendFails(TRUE))

-----------------------------------------------------------------------------
(* Properties. *)

\* Whatever allocation traffic of other nodes, delays and repetitions mix with
\* its own, the node takes no ID but the one allocated for its own unique ID.
OwnIdOnly == node_id \in {0, OwnId}

\* When nothing disturbs the bus any more the node gets an ID, whatever the
\* requests, confirmations and failed frames left over from before.
GetsAnId == calm ~> node_id # 0

\* After any failure, bus-off included, the controller runs again and the queue
\* empties, again and again: nothing needs a restart.
QueueDrains == <>[]calm => []<>(twai = "RUNNING" /\ txq = <<>>)
=============================================================================
