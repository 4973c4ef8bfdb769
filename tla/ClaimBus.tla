------------------------------- MODULE ClaimBus -------------------------------
(***************************************************************************)
(* Two nodes with an address_claimer each, every node with a network of    *)
(* its own, on a CAN bus.  The bus is external: it keeps the order of the  *)
(* frames of one node and brings each to the other node, if that is        *)
(* switched on.  A node is fed the claims and requests of the other, not   *)
(* its own (sockets do not receive what they send).                        *)
(***************************************************************************)
EXTENDS J1939, Sequences, Functions

CONSTANTS
  First, Second,   \* the NAMEs of the nodes
  RetryPref,       \* as in AddressStateMachine
  Pref,            \* the preferred addresses that occur
  Prompt,          \* a wait expires only when the handlers before it have run
  MaxStarts,       \* bound: the calls of start_address_claim
  MaxQueue         \* bound: no call from outside while this many handlers wait

ASSUME BusAssumption ==
  /\ {First, Second} \subseteq Name /\ First < Second
  /\ RetryPref \in Address
  /\ Pref \subseteq Unicast
  /\ Prompt \in BOOLEAN
  /\ MaxStarts \in Nat /\ MaxQueue \in Nat

VARIABLES
  st1, claiming1, has_address1, net1, timer1, sent1, queue1,   \* the first node
  st2, claiming2, has_address2, net2, timer2, sent2, queue2,   \* the second node
  wire1, wire2,   \* the frames of each node that the other has not received yet
  on,             \* the nodes that are switched on
  starts          \* the calls of start_address_claim so far

node1 == <<st1, claiming1, has_address1, net1, timer1, sent1, queue1>>
node2 == <<st2, claiming2, has_address2, net2, timer2, sent2, queue2>>

vars == <<node1, node2, wire1, wire2, on, starts>>

C1 == INSTANCE AddressClaimer WITH
  Self <- First, Heard <- {Second}, st <- st1, claiming <- claiming1,
  has_address <- has_address1, net <- net1, timer <- timer1, sent <- sent1, queue <- queue1

C2 == INSTANCE AddressClaimer WITH
  Self <- Second, Heard <- {First}, st <- st2, claiming <- claiming2,
  has_address <- has_address2, net <- net2, timer <- timer2, sent <- sent2, queue <- queue2

Init ==
  /\ C1!Init /\ C2!Init
  /\ wire1 = <<>> /\ wire2 = <<>>
  /\ on = {}
  /\ starts = 0

------------------------------------------------------------------------------

SwitchOn(n) ==
  /\ n \notin on
  /\ on' = on \cup {n}
  /\ UNCHANGED <<node1, node2, wire1, wire2, starts>>

Start1(pref) ==
  /\ First \in on /\ starts < MaxStarts
  /\ C1!start_address_claim(pref)
  /\ starts' = starts + 1
  /\ UNCHANGED <<node2, wire1, wire2, on>>

Start2(pref) ==
  /\ Second \in on /\ starts < MaxStarts
  /\ C2!start_address_claim(pref)
  /\ starts' = starts + 1
  /\ UNCHANGED <<node1, wire1, wire2, on>>

\* A handler runs or a wait expires; on_frame_ hands the frames to the bus.
Run1 ==
  /\ C1!RunHandler \/ ((Prompt => queue1 = <<>>) /\ C1!TimerExpires)
  /\ wire1' = wire1 \o sent1'
  /\ UNCHANGED <<node2, wire2, on, starts>>

Run2 ==
  /\ C2!RunHandler \/ ((Prompt => queue2 = <<>>) /\ C2!TimerExpires)
  /\ wire2' = wire2 \o sent2'
  /\ UNCHANGED <<node1, wire1, on, starts>>

\* process: a claim or cannot-claim frame, or a request to all.
Receive1 ==
  /\ wire2 # <<>> /\ wire2' = Tail(wire2)
  /\ LET f == Head(wire2)
     IN  \/ First \notin on /\ UNCHANGED node1
         \/ First \in on /\ f.type = "request" /\ C1!process_request(NO_ADDR)
         \/ First \in on /\ f.type # "request" /\ C1!process_claim(Second, f.src)
  /\ UNCHANGED <<node2, wire1, on, starts>>

Receive2 ==
  /\ wire1 # <<>> /\ wire1' = Tail(wire1)
  /\ LET f == Head(wire1)
     IN  \/ Second \notin on /\ UNCHANGED node2
         \/ Second \in on /\ f.type = "request" /\ C2!process_request(NO_ADDR)
         \/ Second \in on /\ f.type # "request" /\ C2!process_claim(First, f.src)
  /\ UNCHANGED <<node1, wire2, on, starts>>

Next ==
  \/ \E n \in {First, Second} : SwitchOn(n)
  \/ \E pref \in Pref : Start1(pref) \/ Start2(pref)
  \/ Run1 \/ Run2 \/ Receive1 \/ Receive2

\* Each node keeps running its handlers and its timer, and reading its socket.
Fairness == WF_vars(Run1) /\ WF_vars(Run2) /\ WF_vars(Receive1) /\ WF_vars(Receive2)

Spec == Init /\ [][Next]_vars

FairSpec == Spec /\ Fairness

------------------------------------------------------------------------------
(* Properties *)

Conflict ==
  st1 = "has_address" /\ st2 = "has_address" /\ has_address1 = has_address2

\* Two nodes hold one address only while the frame that tells the weaker one is
\* on its way: the claim of the stronger one on the wire or in the queue of the
\* other, or the request that it will answer.  (The stronger node does not
\* defend its address: process_claim drops a claim that the network refuses.)
ConflictIsReported ==
  Conflict =>
    \/ \E f \in Range(wire1) : f.type = "claim" /\ f.src = has_address1
    \/ C2!LossQueued(has_address2)
    \/ \E f \in Range(wire2) : f.type = "request"
    \/ C1!Queued(C1!AddressRequest(NO_ADDR))

\* Conflicts end, and for good once no claim is started any more.
ConflictsEnd == <>[](~Conflict)

Silent == wire1 = <<>> /\ wire2 = <<>> /\ queue1 = <<>> /\ queue2 = <<>>

\* When nothing is on its way, the network of the weaker node shows where the
\* stronger one is: it heard the last claim, or asked for it after it was switched
\* on, and nothing it did itself since has displaced the entry.
StrongerIsKnown ==
  Silent /\ st1 = "has_address" /\ st2 = "has_address" =>
    C2!get_address(net2, First) = has_address1
==============================================================================
