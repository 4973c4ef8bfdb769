---------------------------- MODULE TransportPair ----------------------------
(***************************************************************************)
(* Two transport_protocol objects on a CAN bus.  The bus is external: it   *)
(* keeps the order of the frames of one node, and may lose a frame or      *)
(* bring it twice in a row.  Each object is fed every frame of the other   *)
(* node, as on_can_frame asks for.                                         *)
(***************************************************************************)
EXTENDS TransportLink

CONSTANTS
  Window,       \* the window of an RTS: MaxPackets in jay, less for other makes
  MaxSend,      \* bound: the calls of send
  MaxFaults,    \* bound: frames lost or repeated, handlers whose sends fail
  Sizes,        \* the numbers of packets of the messages
  Overlap,      \* send is called while a session to the destination exists
  Prompt        \* a session is idle only after all frames were received

ASSUME PairAssumption ==
  /\ MaxUnicast = 1
  /\ Window \in 1 .. MaxPackets
  /\ MaxSend \in Nat /\ MaxFaults \in Nat
  /\ Sizes \subseteq 2 .. MaxPackets
  /\ Overlap \in BOOLEAN /\ Prompt \in BOOLEAN

VARIABLES
  sessions,    \* sessions_ of each node
  wire,        \* the frames of each node that the other has not received yet
  offered,     \* by link, the messages given to send
  delivered,   \* by link, the messages handed to rx_callback_
  faults       \* the faults so far

vars == <<sessions, wire, offered, delivered, faults>>

Message == {numbered(m, size) : m \in 1 .. MaxSend, size \in Sizes}

sends == Len(offered[<<0, 1>>]) + Len(offered[<<1, 0>>])
           + Len(offered[<<0, NO_ADDR>>]) + Len(offered[<<1, NO_ADDR>>])

Init ==
  /\ sessions = [n \in Node |-> EmptyMap]
  /\ wire = [n \in Node |-> <<>>]
  /\ offered = [l \in Link |-> <<>>]
  /\ delivered = [l \in Link |-> <<>>]
  /\ faults = 0

transmit(n, out) == wire' = [wire EXCEPT ![n] = @ \o out]

\* jay's RTS announces the largest window there is.  A smaller one is what a
\* device of another make announces.
announcing(out) ==
  [i \in DOMAIN out |-> IF out[i].type = "RTS" THEN [out[i] EXCEPT !.count = Window]
                                              ELSE out[i]]

MayFail == IF faults = MaxFaults THEN {{}} ELSE Failures

count_faults(fails) == faults' = IF fails = {} THEN faults ELSE faults + 1

------------------------------------------------------------------------------

Send(n, d, size, fails) ==
  /\ sends < MaxSend
  /\ Overlap \/ sessions[n][make_key(n, d)] = NoSession
  /\ LET m == numbered(sends + 1, size)
         e == start_tx(sessions[n], n, d, m.hdr, m.buf, fails)
     IN  /\ sessions' = [sessions EXCEPT ![n] = e.sessions]
         /\ transmit(n, announcing(e.out))
         /\ offered' = [offered EXCEPT ![<<n, d>>] = Append(@, m)]
  /\ count_faults(fails)
  /\ UNCHANGED delivered

Receive(n, fails) ==
  /\ wire[peer(n)] # <<>>
  /\ LET fr == Head(wire[peer(n)])
         e  == on_can_frame(sessions[n], n, fr, fails)
     IN  /\ sessions' = [sessions EXCEPT ![n] = e.sessions]
         /\ wire' = [wire EXCEPT ![n] = @ \o e.out, ![peer(n)] = Tail(@)]
         /\ delivered' = IF e.up = <<>> THEN delivered
                         ELSE [delivered EXCEPT ![<<fr.src, fr.dst>>] = @ \o e.up]
  /\ count_faults(fails)
  /\ UNCHANGED offered

Tick(n, idle, ks) ==
  /\ Prompt => \A x \in Node : wire[x] = <<>>
  /\ LET e == tick(sessions[n], idle, ks)
     IN  /\ sessions' = [sessions EXCEPT ![n] = e.sessions]
         /\ transmit(n, e.out)
  /\ count_faults(idle \ Range(ks))
  /\ UNCHANGED <<offered, delivered>>

\* The faults of the bus.
Lose(n) ==
  /\ wire[n] # <<>> /\ faults < MaxFaults
  /\ wire' = [wire EXCEPT ![n] = Tail(@)]
  /\ faults' = faults + 1
  /\ UNCHANGED <<sessions, offered, delivered>>

Repeat(n) ==
  /\ wire[n] # <<>> /\ faults < MaxFaults
  /\ wire' = [wire EXCEPT ![n] = <<Head(@)>> \o @]
  /\ faults' = faults + 1
  /\ UNCHANGED <<sessions, offered, delivered>>

------------------------------------------------------------------------------

SomeSend ==
  \E l \in Link, size \in Sizes, fails \in MayFail : Send(l[1], l[2], size, fails)

SomeReceive(n) == \E fails \in MayFail : Receive(n, fails)

SomeTick(n) ==
  \E idle \in SUBSET active(sessions[n]) \ {{}} : \E taken \in SUBSET idle :
    /\ faults = MaxFaults => taken = idle
    /\ \E ks \in orders(taken) : Tick(n, idle, ks)

Next ==
  \/ SomeSend
  \/ \E n \in Node : SomeReceive(n) \/ SomeTick(n) \/ Lose(n) \/ Repeat(n)

\* Some node goes on: it reads its socket, or its timer calls tick, which finds
\* a session without traffic idle.
Fairness == WF_vars(\E n \in Node : SomeReceive(n) \/ SomeTick(n))

Spec == Init /\ [][Next]_vars

FairSpec == Spec /\ Fairness

------------------------------------------------------------------------------
(* Properties *)

Delivery == INSTANCE MessageDelivery

\* Between any two nodes the transport protocol is a MessageDelivery: what
\* rx_callback_ gets is a message as it was sent, at most once and in order,
\* though sessions are replaced, time out and end in the middle.
DeliversMessages == Delivery!Spec

\* Every exchange comes to an end: the bus falls silent and no session is left,
\* at either side (no frames that answer each other for ever; tick removes what
\* is not completed, and what is).
ExchangesEnd == <>[](\A n \in Node : wire[n] = <<>> /\ active(sessions[n]) = {})

\* Without faults every message arrives: the windows of sender and receiver fit
\* together for every size, so that neither waits for the other (handle_cts,
\* response_cts, send_data_packets).
MessagesArrive == <>[](faults = 0 => \A l \in Link : delivered[l] = offered[l])
==============================================================================
