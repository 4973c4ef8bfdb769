-------------------------- MODULE TransportEndpoint --------------------------
(***************************************************************************)
(* One transport_protocol object that receives any frames in any order:    *)
(* peers of other makes with windows of their own, and frames that were    *)
(* lost, repeated, delayed or misaddressed on their way.  A session may    *)
(* become idle at any moment.                                              *)
(*                                                                         *)
(* since and open are history variables; the code has nothing like them.   *)
(***************************************************************************)
EXTENDS TransportProtocol

CONSTANTS
  Self,         \* bus_.source_address()
  Payload,      \* the contents of the packets that occur
  MaxSessions   \* bound: no session is opened beyond this number

ASSUME EndpointAssumption ==
  /\ Self \in Unicast
  /\ Payload \subseteq Nat
  /\ MaxSessions \in Nat

VARIABLES
  sessions,    \* sessions_
  sent,        \* the frames sent in the last step
  delivered,   \* the messages handed to rx_callback_ in the last step
  ret,         \* what the last call of send returned
  since,       \* by key, the packets that came after the RTS or BAM of the session
  open         \* the keys announced by an RTS or BAM and not delivered since

vars == <<sessions, sent, delivered, ret, since, open>>

Init ==
  /\ sessions = EmptyMap
  /\ sent = <<>>
  /\ delivered = <<>>
  /\ ret = TRUE
  /\ since = [k \in Key |-> {}]
  /\ open = {}

apply(e) ==
  /\ sessions' = e.sessions
  /\ sent' = e.out
  /\ delivered' = e.up

HasRoom(k) == Cardinality(active(sessions) \cup {k}) <= MaxSessions

------------------------------------------------------------------------------

send(dst, buf, fails) ==
  /\ HasRoom(make_key(Self, dst))
  /\ LET e == start_tx(sessions, Self, dst, 0, buf, fails)
     IN  /\ sessions' = e.sessions
         /\ sent' = e.out
         /\ ret' = e.ret
  /\ delivered' = <<>>
  /\ UNCHANGED <<since, open>>

\* A session for messages from another node is announced.
announced(fr) == fr.type = "BAM" \/ (fr.type = "RTS" /\ fr.dst = Self)

receive_announcement(fr, fails) ==
  /\ announced(fr)
  /\ LET k == make_key(fr.src, fr.dst)
     IN  /\ HasRoom(k)
         /\ apply(on_can_frame(sessions, Self, fr, fails))
         /\ since' = [since EXCEPT ![k] = {}]
         /\ open' = open \cup {k}
  /\ UNCHANGED ret

receive_dt(fr, fails) ==
  /\ fr.type = "DT"
  /\ LET k == make_key(fr.src, fr.dst)
     IN  /\ apply(on_can_frame(sessions, Self, fr, fails))
         /\ since' = IF sessions[k] = NoSession THEN since
                     ELSE [since EXCEPT ![k] = @ \cup {<<fr.seq, fr.data>>}]
         /\ open' = IF delivered' # <<>> THEN open \ {k} ELSE open
  /\ UNCHANGED ret

receive_cts(fr, fails) ==
  /\ fr.type = "CTS"
  /\ apply(on_can_frame(sessions, Self, fr, fails))
  /\ UNCHANGED <<since, open, ret>>

receive_other(fr, fails) ==
  /\ fr.type \notin {"CTS", "DT"} /\ ~announced(fr)
  /\ apply(on_can_frame(sessions, Self, fr, fails))
  /\ UNCHANGED <<since, open, ret>>

session_tick(idle, ks) ==
  /\ apply(tick(sessions, idle, ks))
  /\ since' = [k \in Key |-> IF k \in idle THEN {} ELSE since[k]]
  /\ open' = open \ idle
  /\ UNCHANGED ret

------------------------------------------------------------------------------

Peer == Unicast \ {Self}

incoming(type, src, dst, total, count, seq, data) ==
  [type |-> type, src |-> src, dst |-> dst, total |-> total, count |-> count,
   seq |-> seq, hdr |-> 0, data |-> data]

\* What the bus may bring.  EOM and ABORT frames come under any source address,
\* because a session's sender sends them under the address of its peer.
Incoming ==
  {incoming("RTS", a, b, n, w, 0, Blank) :
     a \in Peer, b \in Unicast, n \in 1 .. MaxPackets, w \in 1 .. MaxPackets} \cup
  {incoming("BAM", a, NO_ADDR, n, MaxPackets, 0, Blank) : a \in Peer, n \in 1 .. MaxPackets} \cup
  {incoming("CTS", a, b, 0, n, i, Blank) :
     a \in Peer, b \in Unicast, n \in Number, i \in Number \ {0}} \cup
  {incoming("DT", a, b, 0, 0, i, d) :
     a \in Peer, b \in Unicast \cup {NO_ADDR}, i \in Number, d \in Payload} \cup
  {incoming(t, a, b, 0, 0, 0, Blank) :
     t \in {"EOM", "ABORT"}, a \in Address, b \in Unicast}

Next ==
  \/ \E dst \in Peer \cup {NO_ADDR}, n \in 1 .. SeqSize, d \in Payload, fails \in Failures :
       send(dst, [i \in 1 .. n |-> d], fails)
  \/ \E fr \in Incoming, fails \in Failures : receive_cts(fr, fails)
  \/ \E fr \in Incoming, fails \in SUBSET {1} :
       receive_announcement(fr, fails) \/ receive_dt(fr, fails) \/ receive_other(fr, fails)
  \/ \E idle \in SUBSET active(sessions) : \E taken \in SUBSET idle :
       \E ks \in orders(taken) : session_tick(idle, ks)

Spec == Init /\ [][Next]_vars

------------------------------------------------------------------------------
(* Properties *)

\* Sessions are stored under their own addresses, and their numbers stay within
\* the width of the code's fields.
TypeOK ==
  /\ sessions \in SessionMap
  /\ \A k \in active(sessions) : /\ k = make_key(sessions[k].src, sessions[k].dst)
                                 /\ Len(sessions[k].buf) = sessions[k].total
  /\ since \in [Key -> SUBSET (Number \X Data)]
  /\ open \subseteq Key

\* The packets a receiving session holds: next_seq is 0 when it wrapped after
\* the last packet of the longest message.
filled(s) == IF s.next = 0 THEN s.total ELSE s.next - 1

\* Whatever frames come in whatever order, a receiving session holds the packets
\* 1 to next_seq - 1, each with the content of a packet of that number that came
\* after the announcement, and zeroes elsewhere: nothing of an earlier message
\* and no packet out of its place (handle_dt, start_rx_rts, start_rx_bam).
HoldsWhatCame ==
  \A k \in Key : sessions[k].dir = "Rx" =>
    \A i \in 1 .. sessions[k].total :
      IF i <= filled(sessions[k]) THEN <<i, sessions[k].buf[i]>> \in since[k]
                                  ELSE sessions[k].buf[i] = Blank

\* A CTS asks for a packet of the message that the receiver does not hold, when
\* it holds all packets before it: never for number 0 or one behind the end, at
\* window boundaries and after repeated announcements as well (response_cts).
AsksForFirstMissing ==
  \A f \in Range(sent) : f.type = "CTS" =>
    LET s == sessions[make_key(f.dst, f.src)]
    IN  s.dir = "Rx" /\ f.seq \in 1 .. s.total /\ f.seq = filled(s) + 1

\* rx_callback_ is called at most once for each announcement, with all packets of
\* the announced message.  The session stays in the map after that, and when the
\* message is the longest one its next_seq is 0 again; the early returns of
\* handle_dt keep it from being filled once more.
DeliversOnceAndWhole ==
  [][delivered' # <<>> =>
       \E k \in open \ open' :
         /\ Len(delivered'[1].buf) = sessions[k].total
         /\ \A i \in 1 .. sessions[k].total : <<i, delivered'[1].buf[i]>> \in since'[k]]_vars

------------------------------------------------------------------------------
(* A statement the code does not meet *)

\* The longest message can be sent: send returns true for a broadcast of
\* MaxPackets packets when every frame is taken by the bus, as it does for
\* shorter ones ("Supports payloads up to 1785 bytes (255 packets x 7 bytes)",
\* transport_protocol.hpp).  next_seq wraps to 0 after the last packet, so that
\* send_data_packets takes the message for unfinished.
LargestIsSupported ==
  [][\A d \in Payload : send(NO_ADDR, [i \in 1 .. MaxPackets |-> d], {}) => ret']_vars
==============================================================================
